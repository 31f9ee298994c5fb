SPECIFICATION KeyRangeSpec
CONSTANTS
  MaxKey = 3
  Groups = {g1, g2}
  NoGroup = NoGroup
  Gens = {1, 2}
  MinEntries = 2
  Updates <- MCUpdates
INVARIANTS
  RangesAreDisjoint
  GroupsAreCounted
  FindsWhatCovers
  FoundIsOfLabel
PROPERTY RoutesAsAMap
SYMMETRY Swaps
