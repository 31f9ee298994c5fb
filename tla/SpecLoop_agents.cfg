\* Any agent may return without writing its file.
SPECIFICATION SpecLoopSpec
CONSTANTS
  MaxRounds = 3
  Traits = {}
  Claims = {c1, c2}
  NoFile = NoFile
  Clean = Clean
  Silent = {"volley", "hunt", "reconcile"}
INVARIANTS
  HandedOverWasHunted
PROPERTY SpecEnds
\* The loop ends.
CHECK_DEADLOCK FALSE
