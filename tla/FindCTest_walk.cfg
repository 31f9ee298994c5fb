\* Branches of up to four commits, renamed tests and broken lockfiles included.
SPECIFICATION FindSpec
CONSTANTS
  Locks = {la, lb}
  Absent = Absent
  Partial = Partial
  Branches <- RenamingBranches
  Installables <- SomeInstall
INVARIANTS
  VerdictsAreRight
PROPERTY WalkEnds
\* The walk ends.
CHECK_DEADLOCK FALSE
