\* Lockfiles that cannot be installed, no renamed tests.
SPECIFICATION FindSpec
CONSTANTS
  Locks = {la, lb}
  Absent = Absent
  Partial = Partial
  Branches <- PlainBranches
  Installables <- SomeInstall
INVARIANT ChosenIsEarliest
\* The walk ends.
CHECK_DEADLOCK FALSE
