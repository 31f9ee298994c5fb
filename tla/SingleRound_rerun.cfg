\* Two runs in one trial directory, each of which may be killed anywhere.
SPECIFICATION SingleSpec
CONSTANTS
  MaxRounds = 1
  Traits = {"in", "out", "worse"}
  MaxLines = 1
  HunkLines = 7
  Outputs <- FewOutputs
  Mute = {"volley", "reconcile"}
  MaxRuns = 2
  Crashes = TRUE
INVARIANTS
  MeasuredIsMerged
  ShippedPatchPassed
PROPERTY SingleReleasesAsPromised
\* The system stops after MaxRuns runs.
CHECK_DEADLOCK FALSE
