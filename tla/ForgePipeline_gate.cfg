\* What a failed complexity gate changes.
SPECIFICATION PipelineSpec
CONSTANTS
  MaxRounds = 1
  Traits = {"in", "worse"}
  Claims = {}
  NoFile = NoFile
  Clean = Clean
  Silent = {}
  MaxLines = 1
  HunkLines = 7
  Outputs <- IdleOrEdited
  HunterMayFail = FALSE
  HuntLeft = {}
  MaxComments = 1
  ReviewerMayFail = FALSE
  CommentsLeft = {}
  MaxRuns = 1
  Crashes = FALSE
INVARIANT GateFailFallsBack
\* The system stops after MaxRuns runs.
CHECK_DEADLOCK FALSE
