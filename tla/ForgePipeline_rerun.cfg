\* Two runs in one trial directory, each of which may be killed anywhere.
SPECIFICATION PipelineSpec
CONSTANTS
  MaxRounds = 1
  Traits = {"in"}
  Claims = {}
  NoFile = NoFile
  Clean = Clean
  Silent = {}
  MaxLines = 1
  HunkLines = 7
  Outputs <- IdleOrEdited
  HunterMayFail = TRUE
  HuntLeft = {}
  MaxComments = 1
  ReviewerMayFail = TRUE
  CommentsLeft = {}
  MaxRuns = 2
  Crashes = TRUE
INVARIANTS
  RecordTellsBuild
  RecordFollowsShip
PROPERTIES
  ReleasesAsPromised
  RunEnds
\* The system stops after MaxRuns runs.
CHECK_DEADLOCK FALSE
