\* A resumption with no report of an earlier run, but with its labels and
\* records; any agent of the two loops may fail to write its report.
SPECIFICATION ResumeSpec
CONSTANTS
  MaxRounds = 3
  Traits = {"in"}
  HunterMayFail = TRUE
  HuntLeft = {"absent"}
  MaxComments = 2
  ReviewerMayFail = TRUE
  CommentsLeft <- NoLeftovers
  Outcomes = {"none", "impasse_build_broken"}
INVARIANTS
  ConvergedWasHunted
  GateIsTheBuild
  ApprovalIsOfThisTree
  LabelTellsBuild
  RoundsArePaidFor
  ResumesTheCandidate
  OutcomeTellsBuild
PROPERTY ResumeEnds
\* The script ends.
CHECK_DEADLOCK FALSE
