\* Up to three batches of either script over three trials.
SPECIFICATION BatchSpec
CONSTANTS
  N = 3
  ForgeIsA = {1}
  MaxRuns = 3
INVARIANTS
  AnswersAreCounted
  RetallyDriftsByMuteOnly
PROPERTY AnswersAreFinal
\* No batch is started after MaxRuns.
CHECK_DEADLOCK FALSE
