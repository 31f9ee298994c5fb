\* Two calls for two candidates over two files, any of which may be missing.
SPECIFICATION GateSpec
CONSTANTS
  Files = {f1, f2}
  Sources <- AroundThreshold
  Missing = Missing
  Unparsable = Unparsable
  MaxCalls = 2
INVARIANTS
  VerdictIsRight
  SnapshotsAreClean
\* The gate is not called more than MaxCalls times.
CHECK_DEADLOCK FALSE
