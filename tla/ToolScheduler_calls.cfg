SPECIFICATION SchedulerSpec
CONSTANTS
  Rich = b1
  Plain = b2
  Batches = {b1, b2, b3}
  Nobody = Nobody
  MaxCalls = 2
  MaxAgain = 1
  Requests <- MCRequests
INVARIANTS
  CallsAreInOnePlace
  NothingIsLeftBehind
  WaitersRunAlone
PROPERTIES
  NoneStartsAfterAbort
  ServesTheLine
  EveryRequestSettles
\* Every request is settled in the end.
CHECK_DEADLOCK FALSE
