SPECIFICATION LifecycleSpec
CONSTANTS
  Addrs = {a1}
  Callers = {p1, p2}
  Run = run
  MaxClient = 8
  MaxFailures = 2
INVARIANTS
  NoClientLeaks
  ManagedIsServed
  FailuresAreOfThisClient
PROPERTIES
  CreationsAreTried
  ShutdownEnds
