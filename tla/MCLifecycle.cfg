CONSTANTS
  Budget = 2
  MaxLoaded = 3
  Grace = 0
  Models = {"a", "b", "c", "d"}
  Requests = {q1, q2, q3}
  Runtimes = {"small"}
  Asks <- MixedWork
  DefaultKeepAlive = 1
  Estimate <- LargeC
  Priority <- SamePriority
  Incomplete = {"d"}
  MaxIdle = 1
  None = None
  Unset = Unset
SPECIFICATION Spec
SYMMETRY RequestSymmetry
INVARIANTS
  TypeOK
  WithinCapacity
  SingleFlight
  TableIsLive
  BusyIffServed
  NoProcessForgotten
  DownLeavesOnlyLost
  AdmissionAwaitsEvictions
  SweepAgreesWithScheduler
PROPERTIES
  FirstVictimIsIdle
CHECK_DEADLOCK FALSE
