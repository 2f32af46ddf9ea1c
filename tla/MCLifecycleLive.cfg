CONSTANTS
  Budget = 2
  MaxLoaded = 2
  Grace = 1
  Models = {"a", "b"}
  Requests = {q1, q2}
  Runtimes = {"small", "large"}
  Asks <- Reconfiguration
  DefaultKeepAlive = 1
  Estimate <- ByRuntime
  Priority <- FirstPriority
  Incomplete = {}
  MaxIdle = 1
  None = None
  Unset = Unset
SPECIFICATION FairSpec
PROPERTIES
  EveryRequestEnds
  KeepAliveEnforced
  StopEnds
  ImplementsResidency
CHECK_DEADLOCK FALSE
