CONSTANTS
  Budget = 2
  MaxLoaded = 3
  Grace = 0
  Models = {"a", "b", "c"}
  Requests = {q1, q2, q3}
  Runtimes = {"small"}
  Asks <- Contention
  DefaultKeepAlive = 1
  Estimate <- LargeC
  Priority <- SamePriority
  Incomplete = {}
  MaxIdle = 1
  None = None
  Unset = Unset
SPECIFICATION Spec
SYMMETRY RequestSymmetry
PROPERTIES
  BusyIsNeverEvicted
CHECK_DEADLOCK FALSE
