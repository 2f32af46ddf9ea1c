CONSTANTS
  Budget = 1
  MaxLoaded = 2
  Grace = 0
  Models = {a, b}
  Requests = {q1, q2}
  Runtimes = {"small"}
  Asks <- CallsAndUnloads
  DefaultKeepAlive = 1
  Estimate <- UnitEstimate
  Priority <- SamePriority
  Incomplete = {}
  MaxIdle = 1
  None = None
  Unset = Unset
SPECIFICATION Spec
SYMMETRY AllSymmetry
INVARIANTS
  NoProcessSurvivesStop
CHECK_DEADLOCK FALSE
