CONSTANTS
  Instances = {a, b}
  PortMin = 1
  PortMax = 2
  Foreign <- FreeSharedAndNone
  PipeSize = 1
  MaxCancels = 2
  Nobody = Nobody
  NoPort = NoPort
SPECIFICATION Spec
INVARIANT ReadyMeansItsOwnServer
CHECK_DEADLOCK FALSE
