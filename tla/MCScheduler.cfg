CONSTANTS
  Budget = 4
  MaxLoaded = 3
  Grace = 1
  Names = {"a", "b", "c"}
  NewName = "n"
  MaxBytes = 2
  MaxIdle = 2
  MaxRequired = 5
SPECIFICATION Spec
INVARIANTS
  PlanMakesRoom
  PlanIsMinimal
  RefusesOnlyWithoutRecourse
  EvictionPolicy
CHECK_DEADLOCK FALSE
