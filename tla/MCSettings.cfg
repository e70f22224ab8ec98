SPECIFICATION Spec
CONSTANTS
  Roles = {ra, rb}
  Ops = {o1, o2, o3}
  MaxVersion = 4
  Limits = {1, 2}
  DefaultLimit = 1
SYMMETRY Symmetry
INVARIANTS
  LoadedIsChosen
  FailureExplained
  LimitIsSaid
CHECK_DEADLOCK FALSE
