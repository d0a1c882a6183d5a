SPECIFICATION ButcheringSpec
CONSTANTS
  Entity = {1, 2, 3}
  NoEntity = NoEntity
  Unset = Unset
  SilentFrees = TRUE
  KeptRemovals = TRUE
  MaxTracked = 4
  MaxEntities = 131
  Residents = 0
  FullRender = 1
  MaxCreations = 3
INVARIANTS
  ButcheringTypeOK
  ReserveKept
  FrozenIsOpaque
  GibsesInView
CHECK_DEADLOCK FALSE
