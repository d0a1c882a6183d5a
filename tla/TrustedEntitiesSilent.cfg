SPECIFICATION Spec
CONSTANTS
  Entity = {e1, e2, e3}
  NoEntity = NoEntity
  Unset = Unset
  SilentFrees = TRUE
  KeptRemovals = TRUE
  MaxTracked = 5
INVARIANTS
  TypeOK
  QueueDistinct
  NothingTrustedWhenIdle
PROPERTIES
  EntersInUse
  FrameTrustsInUse
CHECK_DEADLOCK FALSE
