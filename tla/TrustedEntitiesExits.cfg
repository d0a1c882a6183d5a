SPECIFICATION Spec
CONSTANTS
  Entity = {e1, e2, e3}
  NoEntity = NoEntity
  Unset = Unset
  SilentFrees = TRUE
  KeptRemovals = FALSE
  MaxTracked = 4
PROPERTIES
  FrameExitsFreed
CHECK_DEADLOCK FALSE
