SPECIFICATION FairSpec
CONSTANTS
  Entity = {e1, e2, e3}
  NoEntity = NoEntity
  Unset = Unset
  SilentFrees = FALSE
  KeptRemovals = FALSE
  MaxTracked = 5
INVARIANTS
  TrustedInUse
  ViewIsState
PROPERTIES
  QueuedEnters
  ImplementsRegistry
CHECK_DEADLOCK FALSE
