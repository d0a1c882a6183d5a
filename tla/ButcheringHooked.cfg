SPECIFICATION ButcheringFairSpec
CONSTANTS
  Entity = {1, 2, 3, 4}
  NoEntity = NoEntity
  Unset = Unset
  SilentFrees = FALSE
  KeptRemovals = FALSE
  MaxTracked = 2
  MaxEntities = 131
  Residents = 0
  FullRender = 0
  MaxCreations = 4
INVARIANTS
  FrozenIsTracked
  TracksLiveGibs
PROPERTIES
  FullTableThaws
CHECK_DEADLOCK FALSE
