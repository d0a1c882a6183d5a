SPECIFICATION MenuSpec
CONSTANTS
  None = None
  Uncached = Uncached
  Kconfigs <- Interfaces
  Collation <- Strings
  Numeral <- NumberOf
  MaxMissing = 1
  ScrollOffset = 1
  PageJump = 2
  MaxStray = 2
INVARIANTS
  SelectionOnScreen
  NoChangesLost
CHECK_DEADLOCK FALSE
