SPECIFICATION Spec
CONSTANTS
  Value = {v1, v2, v3}
  NoValue = NoValue
  MaxVisits = 4
INVARIANTS
  TypeOK
  RankIsStrongest
  ValueIsSupplied
  WinnerKeepsValue
CHECK_DEADLOCK FALSE
