SPECIFICATION Spec
CONSTANTS
  Run = {r1, r2}
  Scheme = {plain, some}
  Plain = plain
  Config = {c0, c1}
  Default = c0
  Absent = Absent
  Cut = Cut
INVARIANTS
  KconfigTypeOK
  RunDescribes
PROPERTIES
  BuildTakesConfig
  CutStays
