SPECIFICATION Spec
CONSTANTS
  Version = {ours, other}
  PluginVersion = ours
  NoVersion = NoVersion
  TableVersions = {1, 2, 3}
  TableVersion = 2
INVARIANTS
  NoNullDispatcher
CHECK_DEADLOCK FALSE
