SPECIFICATION LibrarySpec
VIEW LoadView
CONSTANTS
  None = None
  Uncached = Uncached
  Kconfigs <- Systems
  Collation <- Strings
  Absent = Absent
  Names <- AllNames
  Texts <- AllTexts
  Numeral <- NumberOf
  MaxMissing = 1
INVARIANTS
  CachesFresh
  ValuesConsistent
  AssignableRespected
  LoadReplaces
  RoundTrip
PROPERTIES
  ImplementsBuild
