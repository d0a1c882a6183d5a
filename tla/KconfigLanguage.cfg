SPECIFICATION TreeSpec
CONSTANTS
  None = None
  Vocabularies <- All
  Texts <- AllTexts
  Environment <- Vars
  MaxExpansions = 2
INVARIANTS
  NodesInPlace
  TreeFinalized
  LoopsFound
  TextsExpand
CHECK_DEADLOCK FALSE
