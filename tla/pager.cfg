SPECIFICATION Spec
CONSTANTS
  MaxPages = 3
  PageSize = 2
  Blocks = {0, 1, 2}
  Outcomes = {0, 2}
INVARIANTS
  PagerInv
  SaveInv
  NextPageIsFresh
PROPERTIES
  ClosingSaves
  ImplementsPageFile
