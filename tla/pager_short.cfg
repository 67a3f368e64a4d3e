SPECIFICATION Spec
CONSTANTS
  MaxPages = 3
  PageSize = 2
  Blocks = {0, 1}
  Outcomes = {1, 2}
INVARIANTS
  NextPageIsFresh
