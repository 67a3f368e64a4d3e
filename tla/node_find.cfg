SPECIFICATION Spec
CONSTANTS
  Keys = {1, 2, 3, 4, 5, 6, 7}
  Rows = {}
  LeafMax = 2
  InternalMax = 2
  MaxPages = 2
  Longest = 5
INVARIANTS
  SearchInv
  FindsThePosition
PROPERTIES
  SearchHalves
CHECK_DEADLOCK FALSE
