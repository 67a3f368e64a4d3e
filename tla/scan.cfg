SPECIFICATION FairScanSpec
CONSTANTS
  Keys = {1, 2, 3, 4}
  Rows = {0, 1}
  LeafMax = 2
  InternalMax = 3
  MaxPages = 8
  MaxOthers = 0
  MaxSessions = 2
  Headroom = 2
  Operations = {"insert", "delete"}
ACTION_CONSTRAINT ChosenStatements
INVARIANTS
  ScanTypeOK
  ScanAscends
  ScanIsComplete
  OldRowsAreOfEmptyLeaves
PROPERTIES
  ScansFinish
CHECK_DEADLOCK FALSE
