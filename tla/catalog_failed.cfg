SPECIFICATION Spec
CONSTANTS
  Chars = {1, 2}
  NameSize = 3
  Schemas <- TwoColumns
  MaxTables = 2
  MaxPages = 4
  MaxSessions = 3
INVARIANTS
  CreatedTablesAreFound
CHECK_DEADLOCK FALSE
