SPECIFICATION Spec
CONSTANTS
  Chars = {1, 2}
  NameSize = 2
  Schemas <- TwoColumns
  MaxTables = 2
  MaxPages = 4
  MaxSessions = 3
INVARIANTS
  CatalogInv
  CleanTablesAreFound
  OnlyCreatedTables
  RootsAreDistinct
CHECK_DEADLOCK FALSE
