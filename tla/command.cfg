SPECIFICATION CommandSpec

CONSTANTS
  MaxColumns = 2
  Columns <- KeyAndText
  Primary = 1
  TextMax = 2
  Ints = {0, 1}
  Texts <- SomeTexts

INVARIANTS
  CommandTypeOK
  AllocationsAreOwned
  TreesAreWhole
  UnknownsStayInWhere

PROPERTIES
  StatementsAreWhole
  KeysAgreeUntilUpdated
  UnsetIsAnUpdates
  LinesEnd
