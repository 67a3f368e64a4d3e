SPECIFICATION CommandSpec

CONSTANTS
  MaxColumns = 2
  Columns <- KeyAndText
  Primary = 1
  TextMax = 2
  Ints = {0}
  Texts <- SomeTexts

PROPERTIES
  UpdatesReadBack
