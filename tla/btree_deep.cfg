\* Trees of up to four levels, with anything from no page to plenty left for
\* them: an INSERT may begin on a full file and run out of pages in any split.
SPECIFICATION FairSpec
CONSTANTS
  Keys = {1, 2, 3, 4, 5, 6, 7, 8, 9}
  Rows = {r1}
  LeafMax = 2
  InternalMax = 2
  MaxPages = 16
  MaxOthers = 14
  MaxSessions = 1
  Headroom = 0
  Crowd = 9
  Refill = FALSE
  Window = 4
  Operations = {"insert", "delete"}
ACTION_CONSTRAINT ChosenStatements
INVARIANTS
  TypeOK
  IInv
  EveryRowIsFound
  ChainIsTheLeaves
  ParentPointers
  Balanced
PROPERTIES
  ImplementsTable
  ErrorsCutOff
  StatementsFinish
CHECK_DEADLOCK FALSE
