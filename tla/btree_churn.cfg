\* Every statement in every order over a few keys, with restarts and crashes.
\* InternalMax is never reached: the separators are distinct keys.
SPECIFICATION Spec
CONSTANTS
  Keys = {1, 2, 3, 4}
  Rows = {r1, r2}
  LeafMax = 2
  InternalMax = 4
  MaxPages = 8
  MaxOthers = 0
  MaxSessions = 2
  Headroom = 2
  Crowd = 0
  Refill = TRUE
  Window = 4
  Operations = {"insert", "select", "delete", "update"}
ACTION_CONSTRAINT ChosenStatements
INVARIANTS
  IInv
  EveryRowIsFound
  ScanIsSorted
  ChangesAreMarked
PROPERTIES
  ImplementsTable
  UsesPageFile
SYMMETRY RowSymmetry
