\* Restarts around a split of an internal node.
SPECIFICATION Spec
CONSTANTS
  Keys = {1, 2, 3, 4, 5, 6, 7}
  Rows = {r1}
  LeafMax = 2
  InternalMax = 2
  MaxPages = 16
  MaxOthers = 0
  MaxSessions = 3
  Headroom = 5
  Crowd = 0
  Refill = TRUE
  Window = 7
  Operations = {"insert"}
ACTION_CONSTRAINT ChosenStatements
INVARIANT EveryRowIsFound
