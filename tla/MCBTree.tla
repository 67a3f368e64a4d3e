------------------------------- MODULE MCBTree -------------------------------
(***************************************************************************)
(* Instances of BTree for TLC.                                             *)
(***************************************************************************)
EXTENDS BTreeProperties

CONSTANTS
  Window,     \* bound: an INSERT takes one of the Window least unused keys
  Crowd,      \* bound: the rows a table must have for a DELETE
  Refill,     \* bound: may an INSERT come after a DELETE that emptied a leaf?
  Operations  \* bound: the statements in use

RowSymmetry == Permutations(Rows)

Used == {c.key : c \in LeafCells(mem)}

HasEmptiedLeaf ==
  LET first == FirstLeaf[RootPage]
  IN  Later[first] # {} /\ \E p \in {first} \cup Later[first] : mem[p].cells = <<>>

\* Keys come nearly in order, and only the chosen statements are made.
ChosenStatements ==
  stmt' # NoStmt /\ stmt = NoStmt =>
    /\ stmt'.op \in Operations
    /\ stmt'.op = "insert" =>
         /\ Cardinality({k \in Keys \ Used : k < stmt'.key}) < Window
         /\ Refill \/ ~ HasEmptiedLeaf
    /\ stmt'.op = "delete" => Cardinality(Used) >= Crowd
=============================================================================
