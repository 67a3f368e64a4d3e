------------------------------- MODULE MCScan -------------------------------
(***************************************************************************)
(* Instances of Scan for TLC.                                              *)
(***************************************************************************)
EXTENDS Scan

CONSTANT Operations  \* bound: the statements in use

\* Odd keys come with one row and even ones with the other.
ChosenStatements ==
  stmt' # NoStmt =>
    /\ stmt'.op \in Operations
    /\ stmt'.op = "insert" => stmt'.row = stmt'.key % 2
=============================================================================
