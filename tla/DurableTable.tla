---------------------------- MODULE DurableTable ----------------------------
(***************************************************************************)
(* What miniDB promises the user of one table, with no tree and no pages:  *)
(* statements act at once on a set of rows with distinct primary keys, and *)
(* a clean restart keeps them ("Data persists to disk and survives a       *)
(* restart", src/README.md).  A crash takes the table back to what it was  *)
(* when the database was opened.                                           *)
(***************************************************************************)
EXTENDS Integers

CONSTANTS Keys, Rows

VARIABLES
  table,   \* the rows, as cells [key, row]
  saved,   \* the rows the file held when it was opened
  stmt,    \* the statement at work
  result   \* the reply to the last one

vars == <<table, saved, stmt, result>>

Cell == [key : Keys, row : Rows]
NoStmt == [op |-> "none"]
Reply(code, rows) == [code |-> code, rows |-> rows]

Wheres ==
  {{c \in Cell : c.key = k} : k \in Keys} \cup {{c \in Cell : c.row = r} : r \in Rows} \cup {Cell}
Statements ==
  [op : {"insert"}, key : Keys, row : Rows]
    \cup [op : {"select"}, key : Keys]
    \cup [op : {"delete"}, where : Wheres]
    \cup [op : {"update"}, where : Wheres, row : Rows]

Init ==
  /\ table = {} /\ saved = {}
  /\ stmt = NoStmt
  /\ result = Reply("none", {})

Begin ==
  /\ stmt = NoStmt
  /\ stmt' \in Statements
  /\ result' = Reply("none", {})
  /\ UNCHANGED <<table, saved>>

Finish(code, rows) == stmt' = NoStmt /\ result' = Reply(code, rows)

Present(key) == \E c \in table : c.key = key

Insert ==
  /\ stmt.op = "insert"
  /\ ~ Present(stmt.key)
  /\ table' = table \cup {[key |-> stmt.key, row |-> stmt.row]}
  /\ Finish("success", {})
  /\ UNCHANGED saved

InsertDuplicate ==
  /\ stmt.op = "insert"
  /\ Present(stmt.key)
  /\ Finish("duplicate", {})
  /\ UNCHANGED <<table, saved>>

\* "Error: cannot insert" says that no page was left.  No row is promised to be found
\* then (ErrorsCutOff in module BTreeProperties has which are not); what is found is
\* as it was, or is the row of the INSERT, which may have been stored all the same.
InsertError ==
  /\ stmt.op = "insert"
  /\ ~ Present(stmt.key)
  /\ table' \in SUBSET (table \cup {[key |-> stmt.key, row |-> stmt.row]})
  /\ Finish("error", {})
  /\ UNCHANGED saved

Select ==
  /\ stmt.op = "select"
  /\ Finish("success", {c.row : c \in {d \in table : d.key = stmt.key}})
  /\ UNCHANGED <<table, saved>>

Delete ==
  /\ stmt.op = "delete"
  /\ table' = table \ stmt.where
  /\ Finish("success", {})
  /\ UNCHANGED saved

\* The cells of a table after an UPDATE.
Updated(cells, where, row) ==
  {IF c \in where THEN [c EXCEPT !.row = row] ELSE c : c \in cells}

Update ==
  /\ stmt.op = "update"
  /\ table' = Updated(table, stmt.where, stmt.row)
  /\ Finish("success", {})
  /\ UNCHANGED saved

Restart ==
  /\ stmt = NoStmt
  /\ saved' = table
  /\ UNCHANGED <<table, stmt, result>>

Crash ==
  /\ table' = saved
  /\ Finish("none", {})
  /\ UNCHANGED saved

Next ==
  \/ Begin \/ Insert \/ InsertDuplicate \/ InsertError \/ Select \/ Delete \/ Update
  \/ Restart \/ Crash

Spec == Init /\ [][Next]_vars
=============================================================================
