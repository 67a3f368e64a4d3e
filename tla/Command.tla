------------------------------- MODULE Command -------------------------------
(***************************************************************************)
(* A line of input from the prompt to its effect on a table:               *)
(* process_command and do_meta_command (src/src/command.c) over the parser *)
(* (module Parser), the planner (build_plan in src/src/ast.c) and the      *)
(* execution of statements (src/src/table.c, module Row).                  *)
(*                                                                         *)
(* UPDATE and DELETE go through the rows one by one, in the order of the   *)
(* keys of their cells; how rows are kept in a tree is in module BTree,    *)
(* and what CREATE TABLE does to the catalog in module Catalog.  A session *)
(* begins with an empty table.  When the process dies nothing has been     *)
(* saved, and the next session begins like the first.  What a process with *)
(* a damaged heap does until it ends is not followed.                      *)
(***************************************************************************)
EXTENDS Parser, Row, FiniteSetsExt, Functions

VARIABLES
  mode,    \* what is done with the tree: "run", or the .ast and .plan commands
  rows,    \* the rows, by the key of their cell
  stmt,    \* the statement at work, as it was resolved
  todo,    \* the cells that UPDATE or DELETE has yet to come to
  plan,    \* the chain of PlanNodes, from the root
  before,  \* history: the rows when the statement began
  reply    \* history: how the last statement ended

execVars == <<mode, rows, stmt, todo, plan, before, reply>>
commandVars == <<parserVars, execVars>>

NoStmt == [sets |-> <<>>, where |-> Everything]
Stmt(sets, where) == [sets |-> sets, where |-> where]
NoRows == <<>>

CommandInit ==
  /\ ParserInit
  /\ mode = "run" /\ rows = NoRows /\ stmt = NoStmt /\ todo = {} /\ plan = <<>>
  /\ before = NoRows /\ reply = "none"

-----------------------------------------------------------------------------
\* The statements that each command takes.
Supported ==
  [run |-> Statements, ast |-> {"SELECT", "CREATE", "INSERT"}, plan |-> {"SELECT", "INSERT"}]

ReadStatement ==
  /\ \E m \in DOMAIN Supported : \E type \in Supported[m] :
       BeginStatement(type) /\ mode' = m
  /\ reply' = "none"
  /\ UNCHANGED <<rows, stmt, todo, plan, before>>

\* .tokens and .schema.
ReadDebug ==
  /\ pc = "prompt"
  /\ pc' \in {"tokens", "schema"}
  /\ reply' = "none"
  /\ UNCHANGED <<node, def, left, stuck, live, mode, rows, stmt, todo, plan, before>>

\* debug_tokens goes on to the end of the line, print_table_schema to a name.
DebugTokens ==
  /\ pc \in {"tokens", "schema"}
  /\ \E t \in Upcoming :
       IF t = "EOF" \/ (t = "IDENTIFIER" /\ pc = "schema")
       THEN pc' = "prompt" /\ UNCHANGED stuck
       ELSE Goto(t, pc)
  /\ UNCHANGED <<node, def, left, live, execVars>>

ParseOn ==
  /\ Parse
  /\ mode' = IF pc' = "prompt" THEN "run" ELSE mode
  /\ UNCHANGED <<rows, stmt, todo, plan, before, reply>>

\* The process is gone.
Dies ==
  /\ pc' = "dead" /\ node' = NoNode /\ live' = 0
  /\ mode' = "run" /\ stmt' = NoStmt /\ todo' = {} /\ plan' = <<>> /\ before' = NoRows
  /\ UNCHANGED <<def, left, stuck, rows, reply>>

\* It is started again.
StartAgain ==
  /\ pc \in {"dead", "damaged"}
  /\ pc' = "prompt"
  /\ live' = 0 /\ mode' = "run" /\ rows' = NoRows /\ reply' = "none"
  /\ UNCHANGED <<node, def, left, stuck, stmt, todo, plan, before>>

-----------------------------------------------------------------------------
\* The end of a statement: plan_destroy and ast_destroy.
End(code) ==
  /\ pc' = "prompt" /\ node' = NoNode
  /\ live' = live - Size(node) - Len(plan)
  /\ mode' = "run" /\ stmt' = NoStmt /\ todo' = {} /\ plan' = <<>> /\ before' = NoRows
  /\ reply' = code
  /\ UNCHANGED <<def, left, stuck>>

Executing(type) == pc = "execute" /\ mode = "run" /\ node.type = type

\* .ast prints the tree.
PrintTree == pc = "execute" /\ mode = "ast" /\ End("done") /\ UNCHANGED rows

NoTable ==
  /\ pc = "execute" /\ mode # "ast" /\ node.type # "CREATE"
  /\ End("failed")
  /\ UNCHANGED rows

Create == Executing("CREATE") /\ End("done") /\ UNCHANGED rows

-----------------------------------------------------------------------------
InsertFits ==
  /\ Len(node.values) = Len(Columns)
  /\ \A c \in DOMAIN Columns : Fits(node.values[c], Columns[c])

\* insert_command: the number of values or a type is wrong.
InsertRefused ==
  /\ Executing("INSERT") /\ ~ InsertFits
  /\ End("failed")
  /\ UNCHANGED rows

\* What the values of an INSERT may be.
InsertSets ==
  {sets \in [DOMAIN Columns -> UNION {Assignments(node.values[c]) : c \in DOMAIN Columns}] :
     \A c \in DOMAIN Columns : sets[c].column = c /\ sets[c] \in Assignments(node.values[c])}

\* A key that is there already, or a text that is too long.
InsertFails(sets) ==
  sets[Primary].value[1] \in DOMAIN rows \/ \E c \in DOMAIN Columns : TooLong(sets[c])

InsertFailed ==
  /\ Executing("INSERT") /\ InsertFits
  /\ \E sets \in InsertSets : InsertFails(sets)
  /\ End("failed")
  /\ UNCHANGED rows

\* The rows with one more.
Stored(key, row) == [k \in DOMAIN rows \cup {key} |-> IF k = key THEN row ELSE rows[k]]

\* Mutant: the primary key is stored as the key of the cell only.
InsertRowWithoutKey ==
  /\ Executing("INSERT") /\ InsertFits
  /\ \E sets \in InsertSets :
       /\ ~ InsertFails(sets)
       /\ rows' = Stored(sets[Primary].value[1], Updated(ZeroRow, SubSeq(sets, 1, Primary - 1)))
  /\ End("done")

\* The values are copied into a row of zeros.
InsertRow ==
  /\ Executing("INSERT") /\ InsertFits
  /\ \E sets \in InsertSets :
       /\ ~ InsertFails(sets)
       /\ rows' = Stored(sets[Primary].value[1], Updated(ZeroRow, sets))
  /\ End("done")

-----------------------------------------------------------------------------
\* UPDATE and DELETE begin their way through the leaves.
Begin(place, sets) ==
  /\ \E where \in Conditions(node.where) : stmt' = Stmt(sets, where)
  /\ pc' = place /\ todo' = DOMAIN rows /\ before' = rows
  /\ UNCHANGED <<node, def, left, stuck, live, mode, rows, plan, reply>>

\* update_command: some column is not found, or has another type.
UpdateRefused ==
  /\ Executing("UPDATE") /\ node.columns # <<>>
  /\ End("failed")
  /\ UNCHANGED rows

BeginUpdate ==
  /\ Executing("UPDATE")
  /\ \E sets \in [DOMAIN node.values -> UNION {Assignments(k) : k \in Kinds}] :
       /\ \A i \in DOMAIN sets : sets[i] \in Assignments(node.values[i])
       /\ Begin("updating", sets)

\* The row that UPDATE or DELETE has come to.
Cell == Min(todo)

UpdateRow ==
  /\ pc = "updating" /\ todo # {}
  /\ \E hit \in Hits(rows[Cell], stmt.where) :
       /\ hit => \A i \in DOMAIN stmt.sets : ~ TooLong(stmt.sets[i])
       /\ rows' = IF hit THEN [rows EXCEPT ![Cell] = Updated(@, stmt.sets)] ELSE rows
  /\ todo' = todo \ {Cell}
  /\ UNCHANGED <<parserVars, mode, stmt, plan, before, reply>>

\* Mutant: the row is written as far as it was assigned.
UpdateRowTooLongWritten ==
  /\ pc = "updating" /\ todo # {}
  /\ TRUE \in Hits(rows[Cell], stmt.where)
  /\ \E i \in DOMAIN stmt.sets :
       /\ TooLong(stmt.sets[i])
       /\ rows' = [rows EXCEPT ![Cell] = Updated(@, SubSeq(stmt.sets, 1, i - 1))]
  /\ End("failed")

\* A text that is too long: the row is not written, and the statement ends.
UpdateRowTooLong ==
  /\ pc = "updating" /\ todo # {}
  /\ TRUE \in Hits(rows[Cell], stmt.where)
  /\ \E i \in DOMAIN stmt.sets : TooLong(stmt.sets[i])
  /\ End("failed")
  /\ UNCHANGED rows

BeginDelete == Executing("DELETE") /\ Begin("deleting", <<>>)

DeleteRow ==
  /\ pc = "deleting" /\ todo # {}
  /\ \E hit \in Hits(rows[Cell], stmt.where) :
       rows' = IF hit THEN Restrict(rows, DOMAIN rows \ {Cell}) ELSE rows
  /\ todo' = todo \ {Cell}
  /\ UNCHANGED <<parserVars, mode, stmt, plan, before, reply>>

LastRow == pc \in {"updating", "deleting"} /\ todo = {} /\ End("done") /\ UNCHANGED rows

-----------------------------------------------------------------------------
\* is_primary_key of the left side.
IsLookup(where) == where.kind = "equal" /\ where.column = Primary

\* The chain of PlanNodes that build_plan leaves.
PlanOf(where) ==
  IF node.type = "INSERT" THEN <<"INSERT">>
  ELSE (IF node.columns = <<>> THEN <<>> ELSE <<"PROJECTION">>)
       \o (CASE node.where = NoWhere -> <<"TABLE_SCAN">>
             [] IsLookup(where)      -> <<"PK_LOOKUP">>
             [] OTHER                -> <<"FILTER", "TABLE_SCAN">>)

\* The PlanNodes that process_command and build_plan allocate, less the table
\* scan, which is freed if it is not used.
PlanNodes(where) ==
  IF node.type = "INSERT" THEN 1
  ELSE (IF node.columns # <<>> /\ node.where # NoWhere THEN 3 ELSE 2)
       - (IF IsLookup(where) \/ (node.columns = <<>> /\ node.where = NoWhere) THEN 1 ELSE 0)

BuildPlan ==
  /\ Executing("SELECT") \/ (pc = "execute" /\ mode = "plan")
  /\ \E where \in Conditions(node.where) :
       /\ stmt' = Stmt(<<>>, where)
       /\ plan' = PlanOf(where)
       /\ live' = live + PlanNodes(where)
  /\ pc' = "planned"
  /\ UNCHANGED <<node, def, left, stuck, mode, rows, todo, before, reply>>

\* validate_columns may miss the column of the WHERE or one that is to be shown,
\* and it must if the WHERE has none of the table.
MayMissColumn == stmt.where \in {Nothing, Undefined} \/ node.columns # <<>>
MustMissColumn == stmt.where = Nothing

\* .plan prints the plan; SELECT answers, unless a column does not exist.  The
\* cursors are allocated and freed here.
Answer ==
  /\ pc = "planned"
  /\ \/ (mode = "run" => ~ MustMissColumn) /\ End("done")
     \/ mode = "run" /\ MayMissColumn /\ End("failed")
  /\ UNCHANGED rows

\* A WHERE that is not what it is taken for may be any pointer.
FollowUndefined ==
  /\ \/ pc = "planned"
     \/ pc \in {"updating", "deleting"} /\ todo # {}
  /\ stmt.where = Undefined
  /\ Dies

Execute ==
  \/ PrintTree \/ NoTable \/ Create
  \/ InsertRefused \/ InsertFailed \/ InsertRow
  \/ UpdateRefused \/ BeginUpdate \/ UpdateRow \/ UpdateRowTooLong
  \/ BeginDelete \/ DeleteRow \/ LastRow
  \/ BuildPlan \/ Answer \/ FollowUndefined

\* A line, once it is read, is worked on to its end: there is one thread and it
\* waits for nothing.
Work == ParseOn \/ DebugTokens \/ Execute

CommandNext == ReadStatement \/ ReadDebug \/ Work \/ StartAgain

CommandSpec == CommandInit /\ [][CommandNext]_commandVars /\ WF_commandVars(Work)
=============================================================================
