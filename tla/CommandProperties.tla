------------------------- MODULE CommandProperties -------------------------
(***************************************************************************)
(* What a line of input may do, to the memory of the process, to the rows  *)
(* of a table and to the time of the user.                                 *)
(***************************************************************************)
EXTENDS Command

\* No list of a tree outgrows its array (MAX_TABLE_COLUMNS in src/include/ast.h).
ListsFit ==
  node # NoNode =>
    /\ Len(node.columns) <= MaxColumns
    /\ Len(node.values) <= MaxColumns
    /\ Len(node.definitions) <= MaxColumns

\* Type correctness: the lists of a tree fit, and every stored value has the width
\* of its column.
CommandTypeOK ==
  /\ pc \in Places \cup {"prompt", "tokens", "schema", "execute", "planned", "updating",
                         "deleting", "dead", "damaged"}
  /\ mode \in DOMAIN Supported /\ stuck \in BOOLEAN
  /\ node # NoNode =>
       /\ node.type \in Statements
       /\ node.columns \in Seq({"COLUMN"}) /\ node.values \in Seq(Kinds)
       /\ node.where = Unset \/ (node.where \in Seq(Kinds) /\ Len(node.where) <= 2)
  /\ ListsFit
  /\ def.type \in ColumnTypes \cup {"NONE"} /\ left \in Kinds \cup {NoOperand}
  /\ DOMAIN rows \subseteq Ints /\ todo \subseteq DOMAIN rows
  /\ \A k \in DOMAIN rows : IsRow(rows[k])
  /\ reply \in {"none", "done", "failed"} /\ live \in Nat

-----------------------------------------------------------------------------
\* What is allocated and not yet in the tree.
InHand ==
  (IF pc \in {"create_type", "create_primary", "create_key", "create_next"} THEN 1 ELSE 0)
    + (IF pc \in {"equal", "right"} THEN 1 ELSE 0)

\* Every AstNode and PlanNode that is allocated is in the tree, in the plan or in
\* hand; so when the prompt is back, all are freed: no return of a parse function,
\* build_plan's scan that is not used included, leaks one or frees one twice, but
\* for an UPDATE that has followed an unset WHERE and damaged the heap.
AllocationsAreOwned == pc # "damaged" => live = Size(node) + Len(plan) + InHand

\* In an UPDATE whose WHERE is not parsed yet.
BeforeWhere ==
  /\ node.type = "UPDATE"
  /\ pc \in {"update_table", "set", "update_column", "update_equal", "update_value"}

\* It is only an UPDATE that ends in an error before its WHERE is parsed
\* (parse_update_statement leaves the field as malloc does, and each of its error
\* returns calls ast_destroy) whose ast_destroy may kill the process or free what
\* is not the tree's: no other error return frees a tree with a WHERE that is unset.
UnsetIsAnUpdates ==
  [][pc' \in {"dead", "damaged"} /\ pc \in Places => BeforeWhere]_commandVars

\* What the execution takes for granted of a tree: as many values as columns in
\* an UPDATE, and a WHERE that was set; in a CREATE one primary key, an INTEGER;
\* and never the field that parse_update_statement has not set.
TreesAreWhole ==
  pc = "execute" =>
    /\ node.where # Unset
    /\ node.type = "UPDATE" => Len(node.columns) = Len(node.values) /\ node.where # NoWhere
    /\ node.type = "CREATE" =>
         \E k \in DOMAIN node.definitions :
           /\ node.definitions[k] = [type |-> "INTEGER", primary |-> TRUE]
           /\ \A i \in DOMAIN node.definitions \ {k} : ~ node.definitions[i].primary

\* A character that starts no token, as the minus sign, gives the integer 0 (the
\* end of get_next_token); it never becomes a value that is stored, only the last
\* operand of a WHERE.
UnknownsStayInWhere ==
  pc \in {"execute", "planned", "updating", "deleting"} =>
    /\ "UNKNOWN" \notin ToSet(node.values)
    /\ \A i \in DOMAIN node.where : node.where[i] = "UNKNOWN" => i = Len(node.where)

-----------------------------------------------------------------------------
\* The row that was in a cell when the statement began, after it.
IsUpdated(k, new) ==
  /\ DOMAIN new = DOMAIN before
  /\ \E hit \in Hits(before[k], stmt.where) :
       new[k] = IF hit THEN Updated(before[k], stmt.sets) ELSE before[k]

IsDeleted(k, new) ==
  /\ DOMAIN new \subseteq DOMAIN before
  /\ \E hit \in Hits(before[k], stmt.where) :
       IF hit THEN k \notin DOMAIN new ELSE k \in DOMAIN new /\ new[k] = before[k]

EndsWhole ==
  IF reply' = "failed" THEN rows' = before
  ELSE \A k \in DOMAIN before :
         IF pc = "updating" THEN IsUpdated(k, rows') ELSE IsDeleted(k, rows')

\* update_command and delete_command change the rows one by one while they go
\* through them, and an UPDATE may change what its own WHERE looks at: a statement
\* that ends well has done it to exactly the rows that its WHERE selected when it
\* began, and one that fails (a text that is too long) to none.
StatementsAreWhole ==
  [][pc' = "prompt" /\ pc \in {"updating", "deleting"} => EndsWhole]_commandVars

\* The row in each cell has the key of the cell as its primary key.
KeysAgree == \A k \in DOMAIN rows : rows[k][Primary] = <<k>>

SetsKey == pc = "updating" /\ \E i \in DOMAIN stmt.sets : stmt.sets[i].column = Primary

\* A lookup goes by the key of the cell (pk_lookup_next), a filter and what is
\* printed by the row: they agree until an UPDATE assigns to the primary key, which
\* update_command does not refuse and which leaves the key of the cell as it was.
KeysAgreeUntilUpdated == [][KeysAgree /\ ~ SetsKey => KeysAgree']_commandVars

\* Every line comes to an end, or the process or its heap does; but .tokens and .schema do
\* not, of a line with a character that starts no token.
LinesEnd ==
  pc # "prompt" ~> pc \in {"prompt", "dead", "damaged"} \/ (pc \in {"tokens", "schema"} /\ stuck)

-----------------------------------------------------------------------------
\* The last value that an UPDATE assigns to a column.
LastSet(sets, c) ==
  LET of == {i \in DOMAIN sets : sets[i].column = c}
  IN  IF of = {} THEN {} ELSE {sets[Max(of)].value}

TextsReadBack ==
  \A c \in {d \in DOMAIN Columns : Columns[d] = "TEXT"} :
    \A k \in {i \in DOMAIN rows : rows'[i] # rows[i]} :
      \A value \in LastSet(stmt.sets, c) : String(rows'[k][c]) = value

\* After an UPDATE has changed a row, its texts are those that were assigned
\* (README.md: UPDATE is "Done"; src/src/table.c:48 pads every text with zeros).
\* Violated: update_command copies the new text over the old one and leaves what
\* is behind it, so a text that replaces a longer one keeps the rest of it.
UpdatesReadBack ==
  [][pc = "updating" /\ rows' # rows => TextsReadBack]_commandVars
=============================================================================
