------------------------------- MODULE Parser -------------------------------
(***************************************************************************)
(* From a line of SQL to a statement's tree: get_next_token                *)
(* (src/src/lexer.c), the five parse functions (src/src/parser.c) and the  *)
(* mallocs and frees of the tree (ast_destroy in src/src/ast.c).           *)
(*                                                                         *)
(* The parser looks at the types of tokens only and never goes back, so a  *)
(* token is its type, and is chosen when it is looked at.  What it spells  *)
(* is chosen when the statement is executed (module Command).  A character *)
(* that starts no token gives an integer token of no digits, and the lexer *)
(* stays where it is: every later token of the line is the same.           *)
(***************************************************************************)
EXTENDS Integers, Sequences, FiniteSets

CONSTANT MaxColumns   \* MAX_TABLE_COLUMNS

ASSUME MaxColumnsAssumption == MaxColumns \in Nat \ {0}

VARIABLES
  pc,     \* where in the parse functions the next token is looked at
  node,   \* the statement's AstNode
  def,    \* parse_create_statement's column_def
  left,   \* parse_expression's left operand
  stuck,  \* the lexer has come to a character that starts no token
  live    \* the AstNodes and PlanNodes that are allocated

parserVars == <<pc, node, def, left, stuck, live>>

\* EXPR_*, by the token that makes one; UNKNOWN is the integer of no digits, of
\* value 0, and BOOLEAN stands for TRUE and FALSE.
Kind ==
  [INTEGER |-> "INT", UNKNOWN |-> "UNKNOWN", STRING |-> "STRING",
   IDENTIFIER |-> "COLUMN", BOOLEAN |-> "BOOLEAN"]
Kinds == {Kind[t] : t \in DOMAIN Kind}

ColumnType == [TYPE_INTEGER |-> "INTEGER", TYPE_TEXT |-> "TEXT", TYPE_BOOLEAN |-> "BOOLEAN"]
ColumnTypes == {ColumnType[t] : t \in DOMAIN ColumnType}

\* OTHER: ';', or a string without its closing quote.
Tokens ==
  DOMAIN Kind \cup DOMAIN ColumnType
    \cup {"SELECT", "INSERT", "UPDATE", "DELETE", "CREATE", "FROM", "INTO", "TABLE", "SET",
          "VALUES", "WHERE", "PRIMARY", "KEY", "LPAREN", "RPAREN", "COMMA", "EQUAL", "STAR",
          "EOF", "OTHER"}

\* The token at which the parser looks next.
Upcoming == IF stuck THEN {"UNKNOWN"} ELSE Tokens

\* A WHERE: none, one operand, or the two sides of '='; or, in the node of an
\* UPDATE that has not come that far, what malloc left there.
NoWhere == <<>>
Unset == <<"UNSET">>

NoNode == [type |-> "NONE"]

\* Mutant: parse_delete_statement leaves its WHERE as malloc does.
BlankDeleteUnset(type) ==
  [type |-> type, star |-> FALSE, columns |-> <<>>, values |-> <<>>, definitions |-> <<>>,
   where |-> IF type \in {"UPDATE", "DELETE"} THEN Unset ELSE NoWhere]

Blank(type) ==
  [type |-> type, star |-> FALSE, columns |-> <<>>, values |-> <<>>, definitions |-> <<>>,
   where |-> IF type = "UPDATE" THEN Unset ELSE NoWhere]

NoDefinition == [type |-> "NONE", primary |-> FALSE]
NoOperand == "NONE"

WhereSize(where) == IF where \in {NoWhere, Unset} THEN 0 ELSE 2 * Len(where) - 1

\* The nodes that ast_destroy frees.
Size(n) ==
  IF n = NoNode THEN 0
  ELSE 1 + Len(n.columns) + Len(n.values) + Len(n.definitions) + WhereSize(n.where)

-----------------------------------------------------------------------------
\* The places where one token must follow, and where the parser is after it.
Required ==
  [into          |-> [token |-> "INTO",       next |-> "insert_table"],
   insert_table  |-> [token |-> "IDENTIFIER", next |-> "values"],
   values        |-> [token |-> "VALUES",     next |-> "insert_lparen"],
   insert_lparen |-> [token |-> "LPAREN",     next |-> "insert_value"],
   select_from   |-> [token |-> "FROM",       next |-> "table_name"],
   delete_from   |-> [token |-> "FROM",       next |-> "table_name"],
   table_name    |-> [token |-> "IDENTIFIER", next |-> "where"],
   update_table  |-> [token |-> "IDENTIFIER", next |-> "set"],
   set           |-> [token |-> "SET",        next |-> "update_column"],
   update_equal  |-> [token |-> "EQUAL",      next |-> "update_value"],
   table         |-> [token |-> "TABLE",      next |-> "create_table"],
   create_table  |-> [token |-> "IDENTIFIER", next |-> "create_lparen"],
   create_lparen |-> [token |-> "LPAREN",     next |-> "create_first"]]

FirstPlace ==
  [SELECT |-> "select_first", INSERT |-> "into", UPDATE |-> "update_table",
   DELETE |-> "delete_from", CREATE |-> "table"]

Statements == DOMAIN FirstPlace

Places ==
  DOMAIN Required
    \cup {"select_first", "select_column", "insert_value", "update_column", "update_value",
          "create_first", "create_name", "create_type", "create_primary", "create_key",
          "create_next", "where", "left", "equal", "right"}

\* The token is consumed, and the parser goes on.
Goto(t, place) == pc' = place /\ stuck' = (t = "UNKNOWN")
Skip(t, place) == Goto(t, place) /\ UNCHANGED <<node, def, left, live>>

\* The parse function returns the tree; the rest of the line is not read.
Return(n) ==
  /\ pc' = "execute" /\ node' = n
  /\ def' = NoDefinition /\ left' = NoOperand /\ stuck' = FALSE

\* parser_set_error, ast_destroy of the tree and free of what else is owned.  In
\* an UPDATE, ast_destroy follows the where field whether it is set or not.  If what
\* malloc left there is NULL, that goes well; if it is no pointer, the process dies;
\* and if it points to memory that is in use or was freed before, that is freed, and
\* the heap is damaged.
Fail(n, owned) ==
  /\ \/ pc' = "prompt"
     \/ n.where = Unset /\ pc' \in {"dead", "damaged"}
  /\ live' = live - Size(n) - owned
  /\ node' = NoNode /\ def' = NoDefinition /\ left' = NoOperand /\ stuck' = FALSE

-----------------------------------------------------------------------------
\* The first token of a line says which statement it is.
BeginStatement(type) ==
  /\ pc = "prompt"
  /\ pc' = FirstPlace[type] /\ node' = Blank(type) /\ live' = live + 1
  /\ UNCHANGED <<def, left, stuck>>

Require ==
  /\ pc \in DOMAIN Required
  /\ \E t \in Upcoming :
       IF t = Required[pc].token THEN Skip(t, Required[pc].next) ELSE Fail(node, 0)

\* parse_primary_expression, with the new node added to one of the lists.
AddColumn(t, place) ==
  /\ Goto(t, place)
  /\ node' = [node EXCEPT !.columns = Append(@, Kind[t])]
  /\ live' = live + 1
  /\ UNCHANGED <<def, left>>

AddValue(t, place) ==
  /\ Goto(t, place)
  /\ node' = [node EXCEPT !.values = Append(@, Kind[t])]
  /\ live' = live + 1
  /\ UNCHANGED <<def, left>>

\* parse_select_statement: '*' or a list of columns, in which commas do not count.
SelectColumn ==
  /\ pc \in {"select_first", "select_column"}
  /\ \E t \in Upcoming :
       CASE t = "STAR" /\ pc = "select_first" ->
              /\ Goto(t, "select_from")
              /\ node' = [node EXCEPT !.star = TRUE]
              /\ UNCHANGED <<def, left, live>>
         [] t = "FROM"  -> Skip(t, "table_name")
         [] t = "COMMA" -> Skip(t, "select_column")
         [] t = "IDENTIFIER" /\ Len(node.columns) < MaxColumns -> AddColumn(t, "select_column")
         [] OTHER -> Fail(node, 0)

\* Mutant: the list ends when it is full, and its parenthesis may be missing.
InsertValueUnclosed ==
  /\ pc = "insert_value"
  /\ \E t \in Upcoming :
       CASE t = "RPAREN" \/ Len(node.values) = MaxColumns -> Return(node) /\ UNCHANGED live
         [] t = "COMMA"          -> Skip(t, "insert_value")
         [] t \in DOMAIN Kind    -> AddValue(t, "insert_value")
         [] OTHER -> Fail(node, 0)

\* Mutant: values beyond the last column are read and dropped.
InsertValueDropped ==
  /\ pc = "insert_value"
  /\ \E t \in Upcoming :
       CASE t = "RPAREN" -> Return(node) /\ UNCHANGED live
         [] t = "COMMA"  -> Skip(t, "insert_value")
         [] t \in DOMAIN Kind -> IF Len(node.values) < MaxColumns
                                 THEN AddValue(t, "insert_value")
                                 ELSE Skip(t, "insert_value")
         [] OTHER -> Fail(node, 0)

\* parse_insert_statement: the list of values.
InsertValue ==
  /\ pc = "insert_value"
  /\ \E t \in Upcoming :
       CASE t = "RPAREN" -> Return(node) /\ UNCHANGED live
         [] t = "COMMA"  -> Skip(t, "insert_value")
         [] t \in DOMAIN Kind /\ Len(node.values) < MaxColumns -> AddValue(t, "insert_value")
         [] OTHER -> Fail(node, 0)

\* Mutant: WHERE may be left out, as in DELETE.
UpdateColumnNoWhere ==
  /\ pc = "update_column"
  /\ \E t \in Upcoming :
       CASE t = "WHERE" -> Skip(t, "left")
         [] t = "EOF"   -> Return(node) /\ UNCHANGED live
         [] t = "COMMA" -> Skip(t, "update_column")
         [] t = "IDENTIFIER" /\ Len(node.columns) < MaxColumns -> AddColumn(t, "update_equal")
         [] OTHER -> Fail(node, 0)

\* parse_update_statement: the list of assignments, which ends with WHERE.
UpdateColumn ==
  /\ pc = "update_column"
  /\ \E t \in Upcoming :
       CASE t = "WHERE" -> Skip(t, "left")
         [] t = "COMMA" -> Skip(t, "update_column")
         [] t = "IDENTIFIER" /\ Len(node.columns) < MaxColumns -> AddColumn(t, "update_equal")
         [] OTHER -> Fail(node, 0)

UpdateValue ==
  /\ pc = "update_value"
  /\ \E t \in Upcoming :
       IF t \in DOMAIN Kind THEN AddValue(t, "update_column") ELSE Fail(node, 0)

-----------------------------------------------------------------------------
\* parse_create_statement: a column's name, for which column_def is allocated, or
\* the end of a list without columns.
CreateName ==
  /\ pc \in {"create_first", "create_name"}
  /\ \E t \in Upcoming :
       IF t = "IDENTIFIER"
       THEN /\ Goto(t, "create_type")
            /\ live' = live + 1
            /\ UNCHANGED <<node, def, left>>
       ELSE Fail(node, 0)

CreateType ==
  /\ pc = "create_type"
  /\ \E t \in Upcoming :
       IF t \in DOMAIN ColumnType
       THEN /\ Goto(t, "create_primary")
            /\ def' = [def EXCEPT !.type = ColumnType[t]]
            /\ UNCHANGED <<node, left, live>>
       ELSE Fail(node, 1)

CreateKey ==
  /\ pc = "create_key"
  /\ \E t \in Upcoming :
       IF t = "KEY"
       THEN /\ Goto(t, "create_next")
            /\ def' = [def EXCEPT !.primary = TRUE]
            /\ UNCHANGED <<node, left, live>>
       ELSE Fail(node, 1)

\* The table has exactly one PRIMARY KEY, of type INTEGER.
HasOneKey(n) == \E k \in DOMAIN n.definitions :
  /\ n.definitions[k].primary /\ n.definitions[k].type = "INTEGER"
  /\ \A i \in DOMAIN n.definitions : n.definitions[i].primary => i = k

\* Mutant: one column too many gets into the tree.
EndColumnTooMany(t, n) ==
  CASE t = "RPAREN" /\ HasOneKey(n) -> Return(n) /\ UNCHANGED live
    [] t = "COMMA" /\ Len(n.definitions) <= MaxColumns ->
         /\ Goto(t, "create_name")
         /\ node' = n /\ def' = NoDefinition
         /\ UNCHANGED <<left, live>>
    [] OTHER -> Fail(n, 0)

\* What follows a column, which is in the tree by then: the end of the table, or
\* a comma and the next column.
EndColumn(t, n) ==
  CASE t = "RPAREN" /\ HasOneKey(n) -> Return(n) /\ UNCHANGED live
    [] t = "COMMA" /\ Len(n.definitions) < MaxColumns ->
         /\ Goto(t, "create_name")
         /\ node' = n /\ def' = NoDefinition
         /\ UNCHANGED <<left, live>>
    [] OTHER -> Fail(n, 0)

CreateNext ==
  /\ pc \in {"create_primary", "create_next"}
  /\ \E t \in Upcoming :
       IF t = "PRIMARY" /\ pc = "create_primary"
       THEN Skip(t, "create_key")
       ELSE EndColumn(t, [node EXCEPT !.definitions = Append(@, def)])

-----------------------------------------------------------------------------
\* After the table's name: WHERE, or whatever ends the statement.
Where ==
  /\ pc = "where"
  /\ \E t \in Upcoming :
       IF t = "WHERE" THEN Skip(t, "left") ELSE Return(node) /\ UNCHANGED live

\* The tree with its WHERE, which is none if parse_expression has failed.
With(where) == [node EXCEPT !.where = where]

\* parse_expression: the left operand, '=' or the end of the expression, and the
\* right operand with the node of the '='.
LeftOperand ==
  /\ pc = "left"
  /\ \E t \in Upcoming :
       IF t \in DOMAIN Kind
       THEN /\ Goto(t, "equal")
            /\ left' = Kind[t]
            /\ live' = live + 1
            /\ UNCHANGED <<node, def>>
       ELSE Fail(With(NoWhere), 0)

Equal ==
  /\ pc = "equal"
  /\ \E t \in Upcoming :
       IF t = "EQUAL" THEN Skip(t, "right") ELSE Return(With(<<left>>)) /\ UNCHANGED live

\* Mutant: the left operand is forgotten when there is no right one.
RightOperandForgets ==
  /\ pc = "right"
  /\ \E t \in Upcoming :
       IF t \in DOMAIN Kind
       THEN Return(With(<<left, Kind[t]>>)) /\ live' = live + 2
       ELSE Fail(With(NoWhere), 0)

RightOperand ==
  /\ pc = "right"
  /\ \E t \in Upcoming :
       IF t \in DOMAIN Kind
       THEN Return(With(<<left, Kind[t]>>)) /\ live' = live + 2
       ELSE Fail(With(NoWhere), 1)

Parse ==
  \/ Require \/ SelectColumn \/ InsertValue \/ UpdateColumn \/ UpdateValue
  \/ CreateName \/ CreateType \/ CreateKey \/ CreateNext
  \/ Where \/ LeftOperand \/ Equal \/ RightOperand

ParserInit ==
  /\ pc = "prompt" /\ node = NoNode /\ def = NoDefinition /\ left = NoOperand
  /\ stuck = FALSE /\ live = 0
=============================================================================
