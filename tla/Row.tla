--------------------------------- MODULE Row ---------------------------------
(***************************************************************************)
(* The rows of one table as bytes: what INSERT and UPDATE copy into them   *)
(* (serialize_row and the loops of insert_command and update_command in    *)
(* src/src/table.c) and which of them a WHERE selects (row_matches_where). *)
(*                                                                         *)
(* A value is a sequence: of one number for an INTEGER, of 0 or 1 for a    *)
(* BOOLEAN, of the TextMax bytes of its array for a TEXT.  A column is     *)
(* known by its index, so names are looked up when a statement is resolved.*)
(***************************************************************************)
EXTENDS Integers, Sequences, SequencesExt

CONSTANTS
  Columns,   \* the types of the table's columns
  Primary,   \* the index of its primary key
  TextMax,   \* VALUE_TEXT_MAX_LEN
  Ints,      \* the integers in use
  Texts      \* the string literals in use, sequences of bytes, some too long

ASSUME ColumnsAssumption ==
  /\ Columns \in Seq({"INTEGER", "TEXT", "BOOLEAN"})
  /\ Primary \in DOMAIN Columns /\ Columns[Primary] = "INTEGER"
ASSUME ValuesAssumption ==
  /\ TextMax \in Nat \ {0} /\ Ints \subseteq Int /\ 0 \in Ints
  /\ Texts \subseteq Seq(Nat \ {0})

Booleans == {<<0>>, <<1>>}
Width(type) == IF type = "TEXT" THEN TextMax ELSE 1
\* The layout that serialize_row writes and deserialize_row reads: every column has
\* its place and its width, and all bytes of a text are copied, used or not.
IsRow(row) ==
  /\ DOMAIN row = DOMAIN Columns
  /\ \A c \in DOMAIN Columns : DOMAIN row[c] = 1 .. Width(Columns[c])

ZeroRow == [c \in DOMAIN Columns |-> [i \in 1 .. Width(Columns[c]) |-> 0]]

\* What a literal of some kind may spell.
Literals(kind) ==
  CASE kind = "INT"     -> {<<i>> : i \in Ints}
    [] kind = "UNKNOWN" -> {<<0>>}
    [] kind = "STRING"  -> Texts
    [] kind = "BOOLEAN" -> Booleans
    [] kind = "COLUMN"  -> {}

\* The type checks of INSERT and UPDATE.
Fits(kind, type) ==
  <<kind, type>> \in {<<"INT", "INTEGER">>, <<"UNKNOWN", "INTEGER">>, <<"STRING", "TEXT">>,
                      <<"BOOLEAN", "BOOLEAN">>}

\* An assignment [column, value] to a row.
Assignments(kind) ==
  UNION {[column : {c}, value : Literals(kind)] :
           c \in {d \in DOMAIN Columns : Fits(kind, Columns[d])}}

TooLong(set) == Len(set.value) > Width(Columns[set.column])

\* memcpy of a value over the bytes that are there.
Copied(old, value) == [i \in DOMAIN old |-> IF i <= Len(value) THEN value[i] ELSE old[i]]

Assigned(row, set) == [row EXCEPT ![set.column] = Copied(@, set.value)]

\* A row after all the assignments of an UPDATE, in their order.
Updated(row, sets) == FoldLeft(Assigned, row, sets)

\* strlen and strnlen: a text ends before its first zero byte.
Terminated(text) == 0 \in ToSet(text)
String(text) ==
  IF Terminated(text) THEN SubSeq(text, 1, SelectInSeq(text, LAMBDA byte : byte = 0) - 1)
  ELSE text

-----------------------------------------------------------------------------
\* A WHERE as row_matches_where takes it: of every row, of none, by a column's
\* value, or read from memory that is not what the code takes it for.
Everything == [kind |-> "all"]
Nothing == [kind |-> "none"]
Undefined == [kind |-> "undefined"]
IsEqual(c, values) == [kind : {"equal"}, column : {c}, value : values]

\* An operand of some kind, read as a value of a column's type: a literal of
\* another kind has other bytes where an INTEGER or a BOOLEAN is read, and a
\* column's name is laid out like a string.
Operands(kind, type) ==
  CASE type = "INTEGER" -> IF Fits(kind, type) THEN Literals(kind) ELSE Literals("INT")
    [] type = "TEXT"    -> IF kind \in {"STRING", "COLUMN"} THEN Texts ELSE {}
    [] type = "BOOLEAN" -> IF Fits(kind, type) THEN Literals(kind) ELSE {<<byte>> : byte \in 0 .. 2}

\* The conditions that an expression of some shape may stand for.  Its left side
\* is taken for the name of a column, which a string passes for as well, and an
\* expression without '=' for two sides.
Conditions(where) ==
  CASE where = <<>> -> {Everything}
    [] Len(where) = 2 /\ where[1] \in {"COLUMN", "STRING"} ->
         {Nothing}
           \cup UNION {IsEqual(c, Operands(where[2], Columns[c])) : c \in DOMAIN Columns}
           \cup {Undefined : c \in {d \in DOMAIN Columns : Operands(where[2], Columns[d]) = {}}}
    [] OTHER -> {Undefined}

\* row_matches_where, as the set of its possible results.  A text that fills its
\* array has no zero byte: strlen goes on into the padding and the length.
Hits(row, where) ==
  CASE where.kind = "all"       -> {TRUE}
    [] where.kind = "none"      -> {FALSE}
    [] where.kind = "undefined" -> BOOLEAN
    [] where.kind = "equal"     ->
         LET stored == row[where.column]
         IN  IF Columns[where.column] # "TEXT" THEN {stored = where.value}
             ELSE IF Terminated(stored) THEN {String(stored) = where.value}
             ELSE IF IsPrefix(stored, where.value) THEN BOOLEAN ELSE {FALSE}
=============================================================================
