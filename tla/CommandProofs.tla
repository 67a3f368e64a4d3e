---------------------------- MODULE CommandProofs ----------------------------
(***************************************************************************)
(* Proofs about module Command: what a line of input allocates, which      *)
(* trees it hands over to be executed, what becomes of the tokens the      *)
(* lexer does not know, and what statements do to rows, for tables of any  *)
(* number of columns and any rows.                                         *)
(***************************************************************************)
EXTENDS CommandProperties, RecursionProofs, SequenceTheorems

Definitions == [type : ColumnTypes, primary : BOOLEAN]
Trees ==
  [type : Statements, star : BOOLEAN, columns : Seq({"COLUMN"}), values : Seq(Kinds),
   definitions : Seq(Definitions), where : Seq(Kinds) \cup {Unset}]

\* Where the parser is while it has a tree of some type.
PlacesOf ==
  [SELECT |-> {"select_first", "select_column", "select_from", "table_name", "where", "left",
               "equal", "right"},
   INSERT |-> {"into", "insert_table", "values", "insert_lparen", "insert_value"},
   UPDATE |-> {"update_table", "set", "update_column", "update_equal", "update_value", "left",
               "equal", "right"},
   DELETE |-> {"delete_from", "table_name", "where", "left", "equal", "right"},
   CREATE |-> {"table", "create_table", "create_lparen", "create_first", "create_name",
               "create_type", "create_primary", "create_key", "create_next"}]

NoTreePlaces == {"prompt", "tokens", "schema", "dead", "damaged"}
WorkPlaces == {"execute", "planned", "updating", "deleting"}

\* A tree that is executed: its WHERE is set, an UPDATE has one and as many values
\* as columns, a CREATE one primary key, and no value is an unknown token.
Whole(n) ==
  /\ Len(n.columns) <= MaxColumns /\ Len(n.values) <= MaxColumns
  /\ Len(n.definitions) <= MaxColumns
  /\ n.where \in Seq(Kinds) /\ Len(n.where) <= 2
  /\ n.type = "UPDATE" => Len(n.columns) = Len(n.values) /\ n.where # NoWhere
  /\ n.type = "CREATE" => HasOneKey(n)
  /\ "UNKNOWN" \notin ToSet(n.values)
  /\ \A i \in DOMAIN n.where : n.where[i] = "UNKNOWN" => i = Len(n.where)

\* A tree that is being parsed: its WHERE is not set, the lists of an UPDATE are of
\* one length but between a column and its value, and an unknown token among the
\* values means that all tokens to come are unknown.
Growing(n) ==
  /\ Len(n.columns) <= MaxColumns /\ Len(n.values) <= MaxColumns
  /\ Len(n.definitions) < MaxColumns
  /\ n.where = IF n.type = "UPDATE" THEN Unset ELSE NoWhere
  /\ n.type = "UPDATE" =>
       Len(n.columns) =
         IF pc \in {"update_equal", "update_value"} THEN Len(n.values) + 1 ELSE Len(n.values)
  /\ "UNKNOWN" \in ToSet(n.values) => stuck /\ pc \in {"insert_value", "update_column"}

TreeInv ==
  IF node = NoNode THEN pc \in NoTreePlaces
  ELSE /\ node \in Trees
       /\ \/ pc \in WorkPlaces /\ Whole(node)
          \/ pc \in PlacesOf[node.type] /\ Growing(node)

HandInv ==
  /\ def \in [type : ColumnTypes \cup {"NONE"}, primary : BOOLEAN]
  /\ pc \in {"create_primary", "create_key", "create_next"} => def \in Definitions
  /\ left \in Kinds \cup {NoOperand}
  /\ pc \in {"equal", "right"} => left \in Kinds
  /\ left = "UNKNOWN" => pc = "equal" /\ stuck
  /\ stuck \in BOOLEAN
  /\ pc \in WorkPlaces \cup NoTreePlaces => def = NoDefinition /\ left = NoOperand
  /\ pc \in WorkPlaces \cup {"prompt", "dead", "damaged"} => ~ stuck

\* PLAN_*.
PlanTypes == {"INSERT", "PROJECTION", "TABLE_SCAN", "PK_LOOKUP", "FILTER"}

\* The count of the allocations, by what each free is meant to free.
Accounted == live = Size(node) + Len(plan) + InHand

\* The inductive invariant behind the theorems below.
LineInv ==
  /\ TreeInv
  /\ HandInv
  /\ plan = <<>> \/ pc = "planned"
  /\ plan \in Seq(PlanTypes)
  /\ live \in Int
  /\ Accounted

-----------------------------------------------------------------------------
LEMMA KindFacts ==
  /\ DOMAIN Kind = {"INTEGER", "UNKNOWN", "STRING", "IDENTIFIER", "BOOLEAN"}
  /\ Kinds = {"INT", "UNKNOWN", "STRING", "COLUMN", "BOOLEAN"}
  /\ \A t \in DOMAIN Kind : Kind[t] \in Kinds /\ (Kind[t] = "UNKNOWN" => t = "UNKNOWN")
  /\ Kind["IDENTIFIER"] = "COLUMN"
BY DEF Kind, Kinds

LEMMA StatementFacts ==
  /\ Statements = {"SELECT", "INSERT", "UPDATE", "DELETE", "CREATE"}
  /\ NoNode \notin Trees
  /\ \A n \in Trees : n # NoNode
<1>1. Statements = {"SELECT", "INSERT", "UPDATE", "DELETE", "CREATE"}
  BY DEF Statements, FirstPlace
<1>2. \A n \in Trees : n.type \in Statements
  BY DEF Trees
<1>3. NoNode.type = "NONE"
  BY DEF NoNode
<1> QED BY <1>1, <1>2, <1>3

\* The token after one that is no token is none either.
LEMMA UpcomingWhenStuck ==
  ASSUME NEW t \in Upcoming, stuck
  PROVE  t = "UNKNOWN"
BY DEF Upcoming

LEMMA ToSetAppend ==
  ASSUME NEW S, NEW s \in Seq(S), NEW e \in S
  PROVE  ToSet(Append(s, e)) \subseteq ToSet(s) \cup {e}
<1>1. DOMAIN s = 1 .. Len(s) /\ Len(s) \in Nat
  BY LenProperties
<1>2. DOMAIN Append(s, e) = 1 .. (Len(s) + 1)
  BY AppendProperties, LenProperties
<1>3. \A i \in 1 .. (Len(s) + 1) : Append(s, e)[i] \in ToSet(s) \cup {e}
  <2> TAKE i \in 1 .. (Len(s) + 1)
  <2>1. CASE i \in 1 .. Len(s)
    <3>1. Append(s, e)[i] = s[i]
      BY <2>1, AppendProperties
    <3> QED BY <3>1, <2>1, <1>1 DEF ToSet
  <2>2. CASE i = Len(s) + 1
    BY <2>2, AppendProperties
  <2> QED BY <1>1, <2>1, <2>2
<1> QED BY <1>2, <1>3 DEF ToSet

LEMMA Sums ==
  ASSUME NEW a \in Nat, NEW b \in Nat, NEW c \in Nat, NEW w \in Int
  PROVE  /\ 1 + a + b + c + w \in Int
         /\ 1 + (a + 1) + b + c + w = (1 + a + b + c + w) + 1
         /\ 1 + a + (b + 1) + c + w = (1 + a + b + c + w) + 1
         /\ 1 + a + b + (c + 1) + w = (1 + a + b + c + w) + 1
         /\ (1 + a + b + c + 0) + w = 1 + a + b + c + w
OBVIOUS

LEMMA TreeSize ==
  ASSUME NEW n \in Trees
  PROVE  Size(n) = 1 + Len(n.columns) + Len(n.values) + Len(n.definitions) + WhereSize(n.where)
BY StatementFacts DEF Size

LEMMA SizeIsInt ==
  ASSUME NEW n, n = NoNode \/ n \in Trees
  PROVE  Size(n) \in Int
<1>1. CASE n = NoNode
  BY <1>1 DEF Size
<1>2. CASE n \in Trees
  <2>1. /\ Len(n.columns) \in Nat /\ Len(n.values) \in Nat /\ Len(n.definitions) \in Nat
        /\ n.where = Unset \/ Len(n.where) \in Nat
    BY <1>2, LenProperties DEF Trees
  <2>2. WhereSize(n.where) \in Int
    BY <2>1 DEF WhereSize
  <2>3. Size(n) = 1 + Len(n.columns) + Len(n.values) + Len(n.definitions)
                  + WhereSize(n.where)
    BY <1>2, TreeSize
  <2>4. 1 + Len(n.columns) + Len(n.values) + Len(n.definitions) + WhereSize(n.where) \in Int
    BY <2>1, <2>2, Sums, Zenon
  <2> QED BY <2>3, <2>4, Zenon
<1> QED BY <1>1, <1>2

\* A tree with another element in one of its lists.
LEMMA WithColumn ==
  ASSUME NEW n \in Trees, NEW m, m = [n EXCEPT !.columns = Append(@, "COLUMN")]
  PROVE  /\ m \in Trees /\ Size(m) = Size(n) + 1
         /\ Len(m.columns) = Len(n.columns) + 1 /\ Len(n.columns) \in Nat
         /\ m.type = n.type /\ m.values = n.values /\ m.definitions = n.definitions
         /\ m.where = n.where
<1>1. /\ n.columns \in Seq({"COLUMN"}) /\ m.columns = Append(n.columns, "COLUMN")
      /\ m.type = n.type /\ m.values = n.values /\ m.definitions = n.definitions
      /\ m.where = n.where
  BY DEF Trees
<1>2. /\ m.columns \in Seq({"COLUMN"}) /\ Len(m.columns) = Len(n.columns) + 1
      /\ Len(n.columns) \in Nat
  BY <1>1, AppendProperties, LenProperties
<1>3. m \in Trees
  BY <1>2 DEF Trees
<1>4. Len(n.values) \in Nat /\ Len(n.definitions) \in Nat /\ Size(n) \in Int
  BY SizeIsInt, LenProperties DEF Trees
<1>5. WhereSize(n.where) \in Int
  BY LenProperties DEF Trees, WhereSize
<1>6. Size(m) = Size(n) + 1
  <2>1. Size(n) = 1 + Len(n.columns) + Len(n.values) + Len(n.definitions)
                  + WhereSize(n.where)
    BY TreeSize
  <2>2. Size(m) = 1 + Len(m.columns) + Len(m.values) + Len(m.definitions)
                  + WhereSize(m.where)
    BY <1>3, TreeSize
  <2>3. 1 + (Len(n.columns) + 1) + Len(n.values) + Len(n.definitions) + WhereSize(n.where)
          = (1 + Len(n.columns) + Len(n.values) + Len(n.definitions) + WhereSize(n.where)) + 1
    BY <1>2, <1>4, <1>5, Sums, Zenon
  <2>4. Size(m) = 1 + (Len(n.columns) + 1) + Len(n.values) + Len(n.definitions) + WhereSize(n.where)
    BY <2>2, <1>1, <1>2, Zenon
  <2> QED BY <2>1, <2>3, <2>4, Zenon
<1> QED BY <1>1, <1>2, <1>3, <1>6

ValueAdded(n, kind) == [n EXCEPT !.values = Append(@, kind)]

LEMMA WithValue ==
  ASSUME NEW n \in Trees, NEW kind \in Kinds, NEW m, m = ValueAdded(n, kind)
  PROVE  /\ m \in Trees /\ Size(m) = Size(n) + 1
         /\ Len(m.values) = Len(n.values) + 1 /\ Len(n.values) \in Nat
         /\ m.type = n.type /\ m.columns = n.columns /\ m.definitions = n.definitions
         /\ m.where = n.where
         /\ ToSet(m.values) \subseteq ToSet(n.values) \cup {kind}
<1>1. /\ n.values \in Seq(Kinds) /\ m.values = Append(n.values, kind)
      /\ m.type = n.type /\ m.columns = n.columns /\ m.definitions = n.definitions
      /\ m.where = n.where
  BY DEF Trees, ValueAdded
<1>2. /\ m.values \in Seq(Kinds) /\ Len(m.values) = Len(n.values) + 1
      /\ Len(n.values) \in Nat
  BY <1>1, AppendProperties, LenProperties
<1>3. m \in Trees
  BY <1>2 DEF Trees, ValueAdded
<1>4. Len(n.columns) \in Nat /\ Len(n.definitions) \in Nat /\ Size(n) \in Int
  BY SizeIsInt, LenProperties DEF Trees
<1>5. WhereSize(n.where) \in Int
  BY LenProperties DEF Trees, WhereSize
<1>6. Size(m) = Size(n) + 1
  <2>1. Size(n) = 1 + Len(n.columns) + Len(n.values) + Len(n.definitions)
                  + WhereSize(n.where)
    BY TreeSize
  <2>2. Size(m) = 1 + Len(m.columns) + Len(m.values) + Len(m.definitions)
                  + WhereSize(m.where)
    BY <1>3, TreeSize
  <2>3. 1 + Len(n.columns) + (Len(n.values) + 1) + Len(n.definitions) + WhereSize(n.where)
          = (1 + Len(n.columns) + Len(n.values) + Len(n.definitions) + WhereSize(n.where)) + 1
    BY <1>2, <1>4, <1>5, Sums, ZenonT(40)
  <2>4. Size(m) = 1 + Len(n.columns) + (Len(n.values) + 1) + Len(n.definitions) + WhereSize(n.where)
    BY <2>2, <1>1, <1>2, Zenon
  <2> QED BY <2>1, <2>3, <2>4, Zenon
<1>7. ToSet(m.values) \subseteq ToSet(n.values) \cup {kind}
  BY <1>1, ToSetAppend
<1> QED BY <1>1, <1>2, <1>3, <1>6, <1>7

DefinitionAdded(n, d) == [n EXCEPT !.definitions = Append(@, d)]

LEMMA WithDefinition ==
  ASSUME NEW n \in Trees, NEW d \in Definitions,
         NEW m, m = DefinitionAdded(n, d)
  PROVE  /\ m \in Trees /\ Size(m) = Size(n) + 1
         /\ Len(m.definitions) = Len(n.definitions) + 1 /\ Len(n.definitions) \in Nat
         /\ m.type = n.type /\ m.columns = n.columns /\ m.values = n.values
         /\ m.where = n.where
<1>1. /\ n.definitions \in Seq(Definitions) /\ m.definitions = Append(n.definitions, d)
      /\ m.type = n.type /\ m.columns = n.columns /\ m.values = n.values
      /\ m.where = n.where
  BY DEF Trees, DefinitionAdded
<1>2. /\ m.definitions \in Seq(Definitions) /\ Len(m.definitions) = Len(n.definitions) + 1
      /\ Len(n.definitions) \in Nat
  BY <1>1, AppendProperties, LenProperties
<1>3. m \in Trees
  BY <1>2 DEF Trees, DefinitionAdded
<1>4. Len(n.columns) \in Nat /\ Len(n.values) \in Nat /\ Size(n) \in Int
  BY SizeIsInt, LenProperties DEF Trees
<1>5. WhereSize(n.where) \in Int
  BY LenProperties DEF Trees, WhereSize
<1>6. Size(m) = Size(n) + 1
  <2>1. Size(n) = 1 + Len(n.columns) + Len(n.values) + Len(n.definitions)
                  + WhereSize(n.where)
    BY TreeSize
  <2>2. Size(m) = 1 + Len(m.columns) + Len(m.values) + Len(m.definitions)
                  + WhereSize(m.where)
    BY <1>3, TreeSize
  <2>3. 1 + Len(n.columns) + Len(n.values) + (Len(n.definitions) + 1) + WhereSize(n.where)
          = (1 + Len(n.columns) + Len(n.values) + Len(n.definitions) + WhereSize(n.where)) + 1
    BY <1>2, <1>4, <1>5, Sums, ZenonT(40)
  <2>4. Size(m) = 1 + Len(n.columns) + Len(n.values) + (Len(n.definitions) + 1) + WhereSize(n.where)
    BY <2>2, <1>1, <1>2, Zenon
  <2> QED BY <2>1, <2>3, <2>4, Zenon
<1> QED BY <1>1, <1>2, <1>3, <1>6

\* A tree with its WHERE, which it did not have.
LEMMA WithWhere ==
  ASSUME NEW n \in Trees, n.where \in {NoWhere, Unset}, NEW where \in Seq(Kinds),
         NEW m, m = [n EXCEPT !.where = where]
  PROVE  /\ m \in Trees /\ Size(m) = Size(n) + WhereSize(where)
         /\ m.type = n.type /\ m.columns = n.columns /\ m.values = n.values
         /\ m.definitions = n.definitions /\ m.where = where
<1>1. /\ m.type = n.type /\ m.columns = n.columns /\ m.values = n.values
      /\ m.definitions = n.definitions /\ m.where = where
  BY DEF Trees
<1>2. m \in Trees
  BY DEF Trees
<1>3. /\ Len(n.columns) \in Nat /\ Len(n.values) \in Nat /\ Len(n.definitions) \in Nat
  BY LenProperties DEF Trees
<1>4. Size(n) = 1 + Len(n.columns) + Len(n.values) + Len(n.definitions) + WhereSize(n.where)
  BY TreeSize
<1>5. Size(m) = 1 + Len(n.columns) + Len(n.values) + Len(n.definitions) + WhereSize(where)
  <2>1. Size(m) = 1 + Len(m.columns) + Len(m.values) + Len(m.definitions) + WhereSize(m.where)
    BY <1>2, TreeSize
  <2> QED BY <2>1, <1>1, Zenon
<1>6. WhereSize(n.where) = 0
  BY DEF WhereSize
<1>7. WhereSize(where) \in Int
  BY LenProperties DEF WhereSize
<1>8. (1 + Len(n.columns) + Len(n.values) + Len(n.definitions) + 0) + WhereSize(where)
        = 1 + Len(n.columns) + Len(n.values) + Len(n.definitions) + WhereSize(where)
  BY <1>3, <1>7, Sums, ZenonT(40)
<1>9. Size(m) = Size(n) + WhereSize(where)
  BY <1>4, <1>5, <1>6, <1>8, Zenon
<1> QED BY <1>1, <1>2, <1>9

LEMMA WhereSizes ==
  ASSUME NEW l \in Kinds, NEW r \in Kinds
  PROVE  /\ NoWhere \in Seq(Kinds) /\ WhereSize(NoWhere) = 0
         /\ <<l>> \in Seq(Kinds) /\ WhereSize(<<l>>) = 1
         /\ <<l, r>> \in Seq(Kinds) /\ WhereSize(<<l, r>>) = 3
<1>1. NoWhere \in Seq(Kinds) /\ <<l>> \in Seq(Kinds) /\ <<l, r>> \in Seq(Kinds)
  BY DEF NoWhere
<1>2. Len(<<l>>) = 1 /\ Len(<<l, r>>) = 2
  OBVIOUS
<1>3. <<l>> \notin {NoWhere, Unset} /\ <<l, r>> \notin {NoWhere, Unset}
  BY KindFacts DEF NoWhere, Unset
<1> QED BY <1>1, <1>2, <1>3 DEF WhereSize

-----------------------------------------------------------------------------
LEMMA ParsingFacts ==
  ASSUME LineInv, pc \in Places
  PROVE  /\ node \in Trees /\ pc \in PlacesOf[node.type] /\ Growing(node)
         /\ node.type \in Statements
         /\ plan = <<>> /\ live = Size(node) + InHand /\ Size(node) \in Int
<1>1. pc \notin WorkPlaces \cup NoTreePlaces
  BY DEF Places, Required, WorkPlaces, NoTreePlaces
<1>2. node \in Trees /\ pc \in PlacesOf[node.type] /\ Growing(node)
  BY <1>1 DEF LineInv, TreeInv
<1>3. node.type \in Statements
  BY <1>2 DEF Trees
<1>4. plan = <<>>
  BY <1>1 DEF LineInv, WorkPlaces
<1>5. Size(node) \in Int
  BY <1>2, SizeIsInt
<1>6. live = Size(node) + InHand
  BY <1>4, <1>5 DEF LineInv, Accounted, InHand
<1> QED BY <1>2, <1>3, <1>4, <1>5, <1>6

\* The type of the statement, by where the parser is.
LEMMA TypeOfPlace ==
  ASSUME NEW type \in Statements, NEW place \in PlacesOf[type]
  PROVE  /\ place \in {"select_first", "select_column", "select_from"} => type = "SELECT"
         /\ place \in {"into", "insert_table", "values", "insert_lparen", "insert_value"}
              => type = "INSERT"
         /\ place \in {"update_table", "set", "update_column", "update_equal", "update_value"}
              => type = "UPDATE"
         /\ place \in {"create_first", "create_name", "create_type", "create_primary",
                       "create_key", "create_next"} => type = "CREATE"
         /\ place = "where" => type \in {"SELECT", "DELETE"}
         /\ place \in {"left", "equal", "right"} => type \in {"SELECT", "UPDATE", "DELETE"}
BY StatementFacts DEF PlacesOf

\* The steps that end in the same way: an error, a tree, and the end of a statement.
LEMMA FailStep ==
  ASSUME LineInv, plan = <<>>, plan' = plan,
         NEW n \in Trees, NEW owned \in Nat, live = Size(n) + owned, Fail(n, owned)
  PROVE  LineInv'
<1>1. Size(n) \in Int
  BY SizeIsInt
<1>2. live' = 0
  BY <1>1 DEF Fail
<1>3. pc' \in {"prompt", "dead", "damaged"} /\ node' = NoNode
  BY DEF Fail
<1>4. TreeInv'
  BY <1>3 DEF TreeInv, NoTreePlaces
<1>5. HandInv'
  <2>1. def' = NoDefinition /\ left' = NoOperand /\ stuck' = FALSE
    BY DEF Fail
  <2> QED BY <2>1, <1>3, KindFacts DEF HandInv, NoDefinition, NoOperand
<1>6. Accounted'
  BY <1>2, <1>3 DEF Accounted, InHand, Size
<1> QED BY <1>2, <1>4, <1>5, <1>6 DEF LineInv

LEMMA ReturnStep ==
  ASSUME LineInv, plan = <<>>, plan' = plan,
         NEW n \in Trees, Whole(n), live' = Size(n), Return(n)
  PROVE  LineInv'
<1>1. pc' = "execute" /\ node' = n
  BY DEF Return
<1>2. TreeInv'
  <2>1. Whole(node)'
    BY <1>1 DEF Whole, HasOneKey
  <2> QED BY <1>1, <2>1, StatementFacts DEF TreeInv, WorkPlaces
<1>3. HandInv'
  <2>1. def' = NoDefinition /\ left' = NoOperand /\ stuck' = FALSE
    BY DEF Return
  <2> QED BY <2>1, <1>1, KindFacts DEF HandInv, NoDefinition, NoOperand
<1>4. Size(n) \in Int
  BY SizeIsInt
<1>5. Accounted'
  BY <1>1, <1>4 DEF Accounted, InHand
<1> QED BY <1>2, <1>3, <1>4, <1>5 DEF LineInv

LEMMA EndStep ==
  ASSUME LineInv, pc \in WorkPlaces, NEW code, End(code)
  PROVE  LineInv'
<1>1. Size(node) \in Int
  BY SizeIsInt DEF LineInv, TreeInv
<1>2. live = Size(node) + Len(plan) /\ Len(plan) \in Nat
  BY <1>1, LenProperties DEF LineInv, Accounted, InHand, WorkPlaces
<1>3. live' = 0
  BY <1>1, <1>2 DEF End
<1>4. pc' = "prompt" /\ node' = NoNode /\ plan' = <<>> /\ UNCHANGED <<def, left, stuck>>
  BY DEF End
<1>5. TreeInv'
  BY <1>4 DEF TreeInv, NoTreePlaces
<1>6. HandInv'
  BY <1>4 DEF LineInv, HandInv, WorkPlaces, NoTreePlaces
<1>7. Accounted'
  BY <1>3, <1>4 DEF Accounted, InHand, Size
<1> QED BY <1>3, <1>4, <1>5, <1>6, <1>7 DEF LineInv

\* The steps that go on with the tree, and those that do not touch it.
LEMMA MoveStep ==
  ASSUME LineInv, plan = <<>>, plan' = plan,
         node' \in Trees, pc' \in PlacesOf[node'.type], Growing(node)', HandInv',
         live' = Size(node') + InHand'
  PROVE  LineInv'
<1>1. node' # NoNode
  BY StatementFacts
<1>2. TreeInv'
  BY <1>1 DEF TreeInv
<1>3. Size(node') \in Int
  BY SizeIsInt
<1>4. Accounted' /\ live' \in Int
  BY <1>3 DEF Accounted, InHand
<1> QED BY <1>2, <1>4 DEF LineInv

\* Where there is something in hand.
HandPlaces == {"create_type", "create_primary", "create_key", "create_next", "equal", "right"}
OperandPlaces == {"equal", "right"}
DefinedPlaces == {"create_primary", "create_key", "create_next"}
ValuePlaces == {"update_equal", "update_value"}

LEMMA NotAtWork ==
  ASSUME NEW type \in Statements, NEW place \in PlacesOf[type]
  PROVE  place \notin WorkPlaces \cup NoTreePlaces
BY StatementFacts DEF PlacesOf, WorkPlaces, NoTreePlaces

LEMMA SkipStep ==
  ASSUME LineInv, pc \in Places, plan' = plan,
         NEW t \in Upcoming, t # "UNKNOWN", NEW place, place \in PlacesOf[node.type],
         Skip(t, place),
         place \in HandPlaces <=> pc \in HandPlaces,
         place \in OperandPlaces => pc \in OperandPlaces,
         place \in DefinedPlaces => pc \in DefinedPlaces,
         place \in ValuePlaces <=> pc \in ValuePlaces
  PROVE  LineInv'
<1>1. /\ node \in Trees /\ Growing(node) /\ node.type \in Statements
      /\ plan = <<>> /\ live = Size(node) + InHand /\ Size(node) \in Int
  BY ParsingFacts
<1>2. ~ stuck /\ stuck' = FALSE /\ pc' = place /\ UNCHANGED <<node, def, left, live>>
  BY UpcomingWhenStuck DEF Skip, Goto, LineInv, HandInv
<1>3. pc \in PlacesOf[node.type]
  BY ParsingFacts
<1>4. InHand' = InHand
  BY <1>1, <1>2, <1>3, StatementFacts DEF InHand, HandPlaces, PlacesOf
<1>5. Growing(node)'
  BY <1>1, <1>2 DEF Growing, ValuePlaces
<1>6. HandInv'
  <2>1. place \notin WorkPlaces \cup NoTreePlaces
    BY <1>1, NotAtWork
  <2> QED BY <1>2, <2>1 DEF LineInv, HandInv, OperandPlaces, DefinedPlaces, WorkPlaces,
                            NoTreePlaces
<1> QED BY <1>1, <1>2, <1>4, <1>5, <1>6, MoveStep

LEMMA RequiredFacts ==
  ASSUME NEW place \in DOMAIN Required
  PROVE  /\ place \in Places /\ Required[place].token # "UNKNOWN"
         /\ {place, Required[place].next} \cap (HandPlaces \cup DefinedPlaces) = {}
         /\ place \in ValuePlaces <=> Required[place].next \in ValuePlaces
         /\ \A type \in Statements :
              place \in PlacesOf[type] => Required[place].next \in PlacesOf[type]
<1>1. place \in Places
  BY DEF Places
<1>2. Required[place].token # "UNKNOWN"
  BY DEF Required
<1>3. {place, Required[place].next} \cap (HandPlaces \cup DefinedPlaces) = {}
  BY DEF Required, HandPlaces, DefinedPlaces
<1>4. place \in ValuePlaces <=> Required[place].next \in ValuePlaces
  BY DEF Required, ValuePlaces
<1>5. \A type \in Statements :
        place \in PlacesOf[type] => Required[place].next \in PlacesOf[type]
  BY StatementFacts DEF Required, PlacesOf
<1> QED BY <1>1, <1>2, <1>3, <1>4, <1>5

LEMMA RequireStep ==
  ASSUME LineInv, Require, plan' = plan
  PROVE  LineInv'
<1> DEFINE place == Required[pc].next
<1>1. pc \in DOMAIN Required
  BY DEF Require
<1>2. /\ pc \in Places /\ Required[pc].token # "UNKNOWN"
      /\ pc \notin HandPlaces /\ place \notin HandPlaces
      /\ place \in ValuePlaces <=> pc \in ValuePlaces
  BY <1>1, RequiredFacts
<1>3. /\ node \in Trees /\ pc \in PlacesOf[node.type] /\ node.type \in Statements
      /\ plan = <<>> /\ live = Size(node) + InHand /\ Size(node) \in Int
  BY <1>2, ParsingFacts
<1>4. place \in PlacesOf[node.type]
  BY <1>1, <1>3, RequiredFacts
<1>5. live = Size(node) + 0
  BY <1>2, <1>3 DEF InHand, HandPlaces
<1>6. PICK t \in Upcoming :
        IF t = Required[pc].token THEN Skip(t, place) ELSE Fail(node, 0)
  BY DEF Require
<1>7. CASE t = Required[pc].token
  <2>1. /\ place \in OperandPlaces => pc \in OperandPlaces
        /\ place \in DefinedPlaces => pc \in DefinedPlaces
    BY <1>2 DEF HandPlaces, OperandPlaces, DefinedPlaces
  <2> HIDE DEF place
  <2> QED BY <1>2, <1>4, <1>6, <1>7, <2>1, SkipStep
<1>8. CASE t # Required[pc].token
  BY <1>3, <1>5, <1>6, <1>8, FailStep
<1> QED BY <1>7, <1>8

-----------------------------------------------------------------------------
LEMMA HandUnchanged ==
  ASSUME LineInv, pc \in Places \ HandPlaces, pc' \in Places \ HandPlaces,
         stuck' \in BOOLEAN, UNCHANGED <<def, left>>
  PROVE  HandInv' /\ InHand' = 0 /\ InHand = 0
<1>1. pc' \notin WorkPlaces \cup NoTreePlaces
  BY DEF Places, Required, WorkPlaces, NoTreePlaces
<1>2. pc \notin {"equal", "right"} /\ pc' \notin {"equal", "right"}
  BY DEF HandPlaces
<1>3. HandInv'
  <2>1. HandInv /\ def' = def /\ left' = left
    BY DEF LineInv
  <2>2. left # "UNKNOWN"
    BY <1>2, <2>1 DEF HandInv
  <2>3. pc' \notin {"create_primary", "create_key", "create_next"}
    BY DEF HandPlaces
  <2>4. pc' \notin WorkPlaces /\ pc' \notin {"prompt", "dead", "damaged"}
    BY <1>1 DEF NoTreePlaces
  <2> QED BY <1>1, <1>2, <2>1, <2>2, <2>3, <2>4 DEF HandInv
<1>4. InHand' = 0 /\ InHand = 0
  BY DEF InHand, HandPlaces
<1> QED BY <1>3, <1>4

LEMMA SelectColumnStep ==
  ASSUME LineInv, SelectColumn, plan' = plan
  PROVE  LineInv'
<1>1. pc \in Places /\ pc \in {"select_first", "select_column"}
  BY DEF SelectColumn, Places
<1>2. /\ node \in Trees /\ pc \in PlacesOf[node.type] /\ Growing(node)
      /\ node.type \in Statements
      /\ plan = <<>> /\ live = Size(node) + InHand /\ Size(node) \in Int
  BY <1>1, ParsingFacts
<1>3. /\ node.type = "SELECT"
      /\ {"select_from", "select_column", "table_name"} \subseteq PlacesOf[node.type]
  <2>1. node.type = "SELECT"
    BY <1>1, <1>2, TypeOfPlace
  <2> QED BY <2>1 DEF PlacesOf
<1>4. live = Size(node) + 0
  BY <1>1, <1>2 DEF InHand
<1>5. PICK t \in Upcoming :
        \/ /\ t = "STAR" /\ Goto(t, "select_from")
           /\ node' = [node EXCEPT !.star = TRUE]
           /\ UNCHANGED <<def, left, live>>
        \/ t = "FROM" /\ Skip(t, "table_name")
        \/ t = "COMMA" /\ Skip(t, "select_column")
        \/ /\ t = "IDENTIFIER" /\ Len(node.columns) < MaxColumns
           /\ AddColumn(t, "select_column")
        \/ Fail(node, 0)
  BY DEF SelectColumn
<1>6. CASE Fail(node, 0)
  BY <1>2, <1>4, <1>6, FailStep
<1>7. CASE t = "FROM" /\ Skip(t, "table_name")
  <2>1. /\ "table_name" \notin HandPlaces \cup ValuePlaces /\ pc \notin HandPlaces \cup ValuePlaces
        /\ "table_name" \notin OperandPlaces \cup DefinedPlaces
    BY <1>1 DEF HandPlaces, ValuePlaces, OperandPlaces, DefinedPlaces
  <2> QED BY <1>1, <1>3, <1>7, <2>1, SkipStep
<1>8. CASE t = "COMMA" /\ Skip(t, "select_column")
  <2>1. /\ "select_column" \notin HandPlaces \cup ValuePlaces
        /\ pc \notin HandPlaces \cup ValuePlaces
        /\ "select_column" \notin OperandPlaces \cup DefinedPlaces
    BY <1>1 DEF HandPlaces, ValuePlaces, OperandPlaces, DefinedPlaces
  <2> QED BY <1>1, <1>3, <1>8, <2>1, SkipStep
<1>9. CASE /\ t = "STAR" /\ Goto(t, "select_from")
           /\ node' = [node EXCEPT !.star = TRUE]
           /\ UNCHANGED <<def, left, live>>
  <2>1. /\ node' \in Trees /\ node'.type = node.type /\ node'.columns = node.columns
        /\ node'.values = node.values /\ node'.definitions = node.definitions
        /\ node'.where = node.where
    BY <1>2, <1>9 DEF Trees
  <2>2. Size(node') = Size(node)
    BY <1>2, <2>1, TreeSize, Zenon
  <2>3. pc' = "select_from" /\ stuck' = FALSE /\ ~ stuck
    BY <1>9, UpcomingWhenStuck DEF Goto, LineInv, HandInv
  <2>4. HandInv' /\ InHand' = 0
    <3>1. pc \notin HandPlaces /\ pc' \in Places \ HandPlaces
      BY <1>1, <2>3 DEF HandPlaces, Places, Required
    <3> QED BY <3>1, <1>1, <1>9, <2>3, HandUnchanged
  <2>5. Growing(node)'
    BY <1>1, <1>2, <1>3, <2>1, <2>3 DEF Growing
  <2>6. live' = Size(node') + InHand'
    BY <1>4, <1>9, <2>2, <2>4
  <2>7. pc' \in PlacesOf[node'.type]
    BY <1>3, <2>1, <2>3
  <2> QED BY <1>2, <2>1, <2>4, <2>5, <2>6, <2>7, MoveStep
<1>10. CASE /\ t = "IDENTIFIER" /\ Len(node.columns) < MaxColumns
            /\ AddColumn(t, "select_column")
  <2>1. /\ node' = [node EXCEPT !.columns = Append(@, "COLUMN")] /\ live' = live + 1
        /\ UNCHANGED <<def, left>> /\ Goto(t, "select_column")
    BY <1>10, KindFacts DEF AddColumn
  <2>2. /\ node' \in Trees /\ Size(node') = Size(node) + 1
        /\ Len(node'.columns) = Len(node.columns) + 1 /\ Len(node.columns) \in Nat
        /\ node'.type = node.type /\ node'.values = node.values
        /\ node'.definitions = node.definitions /\ node'.where = node.where
    BY <1>2, <2>1, WithColumn
  <2>3. pc' = "select_column" /\ stuck' = FALSE /\ ~ stuck
    BY <1>10, <2>1, UpcomingWhenStuck DEF Goto, LineInv, HandInv
  <2>4. HandInv' /\ InHand' = 0
    <3>1. pc \notin HandPlaces /\ pc' \in Places \ HandPlaces
      BY <1>1, <2>3 DEF HandPlaces, Places
    <3> QED BY <3>1, <1>1, <2>1, <2>3, HandUnchanged
  <2>5. Growing(node)'
    BY <1>1, <1>2, <1>3, <1>10, <2>2, <2>3, MaxColumnsAssumption DEF Growing
  <2>6. live' = Size(node') + InHand'
    BY <1>2, <1>4, <2>1, <2>2, <2>4
  <2>7. pc' \in PlacesOf[node'.type]
    BY <1>3, <2>2, <2>3
  <2> QED BY <1>2, <2>2, <2>4, <2>5, <2>6, <2>7, MoveStep
<1> QED BY <1>5, <1>6, <1>7, <1>8, <1>9, <1>10

LEMMA AddValueFacts ==
  ASSUME node \in Trees, live = Size(node) + 0, NEW t \in DOMAIN Kind, NEW place,
         AddValue(t, place)
  PROVE  /\ pc' = place /\ stuck' \in BOOLEAN /\ (t = "UNKNOWN" => stuck')
         /\ UNCHANGED <<def, left>>
         /\ node' \in Trees /\ live' = Size(node') + 0
         /\ Len(node'.values) = Len(node.values) + 1 /\ Len(node.values) \in Nat
         /\ node'.type = node.type /\ node'.columns = node.columns
         /\ node'.definitions = node.definitions /\ node'.where = node.where
         /\ "UNKNOWN" \in ToSet(node'.values) => "UNKNOWN" \in ToSet(node.values) \/ t = "UNKNOWN"
<1>1. PICK kind \in Kinds : kind = Kind[t] /\ (kind = "UNKNOWN" => t = "UNKNOWN")
  BY KindFacts
<1>2. /\ node' = [node EXCEPT !.values = Append(@, kind)] /\ live' = live + 1
      /\ UNCHANGED <<def, left>> /\ Goto(t, place)
  BY <1>1 DEF AddValue
<1>3. /\ node' \in Trees /\ Size(node') = Size(node) + 1
      /\ Len(node'.values) = Len(node.values) + 1 /\ Len(node.values) \in Nat
      /\ node'.type = node.type /\ node'.columns = node.columns
      /\ node'.definitions = node.definitions /\ node'.where = node.where
      /\ ToSet(node'.values) \subseteq ToSet(node.values) \cup {kind}
  <2>1. node' = ValueAdded(node, kind)
    BY <1>2 DEF ValueAdded
  <2> QED BY <2>1, WithValue
<1>4. Size(node) \in Int
  BY SizeIsInt
<1>5. live' = Size(node') + 0
  BY <1>2, <1>3, <1>4
<1>6. pc' = place /\ stuck' = (t = "UNKNOWN")
  BY <1>2 DEF Goto
<1> QED BY <1>1, <1>2, <1>3, <1>5, <1>6

LEMMA InsertValueStep ==
  ASSUME LineInv, InsertValue, plan' = plan
  PROVE  LineInv'
<1>1. pc \in Places /\ pc = "insert_value" /\ pc \notin HandPlaces \cup ValuePlaces
  BY DEF InsertValue, Places, HandPlaces, ValuePlaces
<1>2. /\ node \in Trees /\ pc \in PlacesOf[node.type] /\ Growing(node)
      /\ node.type \in Statements
      /\ plan = <<>> /\ live = Size(node) + InHand /\ Size(node) \in Int
  BY <1>1, ParsingFacts
<1>3. node.type = "INSERT" /\ pc \in PlacesOf[node.type]
  BY <1>1, <1>2, TypeOfPlace
<1>4. live = Size(node) + 0
  BY <1>1, <1>2 DEF InHand
<1>5. PICK t \in Upcoming :
        \/ t = "RPAREN" /\ Return(node) /\ UNCHANGED live
        \/ t = "COMMA" /\ Skip(t, "insert_value")
        \/ /\ t \in DOMAIN Kind /\ Len(node.values) < MaxColumns
           /\ AddValue(t, "insert_value")
        \/ Fail(node, 0)
  BY DEF InsertValue
<1>6. CASE Fail(node, 0)
  BY <1>2, <1>4, <1>6, FailStep
<1>7. CASE t = "COMMA" /\ Skip(t, "insert_value")
  <2>1. pc \notin OperandPlaces \cup DefinedPlaces
    BY <1>1 DEF OperandPlaces, DefinedPlaces
  <2> QED BY <1>1, <1>3, <1>7, <2>1, SkipStep
<1>8. CASE t = "RPAREN" /\ Return(node) /\ UNCHANGED live
  <2>1. ~ stuck
    BY <1>8, UpcomingWhenStuck
  <2>2. node.where = NoWhere /\ NoWhere \in Seq(Kinds) /\ DOMAIN NoWhere = {}
        /\ Len(NoWhere) <= 2
    BY <1>2, <1>3, KindFacts DEF Growing, NoWhere
  <2>3. Whole(node)
    <3>1. /\ Len(node.columns) <= MaxColumns /\ Len(node.values) <= MaxColumns
          /\ Len(node.definitions) <= MaxColumns
      BY <1>2, LenProperties, MaxColumnsAssumption DEF Growing, Trees
    <3>2. "UNKNOWN" \notin ToSet(node.values)
      BY <1>2, <2>1 DEF Growing
    <3> QED BY <1>3, <2>2, <3>1, <3>2 DEF Whole
  <2> QED BY <1>2, <1>4, <1>8, <2>3, ReturnStep
<1>9. CASE /\ t \in DOMAIN Kind /\ Len(node.values) < MaxColumns
           /\ AddValue(t, "insert_value")
  <2>1. /\ pc' = "insert_value" /\ stuck' \in BOOLEAN /\ (t = "UNKNOWN" => stuck')
        /\ UNCHANGED <<def, left>>
        /\ node' \in Trees /\ live' = Size(node') + 0
        /\ Len(node'.values) = Len(node.values) + 1 /\ Len(node.values) \in Nat
        /\ node'.type = node.type /\ node'.columns = node.columns
        /\ node'.definitions = node.definitions /\ node'.where = node.where
        /\ "UNKNOWN" \in ToSet(node'.values) => "UNKNOWN" \in ToSet(node.values) \/ t = "UNKNOWN"
    BY <1>2, <1>4, <1>9, AddValueFacts
  <2>2. HandInv' /\ InHand' = 0
    BY <1>1, <2>1, HandUnchanged
  <2>3. "UNKNOWN" \in ToSet(node'.values) => stuck'
    <3>1. CASE stuck
      BY <1>9, <2>1, <3>1, UpcomingWhenStuck
    <3>2. CASE ~ stuck
      BY <1>2, <2>1, <3>2 DEF Growing
    <3> QED BY <3>1, <3>2
  <2>4. Growing(node)'
    BY <1>2, <1>3, <1>9, <2>1, <2>3, MaxColumnsAssumption DEF Growing
  <2>5. pc' \in PlacesOf[node'.type] /\ live' = Size(node') + InHand'
    BY <1>1, <1>3, <2>1, <2>2
  <2> QED BY <1>2, <2>1, <2>2, <2>4, <2>5, MoveStep
<1> QED BY <1>5, <1>6, <1>7, <1>8, <1>9

LEMMA UpdateColumnStep ==
  ASSUME LineInv, UpdateColumn, plan' = plan
  PROVE  LineInv'
<1>1. pc \in Places /\ pc = "update_column" /\ pc \notin HandPlaces \cup ValuePlaces
  BY DEF UpdateColumn, Places, HandPlaces, ValuePlaces
<1>2. /\ node \in Trees /\ pc \in PlacesOf[node.type] /\ Growing(node)
      /\ node.type \in Statements
      /\ plan = <<>> /\ live = Size(node) + InHand /\ Size(node) \in Int
  BY <1>1, ParsingFacts
<1>3. /\ node.type = "UPDATE"
      /\ {"left", "update_column", "update_equal"} \subseteq PlacesOf[node.type]
  <2>1. node.type = "UPDATE"
    BY <1>1, <1>2, TypeOfPlace
  <2> QED BY <2>1 DEF PlacesOf
<1>4. live = Size(node) + 0
  BY <1>1, <1>2 DEF InHand
<1>5. PICK t \in Upcoming :
        \/ t = "WHERE" /\ Skip(t, "left")
        \/ t = "COMMA" /\ Skip(t, "update_column")
        \/ /\ t = "IDENTIFIER" /\ Len(node.columns) < MaxColumns
           /\ AddColumn(t, "update_equal")
        \/ Fail(node, 0)
  BY DEF UpdateColumn
<1>6. CASE Fail(node, 0)
  BY <1>2, <1>4, <1>6, FailStep
<1>7. CASE t = "WHERE" /\ Skip(t, "left")
  <2>1. "left" \notin HandPlaces \cup ValuePlaces \cup OperandPlaces \cup DefinedPlaces
    BY DEF HandPlaces, ValuePlaces, OperandPlaces, DefinedPlaces
  <2> QED BY <1>1, <1>3, <1>7, <2>1, SkipStep
<1>8. CASE t = "COMMA" /\ Skip(t, "update_column")
  BY <1>1, <1>3, <1>8, SkipStep
<1>9. CASE /\ t = "IDENTIFIER" /\ Len(node.columns) < MaxColumns
           /\ AddColumn(t, "update_equal")
  <2>1. /\ node' = [node EXCEPT !.columns = Append(@, "COLUMN")] /\ live' = live + 1
        /\ UNCHANGED <<def, left>> /\ Goto(t, "update_equal")
    BY <1>9, KindFacts DEF AddColumn
  <2>2. /\ node' \in Trees /\ Size(node') = Size(node) + 1
        /\ Len(node'.columns) = Len(node.columns) + 1 /\ Len(node.columns) \in Nat
        /\ node'.type = node.type /\ node'.values = node.values
        /\ node'.definitions = node.definitions /\ node'.where = node.where
    BY <1>2, <2>1, WithColumn
  <2>3. pc' = "update_equal" /\ stuck' = FALSE /\ ~ stuck
    BY <1>9, <2>1, UpcomingWhenStuck DEF Goto, LineInv, HandInv
  <2>4. HandInv' /\ InHand' = 0
    <3>1. pc' \in Places \ HandPlaces
      BY <2>3 DEF HandPlaces, Places, Required
    <3> QED BY <3>1, <1>1, <2>1, <2>3, HandUnchanged
  <2>5. Growing(node)'
    BY <1>1, <1>2, <1>3, <1>9, <2>2, <2>3, MaxColumnsAssumption DEF Growing
  <2>6. live' = Size(node') + InHand'
    BY <1>2, <1>4, <2>1, <2>2, <2>4
  <2>7. pc' \in PlacesOf[node'.type]
    BY <1>3, <2>2, <2>3
  <2> QED BY <1>2, <2>2, <2>4, <2>5, <2>6, <2>7, MoveStep
<1> QED BY <1>5, <1>6, <1>7, <1>8, <1>9

LEMMA UpdateValueStep ==
  ASSUME LineInv, UpdateValue, plan' = plan
  PROVE  LineInv'
<1>1. pc \in Places /\ pc = "update_value" /\ pc \notin HandPlaces
  BY DEF UpdateValue, Places, HandPlaces
<1>2. /\ node \in Trees /\ pc \in PlacesOf[node.type] /\ Growing(node)
      /\ node.type \in Statements
      /\ plan = <<>> /\ live = Size(node) + InHand /\ Size(node) \in Int
  BY <1>1, ParsingFacts
<1>3. node.type = "UPDATE" /\ "update_column" \in PlacesOf[node.type]
  <2>1. node.type = "UPDATE"
    BY <1>1, <1>2, TypeOfPlace
  <2> QED BY <2>1 DEF PlacesOf
<1>4. live = Size(node) + 0
  BY <1>1, <1>2 DEF InHand
<1>5. PICK t \in Upcoming :
        IF t \in DOMAIN Kind THEN AddValue(t, "update_column") ELSE Fail(node, 0)
  BY DEF UpdateValue
<1>6. CASE t \notin DOMAIN Kind
  BY <1>2, <1>4, <1>5, <1>6, FailStep
<1>7. CASE t \in DOMAIN Kind
  <2>1. /\ pc' = "update_column" /\ stuck' \in BOOLEAN /\ (t = "UNKNOWN" => stuck')
        /\ UNCHANGED <<def, left>>
        /\ node' \in Trees /\ live' = Size(node') + 0
        /\ Len(node'.values) = Len(node.values) + 1 /\ Len(node.values) \in Nat
        /\ node'.type = node.type /\ node'.columns = node.columns
        /\ node'.definitions = node.definitions /\ node'.where = node.where
        /\ "UNKNOWN" \in ToSet(node'.values) => "UNKNOWN" \in ToSet(node.values) \/ t = "UNKNOWN"
    BY <1>2, <1>4, <1>5, <1>7, AddValueFacts
  <2>2. HandInv' /\ InHand' = 0
    <3>1. pc' \in Places \ HandPlaces
      BY <2>1 DEF HandPlaces, Places
    <3> QED BY <1>1, <2>1, <3>1, HandUnchanged
  <2>3. Growing(node)'
    BY <1>1, <1>2, <1>3, <2>1, MaxColumnsAssumption DEF Growing
  <2>4. pc' \in PlacesOf[node'.type] /\ live' = Size(node') + InHand'
    BY <1>3, <2>1, <2>2
  <2> QED BY <1>2, <2>1, <2>2, <2>3, <2>4, MoveStep
<1> QED BY <1>6, <1>7

-----------------------------------------------------------------------------
LEMMA DefinitionFacts ==
  /\ \A t \in DOMAIN ColumnType : ColumnType[t] \in ColumnTypes
  /\ NoDefinition \in [type : ColumnTypes \cup {"NONE"}, primary : BOOLEAN]
BY DEF ColumnTypes, NoDefinition

LEMMA CreateNameStep ==
  ASSUME LineInv, CreateName, plan' = plan
  PROVE  LineInv'
<1>1. pc \in Places /\ pc \in {"create_first", "create_name"}
  BY DEF CreateName, Places
<1>2. /\ node \in Trees /\ pc \in PlacesOf[node.type] /\ Growing(node)
      /\ node.type \in Statements
      /\ plan = <<>> /\ live = Size(node) + InHand /\ Size(node) \in Int
  BY <1>1, ParsingFacts
<1>3. node.type = "CREATE" /\ "create_type" \in PlacesOf[node.type]
  <2>1. node.type = "CREATE"
    BY <1>1, <1>2, TypeOfPlace
  <2> QED BY <2>1 DEF PlacesOf
<1>4. live = Size(node) + 0
  BY <1>1, <1>2 DEF InHand
<1>5. PICK t \in Upcoming :
        IF t = "IDENTIFIER"
        THEN /\ Goto(t, "create_type") /\ live' = live + 1
             /\ UNCHANGED <<node, def, left>>
        ELSE Fail(node, 0)
  BY DEF CreateName
<1>6. CASE t # "IDENTIFIER"
  BY <1>2, <1>4, <1>5, <1>6, FailStep
<1>7. CASE t = "IDENTIFIER"
  <2>1. /\ pc' = "create_type" /\ stuck' = FALSE /\ ~ stuck /\ live' = live + 1
        /\ node' = node /\ def' = def /\ left' = left
    BY <1>5, <1>7, UpcomingWhenStuck DEF Goto, LineInv, HandInv
  <2>2. HandInv'
    BY <1>1, <2>1 DEF LineInv, HandInv, WorkPlaces, NoTreePlaces
  <2>3. Growing(node)'
    BY <1>2, <1>3, <2>1 DEF Growing
  <2>4. live' = Size(node') + InHand'
    BY <1>2, <1>4, <2>1 DEF InHand
  <2> QED BY <1>2, <1>3, <2>1, <2>2, <2>3, <2>4, MoveStep
<1> QED BY <1>6, <1>7

LEMMA CreateTypeStep ==
  ASSUME LineInv, CreateType, plan' = plan
  PROVE  LineInv'
<1>1. pc \in Places /\ pc = "create_type"
  BY DEF CreateType, Places
<1>2. /\ node \in Trees /\ pc \in PlacesOf[node.type] /\ Growing(node)
      /\ node.type \in Statements
      /\ plan = <<>> /\ live = Size(node) + InHand /\ Size(node) \in Int
  BY <1>1, ParsingFacts
<1>3. node.type = "CREATE" /\ "create_primary" \in PlacesOf[node.type]
  <2>1. node.type = "CREATE"
    BY <1>1, <1>2, TypeOfPlace
  <2> QED BY <2>1 DEF PlacesOf
<1>4. live = Size(node) + 1
  BY <1>1, <1>2 DEF InHand
<1>5. PICK t \in Upcoming :
        IF t \in DOMAIN ColumnType
        THEN /\ Goto(t, "create_primary")
             /\ def' = [def EXCEPT !.type = ColumnType[t]]
             /\ UNCHANGED <<node, left, live>>
        ELSE Fail(node, 1)
  BY DEF CreateType
<1>6. CASE t \notin DOMAIN ColumnType
  BY <1>2, <1>4, <1>5, <1>6, FailStep
<1>7. CASE t \in DOMAIN ColumnType
  <2>1. /\ pc' = "create_primary" /\ stuck' = FALSE /\ ~ stuck /\ live' = live
        /\ node' = node /\ left' = left
    BY <1>5, <1>7, UpcomingWhenStuck DEF Goto, LineInv, HandInv, ColumnType
  <2>2. def' \in Definitions
    <3>1. def \in [type : ColumnTypes \cup {"NONE"}, primary : BOOLEAN]
      BY DEF LineInv, HandInv
    <3> QED BY <1>5, <1>7, <3>1, DefinitionFacts DEF Definitions
  <2>3. HandInv'
    <3>1. def' \in [type : ColumnTypes \cup {"NONE"}, primary : BOOLEAN]
      BY <2>2 DEF Definitions
    <3> QED BY <1>1, <2>1, <2>2, <3>1 DEF LineInv, HandInv, WorkPlaces, NoTreePlaces
  <2>4. Growing(node)'
    BY <1>2, <1>3, <2>1 DEF Growing
  <2>5. live' = Size(node') + InHand'
    BY <1>2, <1>4, <2>1 DEF InHand
  <2> QED BY <1>2, <1>3, <2>1, <2>3, <2>4, <2>5, MoveStep
<1> QED BY <1>6, <1>7

LEMMA CreateKeyStep ==
  ASSUME LineInv, CreateKey, plan' = plan
  PROVE  LineInv'
<1>1. pc \in Places /\ pc = "create_key"
  BY DEF CreateKey, Places
<1>2. /\ node \in Trees /\ pc \in PlacesOf[node.type] /\ Growing(node)
      /\ node.type \in Statements
      /\ plan = <<>> /\ live = Size(node) + InHand /\ Size(node) \in Int
  BY <1>1, ParsingFacts
<1>3. node.type = "CREATE" /\ "create_next" \in PlacesOf[node.type]
  <2>1. node.type = "CREATE"
    BY <1>1, <1>2, TypeOfPlace
  <2> QED BY <2>1 DEF PlacesOf
<1>4. live = Size(node) + 1
  BY <1>1, <1>2 DEF InHand
<1>5. PICK t \in Upcoming :
        IF t = "KEY"
        THEN /\ Goto(t, "create_next")
             /\ def' = [def EXCEPT !.primary = TRUE]
             /\ UNCHANGED <<node, left, live>>
        ELSE Fail(node, 1)
  BY DEF CreateKey
<1>6. CASE t # "KEY"
  BY <1>2, <1>4, <1>5, <1>6, FailStep
<1>7. CASE t = "KEY"
  <2>1. /\ pc' = "create_next" /\ stuck' = FALSE /\ ~ stuck /\ live' = live
        /\ node' = node /\ left' = left
    BY <1>5, <1>7, UpcomingWhenStuck DEF Goto, LineInv, HandInv
  <2>2. def' \in Definitions
    <3>1. def \in Definitions
      BY <1>1 DEF LineInv, HandInv
    <3> QED BY <1>5, <1>7, <3>1 DEF Definitions
  <2>3. HandInv'
    <3>1. def' \in [type : ColumnTypes \cup {"NONE"}, primary : BOOLEAN]
      BY <2>2 DEF Definitions
    <3> QED BY <1>1, <2>1, <2>2, <3>1 DEF LineInv, HandInv, WorkPlaces, NoTreePlaces
  <2>4. Growing(node)'
    BY <1>1, <1>2, <1>3, <2>1 DEF Growing
  <2>5. live' = Size(node') + InHand'
    BY <1>2, <1>4, <2>1 DEF InHand
  <2> QED BY <1>2, <1>3, <2>1, <2>3, <2>4, <2>5, MoveStep
<1> QED BY <1>6, <1>7

\* The column in hand gets into the tree.
LEMMA EndColumnStep ==
  ASSUME LineInv, pc \in {"create_primary", "create_next"}, plan' = plan,
         NEW t \in Upcoming, EndColumn(t, [node EXCEPT !.definitions = Append(@, def)])
  PROVE  LineInv'
<1> DEFINE n == DefinitionAdded(node, def)
<1>1. pc \in Places
  BY DEF Places
<1>2. /\ node \in Trees /\ pc \in PlacesOf[node.type] /\ Growing(node)
      /\ node.type \in Statements
      /\ plan = <<>> /\ live = Size(node) + InHand /\ Size(node) \in Int
  BY <1>1, ParsingFacts
<1>3. node.type = "CREATE" /\ "create_name" \in PlacesOf[node.type]
  <2>1. node.type = "CREATE"
    BY <1>2, TypeOfPlace
  <2> QED BY <2>1 DEF PlacesOf
<1>4. def \in Definitions
  BY DEF LineInv, HandInv
<1>5. /\ n \in Trees /\ Size(n) = Size(node) + 1
      /\ Len(n.definitions) = Len(node.definitions) + 1 /\ Len(node.definitions) \in Nat
      /\ n.type = node.type /\ n.columns = node.columns /\ n.values = node.values
      /\ n.where = node.where
  BY <1>2, <1>4, WithDefinition
<1>6. live = Size(n) + 0 /\ Size(n) \in Int
  BY <1>2, <1>5 DEF InHand
<1>7. EndColumn(t, n)
  BY DEF DefinitionAdded
<1> HIDE DEF n
<1>8. \/ t = "RPAREN" /\ HasOneKey(n) /\ Return(n) /\ UNCHANGED live
      \/ /\ t = "COMMA" /\ Len(n.definitions) < MaxColumns
         /\ Goto(t, "create_name")
         /\ node' = n /\ def' = NoDefinition
         /\ UNCHANGED <<left, live>>
      \/ Fail(n, 0)
  BY <1>7 DEF EndColumn
<1>9. CASE Fail(n, 0)
  BY <1>2, <1>5, <1>6, <1>9, FailStep
<1>10. CASE t = "RPAREN" /\ HasOneKey(n) /\ Return(n) /\ UNCHANGED live
  <2>1. ~ stuck
    BY <1>10, UpcomingWhenStuck
  <2>2. n.where = NoWhere /\ NoWhere \in Seq(Kinds) /\ DOMAIN NoWhere = {}
        /\ Len(NoWhere) <= 2
    BY <1>2, <1>3, <1>5, KindFacts DEF Growing, NoWhere
  <2>3. Whole(n)
    <3>1. /\ Len(n.columns) <= MaxColumns /\ Len(n.values) <= MaxColumns
          /\ Len(n.definitions) <= MaxColumns
      BY <1>2, <1>5, MaxColumnsAssumption DEF Growing
    <3>2. "UNKNOWN" \notin ToSet(n.values)
      BY <1>2, <1>5, <2>1 DEF Growing
    <3> QED BY <1>3, <1>5, <1>10, <2>2, <3>1, <3>2 DEF Whole
  <2> QED BY <1>2, <1>5, <1>6, <1>10, <2>3, ReturnStep
<1>11. CASE /\ t = "COMMA" /\ Len(n.definitions) < MaxColumns
            /\ Goto(t, "create_name")
            /\ node' = n /\ def' = NoDefinition
            /\ UNCHANGED <<left, live>>
  <2>1. /\ pc' = "create_name" /\ stuck' = FALSE /\ ~ stuck /\ live' = live
        /\ node' = n /\ left' = left /\ def' = NoDefinition
    BY <1>11, UpcomingWhenStuck DEF Goto, LineInv, HandInv
  <2>2. HandInv'
    BY <2>1, DefinitionFacts DEF LineInv, HandInv, WorkPlaces, NoTreePlaces
  <2>3. Growing(node)'
    BY <1>2, <1>3, <1>5, <1>11, <2>1 DEF Growing
  <2>4. live' = Size(node') + InHand'
    BY <1>6, <2>1 DEF InHand
  <2>5. pc' \in PlacesOf[node'.type]
    BY <1>3, <1>5, <2>1
  <2> QED BY <1>2, <1>5, <2>1, <2>2, <2>3, <2>4, <2>5, MoveStep
<1> QED BY <1>8, <1>9, <1>10, <1>11

LEMMA CreateNextStep ==
  ASSUME LineInv, CreateNext, plan' = plan
  PROVE  LineInv'
<1>1. pc \in Places /\ pc \in {"create_primary", "create_next"}
  BY DEF CreateNext, Places
<1>2. PICK t \in Upcoming :
        IF t = "PRIMARY" /\ pc = "create_primary"
        THEN Skip(t, "create_key")
        ELSE EndColumn(t, [node EXCEPT !.definitions = Append(@, def)])
  BY DEF CreateNext
<1>3. CASE t = "PRIMARY" /\ pc = "create_primary"
  <2>1. node.type = "CREATE"
    BY <1>1, ParsingFacts, TypeOfPlace
  <2>2. "create_key" \in PlacesOf[node.type]
    BY <2>1 DEF PlacesOf
  <2>3. /\ "create_key" \in HandPlaces /\ pc \in HandPlaces
        /\ "create_key" \notin OperandPlaces /\ pc \in DefinedPlaces
        /\ "create_key" \notin ValuePlaces /\ pc \notin ValuePlaces
    BY <1>1 DEF HandPlaces, OperandPlaces, DefinedPlaces, ValuePlaces
  <2> QED BY <1>1, <1>2, <1>3, <2>2, <2>3, SkipStep
<1>4. CASE ~ (t = "PRIMARY" /\ pc = "create_primary")
  BY <1>1, <1>2, <1>4, EndColumnStep
<1> QED BY <1>3, <1>4

-----------------------------------------------------------------------------
\* A tree that is returned with its WHERE.
LEMMA WholeWith ==
  ASSUME node \in Trees, Growing(node), pc \in {"where", "left", "equal", "right"},
         node.type \in {"SELECT", "UPDATE", "DELETE"}, NEW where \in Seq(Kinds),
         Len(where) <= 2, node.type = "UPDATE" => where # NoWhere,
         \A i \in DOMAIN where : where[i] = "UNKNOWN" => i = Len(where)
  PROVE  /\ With(where) \in Trees /\ Whole(With(where))
         /\ Size(With(where)) = Size(node) + WhereSize(where)
<1> DEFINE n == With(where)
<1>1. node.where \in {NoWhere, Unset}
  BY DEF Growing
<1>2. n = [node EXCEPT !.where = where]
  BY DEF With
<1> HIDE DEF n
<1>3. /\ n \in Trees /\ Size(n) = Size(node) + WhereSize(where)
      /\ n.type = node.type /\ n.columns = node.columns /\ n.values = node.values
      /\ n.definitions = node.definitions /\ n.where = where
  BY <1>1, <1>2, WithWhere
<1>4. /\ Len(node.columns) <= MaxColumns /\ Len(node.values) <= MaxColumns
      /\ Len(node.definitions) <= MaxColumns
  BY LenProperties, MaxColumnsAssumption DEF Growing, Trees
<1>5. "UNKNOWN" \notin ToSet(node.values)
  BY DEF Growing
<1>6. node.type = "UPDATE" => Len(node.columns) = Len(node.values)
  BY DEF Growing
<1>7. Whole(n)
  BY <1>3, <1>4, <1>5, <1>6 DEF Whole
<1> QED BY <1>3, <1>7 DEF n

LEMMA WhereStep ==
  ASSUME LineInv, Where, plan' = plan
  PROVE  LineInv'
<1>1. pc \in Places /\ pc = "where" /\ pc \notin HandPlaces \cup ValuePlaces
  BY DEF Where, Places, HandPlaces, ValuePlaces
<1>2. /\ node \in Trees /\ pc \in PlacesOf[node.type] /\ Growing(node)
      /\ node.type \in Statements
      /\ plan = <<>> /\ live = Size(node) + InHand /\ Size(node) \in Int
  BY <1>1, ParsingFacts
<1>3. node.type \in {"SELECT", "DELETE"} /\ "left" \in PlacesOf[node.type]
  <2>1. node.type \in {"SELECT", "DELETE"}
    BY <1>1, <1>2, TypeOfPlace
  <2> QED BY <2>1 DEF PlacesOf
<1>4. live = Size(node) + 0
  BY <1>1, <1>2 DEF InHand
<1>5. PICK t \in Upcoming :
        IF t = "WHERE" THEN Skip(t, "left") ELSE Return(node) /\ UNCHANGED live
  BY DEF Where
<1>6. CASE t = "WHERE"
  <2>1. "left" \notin HandPlaces \cup ValuePlaces \cup OperandPlaces \cup DefinedPlaces
    BY DEF HandPlaces, ValuePlaces, OperandPlaces, DefinedPlaces
  <2> QED BY <1>1, <1>3, <1>5, <1>6, <2>1, SkipStep
<1>7. CASE t # "WHERE"
  <2>1. node.where = NoWhere /\ NoWhere \in Seq(Kinds) /\ DOMAIN NoWhere = {}
        /\ Len(NoWhere) <= 2
    BY <1>2, <1>3, KindFacts DEF Growing, NoWhere
  <2>2. Whole(node)
    <3>1. /\ Len(node.columns) <= MaxColumns /\ Len(node.values) <= MaxColumns
          /\ Len(node.definitions) <= MaxColumns
      BY <1>2, LenProperties, MaxColumnsAssumption DEF Growing, Trees
    <3>2. "UNKNOWN" \notin ToSet(node.values)
      BY <1>1, <1>2 DEF Growing
    <3> QED BY <1>3, <2>1, <3>1, <3>2 DEF Whole
  <2> QED BY <1>2, <1>4, <1>5, <1>7, <2>2, ReturnStep
<1> QED BY <1>6, <1>7

\* An expression that fails leaves the tree without a WHERE.
LEMMA WithoutWhere ==
  ASSUME node \in Trees, Growing(node)
  PROVE  With(NoWhere) \in Trees /\ Size(With(NoWhere)) = Size(node)
<1>1. node.where \in {NoWhere, Unset} /\ Size(node) \in Int
  BY SizeIsInt DEF Growing
<1>2. NoWhere \in Seq(Kinds) /\ WhereSize(NoWhere) = 0
  BY KindFacts, WhereSizes
<1>3. With(NoWhere) = [node EXCEPT !.where = NoWhere]
  BY DEF With
<1>4. With(NoWhere) \in Trees /\ Size(With(NoWhere)) = Size(node) + WhereSize(NoWhere)
  BY <1>1, <1>2, <1>3, WithWhere
<1> QED BY <1>1, <1>2, <1>4

LEMMA LeftOperandStep ==
  ASSUME LineInv, LeftOperand, plan' = plan
  PROVE  LineInv'
<1>1. pc \in Places /\ pc = "left"
  BY DEF LeftOperand, Places
<1>2. /\ node \in Trees /\ pc \in PlacesOf[node.type] /\ Growing(node)
      /\ node.type \in Statements
      /\ plan = <<>> /\ live = Size(node) + InHand /\ Size(node) \in Int
  BY <1>1, ParsingFacts
<1>3. "equal" \in PlacesOf[node.type]
  <2>1. node.type \in {"SELECT", "UPDATE", "DELETE"}
    BY <1>1, <1>2, TypeOfPlace
  <2> QED BY <2>1 DEF PlacesOf
<1>4. live = Size(node) + 0
  BY <1>1, <1>2 DEF InHand
<1>5. PICK t \in Upcoming :
        IF t \in DOMAIN Kind
        THEN /\ Goto(t, "equal")
             /\ left' = Kind[t]
             /\ live' = live + 1
             /\ UNCHANGED <<node, def>>
        ELSE Fail(With(NoWhere), 0)
  BY DEF LeftOperand
<1>6. CASE t \notin DOMAIN Kind
  BY <1>2, <1>4, <1>5, <1>6, WithoutWhere, FailStep
<1>7. CASE t \in DOMAIN Kind
  <2>1. /\ pc' = "equal" /\ stuck' = (t = "UNKNOWN") /\ left' = Kind[t] /\ live' = live + 1
        /\ node' = node /\ def' = def
    BY <1>5, <1>7 DEF Goto
  <2>2. left' \in Kinds /\ (left' = "UNKNOWN" => stuck')
    BY <1>7, <2>1, KindFacts
  <2>3. HandInv'
    BY <1>1, <2>1, <2>2 DEF LineInv, HandInv, WorkPlaces, NoTreePlaces
  <2>4. Growing(node)'
    BY <1>1, <1>2, <2>1 DEF Growing
  <2>5. live' = Size(node') + InHand'
    BY <1>2, <1>4, <2>1 DEF InHand
  <2> QED BY <1>2, <1>3, <2>1, <2>3, <2>4, <2>5, MoveStep
<1> QED BY <1>6, <1>7

LEMMA EqualStep ==
  ASSUME LineInv, Equal, plan' = plan
  PROVE  LineInv'
<1>1. pc \in Places /\ pc = "equal"
  BY DEF Equal, Places
<1>2. /\ node \in Trees /\ pc \in PlacesOf[node.type] /\ Growing(node)
      /\ node.type \in Statements
      /\ plan = <<>> /\ live = Size(node) + InHand /\ Size(node) \in Int
  BY <1>1, ParsingFacts
<1>3. node.type \in {"SELECT", "UPDATE", "DELETE"} /\ "right" \in PlacesOf[node.type]
  <2>1. node.type \in {"SELECT", "UPDATE", "DELETE"}
    BY <1>1, <1>2, TypeOfPlace
  <2> QED BY <2>1 DEF PlacesOf
<1>4. live = Size(node) + 1
  BY <1>1, <1>2 DEF InHand
<1>5. left \in Kinds /\ (left = "UNKNOWN" => stuck)
  BY <1>1 DEF LineInv, HandInv
<1>6. PICK t \in Upcoming :
        IF t = "EQUAL" THEN Skip(t, "right") ELSE Return(With(<<left>>)) /\ UNCHANGED live
  BY DEF Equal
<1>7. CASE t = "EQUAL"
  <2>1. /\ pc' = "right" /\ stuck' = FALSE /\ ~ stuck /\ live' = live
        /\ node' = node /\ def' = def /\ left' = left
    BY <1>6, <1>7, UpcomingWhenStuck DEF Skip, Goto, LineInv, HandInv
  <2>2. HandInv'
    BY <1>1, <1>5, <2>1 DEF LineInv, HandInv, WorkPlaces, NoTreePlaces
  <2>3. Growing(node)'
    BY <1>1, <1>2, <2>1 DEF Growing
  <2>4. live' = Size(node') + InHand'
    BY <1>2, <1>4, <2>1 DEF InHand
  <2> QED BY <1>2, <1>3, <2>1, <2>2, <2>3, <2>4, MoveStep
<1>8. CASE t # "EQUAL"
  <2>1. <<left>> \in Seq(Kinds) /\ WhereSize(<<left>>) = 1
    BY <1>5, WhereSizes
  <2>2. <<left>> # NoWhere /\ Len(<<left>>) <= 2 /\ \A i \in DOMAIN <<left>> : i = Len(<<left>>)
    BY DEF NoWhere
  <2>3. /\ With(<<left>>) \in Trees /\ Whole(With(<<left>>))
        /\ Size(With(<<left>>)) = Size(node) + 1
    BY <1>1, <1>2, <1>3, <2>1, <2>2, WholeWith
  <2> QED BY <1>2, <1>4, <1>6, <1>8, <2>3, ReturnStep
<1> QED BY <1>7, <1>8

LEMMA RightOperandStep ==
  ASSUME LineInv, RightOperand, plan' = plan
  PROVE  LineInv'
<1>1. pc \in Places /\ pc = "right"
  BY DEF RightOperand, Places
<1>2. /\ node \in Trees /\ pc \in PlacesOf[node.type] /\ Growing(node)
      /\ node.type \in Statements
      /\ plan = <<>> /\ live = Size(node) + InHand /\ Size(node) \in Int
  BY <1>1, ParsingFacts
<1>3. node.type \in {"SELECT", "UPDATE", "DELETE"}
  BY <1>1, <1>2, TypeOfPlace
<1>4. live = Size(node) + 1
  BY <1>1, <1>2 DEF InHand
<1>5. left \in Kinds /\ left # "UNKNOWN"
  BY <1>1 DEF LineInv, HandInv
<1>6. PICK t \in Upcoming :
        IF t \in DOMAIN Kind
        THEN Return(With(<<left, Kind[t]>>)) /\ live' = live + 2
        ELSE Fail(With(NoWhere), 1)
  BY DEF RightOperand
<1>7. CASE t \notin DOMAIN Kind
  BY <1>2, <1>4, <1>6, <1>7, WithoutWhere, FailStep
<1>8. CASE t \in DOMAIN Kind
  <2>1. PICK right \in Kinds : right = Kind[t]
    BY <1>8, KindFacts
  <2>2. <<left, right>> \in Seq(Kinds) /\ WhereSize(<<left, right>>) = 3
    BY <1>5, WhereSizes
  <2>3. /\ <<left, right>> # NoWhere /\ Len(<<left, right>>) <= 2
        /\ \A i \in DOMAIN <<left, right>> :
             <<left, right>>[i] = "UNKNOWN" => i = Len(<<left, right>>)
    BY <1>5 DEF NoWhere
  <2>4. /\ With(<<left, right>>) \in Trees /\ Whole(With(<<left, right>>))
        /\ Size(With(<<left, right>>)) = Size(node) + 3
    BY <1>1, <1>2, <1>3, <2>2, <2>3, WholeWith
  <2>5. Return(With(<<left, right>>)) /\ live' = Size(With(<<left, right>>))
    BY <1>2, <1>4, <1>6, <1>8, <2>1, <2>4
  <2> QED BY <1>2, <2>4, <2>5, ReturnStep
<1> QED BY <1>7, <1>8

\* Parsing keeps the invariant.
LEMMA ParseStep ==
  ASSUME LineInv, Parse, plan' = plan
  PROVE  LineInv'
BY RequireStep, SelectColumnStep, InsertValueStep, UpdateColumnStep, UpdateValueStep,
   CreateNameStep, CreateTypeStep, CreateKeyStep, CreateNextStep, WhereStep, LeftOperandStep,
   EqualStep, RightOperandStep
DEF Parse

-----------------------------------------------------------------------------
\* Where there is no tree, nothing is allocated.
LEMMA NoTreeFacts ==
  ASSUME LineInv, pc \in NoTreePlaces
  PROVE  /\ node = NoNode /\ def = NoDefinition /\ left = NoOperand /\ plan = <<>> /\ live = 0
         /\ stuck \in BOOLEAN
<1>1. node = NoNode
  <2>1. node # NoNode => node \in Trees /\ node.type \in Statements
    BY DEF LineInv, TreeInv, Trees
  <2>2. pc \notin WorkPlaces
    BY DEF WorkPlaces, NoTreePlaces
  <2> QED BY <2>1, <2>2, NotAtWork DEF LineInv, TreeInv
<1>2. def = NoDefinition /\ left = NoOperand /\ stuck \in BOOLEAN
  BY DEF LineInv, HandInv
<1>3. plan = <<>>
  BY DEF LineInv, NoTreePlaces
<1>4. live = 0
  BY <1>1, <1>3 DEF LineInv, Accounted, Size, InHand, NoTreePlaces
<1> QED BY <1>1, <1>2, <1>3, <1>4

\* The first token of a line.
LEMMA ReadStatementStep ==
  ASSUME LineInv, ReadStatement
  PROVE  LineInv'
<1>1. PICK type \in Statements : BeginStatement(type)
  BY DEF ReadStatement, Supported, Statements, FirstPlace
<1>2. /\ pc = "prompt" /\ pc' = FirstPlace[type] /\ node' = Blank(type) /\ live' = live + 1
      /\ def' = def /\ left' = left /\ stuck' = stuck /\ plan' = plan
  BY <1>1 DEF BeginStatement, ReadStatement
<1>3. node = NoNode /\ def = NoDefinition /\ left = NoOperand /\ plan = <<>> /\ live = 0
  BY <1>2, NoTreeFacts DEF NoTreePlaces
<1>4. stuck = FALSE
  BY <1>2 DEF LineInv, HandInv
<1>5. /\ node'.type = type /\ node'.columns = <<>> /\ node'.values = <<>>
      /\ node'.definitions = <<>> /\ node'.where = IF type = "UPDATE" THEN Unset ELSE NoWhere
  BY <1>2 DEF Blank
<1>6. node' \in Trees
  BY <1>2 DEF Blank, Trees, NoWhere
<1>7. pc' \in PlacesOf[node'.type] /\ pc' \notin HandPlaces \cup ValuePlaces
  BY <1>1, <1>2, <1>5, StatementFacts DEF FirstPlace, PlacesOf, HandPlaces, ValuePlaces
<1>8. Size(node') = 1
  <2>1. WhereSize(node'.where) = 0
    BY <1>5 DEF WhereSize
  <2>2. Size(node') = 1 + Len(node'.columns) + Len(node'.values) + Len(node'.definitions)
                      + WhereSize(node'.where)
    BY <1>6, TreeSize
  <2>3. Size(node') = 1 + 0 + 0 + 0 + 0
    BY <1>5, <2>1, <2>2
  <2> QED BY <2>3
<1>9. Growing(node)'
  BY <1>5, <1>7, MaxColumnsAssumption DEF Growing, ToSet, ValuePlaces
<1>10. HandInv'
  <2>1. pc' \notin WorkPlaces \cup NoTreePlaces
    BY <1>1, <1>5, <1>7, NotAtWork
  <2>2. HandInv /\ left # "UNKNOWN"
    BY <1>3 DEF LineInv, NoOperand
  <2> QED BY <1>2, <1>3, <1>4, <1>7, <2>1, <2>2 DEF HandInv, HandPlaces, NoTreePlaces
<1>11. live' = Size(node') + InHand'
  BY <1>2, <1>3, <1>7, <1>8 DEF InHand, HandPlaces
<1> QED BY <1>2, <1>3, <1>6, <1>7, <1>9, <1>10, <1>11, MoveStep

LEMMA NoTreeStep ==
  ASSUME pc' \in NoTreePlaces, node' = NoNode, def' = NoDefinition, left' = NoOperand,
         plan' = <<>>, live' = 0, stuck' \in BOOLEAN,
         pc' \in {"prompt", "dead", "damaged"} => stuck' = FALSE
  PROVE  LineInv'
<1>1. TreeInv'
  BY DEF TreeInv
<1>2. HandInv'
  BY DefinitionFacts, KindFacts DEF HandInv, WorkPlaces, NoTreePlaces, NoOperand
<1>3. Accounted'
  BY DEF Accounted, Size, InHand, NoTreePlaces
<1> QED BY <1>1, <1>2, <1>3 DEF LineInv

LEMMA DebugStep ==
  ASSUME LineInv, ReadDebug \/ DebugTokens \/ StartAgain
  PROVE  LineInv'
<1>1. CASE ReadDebug
  <2>1. /\ pc \in NoTreePlaces /\ pc' \in {"tokens", "schema"}
        /\ UNCHANGED <<node, def, left, stuck, live, plan>>
    BY <1>1 DEF ReadDebug, NoTreePlaces
  <2> QED BY <2>1, NoTreeFacts, NoTreeStep DEF NoTreePlaces
<1>2. CASE DebugTokens
  <2>1. PICK t \in Upcoming :
          IF t = "EOF" \/ (t = "IDENTIFIER" /\ pc = "schema")
          THEN pc' = "prompt" /\ UNCHANGED stuck
          ELSE Goto(t, pc)
    BY <1>2 DEF DebugTokens
  <2>2. pc \in {"tokens", "schema"} /\ UNCHANGED <<node, def, left, live, plan>>
    BY <1>2 DEF DebugTokens, execVars
  <2>3. /\ node = NoNode /\ def = NoDefinition /\ left = NoOperand /\ plan = <<>> /\ live = 0
        /\ stuck \in BOOLEAN
    BY <2>2, NoTreeFacts DEF NoTreePlaces
  <2>4. CASE t = "EOF" \/ (t = "IDENTIFIER" /\ pc = "schema")
    <3>1. stuck' = FALSE /\ pc' = "prompt"
      BY <2>1, <2>3, <2>4, UpcomingWhenStuck
    <3> QED BY <2>2, <2>3, <3>1, NoTreeStep DEF NoTreePlaces
  <2>5. CASE ~ (t = "EOF" \/ (t = "IDENTIFIER" /\ pc = "schema"))
    <3>1. pc' = pc /\ stuck' \in BOOLEAN
      BY <2>1, <2>5 DEF Goto
    <3> QED BY <2>2, <2>3, <3>1, NoTreeStep DEF NoTreePlaces
  <2> QED BY <2>4, <2>5
<1>3. CASE StartAgain
  <2>1. /\ pc \in {"dead", "damaged"} /\ pc' = "prompt" /\ live' = 0
        /\ UNCHANGED <<node, def, left, stuck, plan>>
    BY <1>3 DEF StartAgain
  <2>2. stuck = FALSE
    BY <2>1 DEF LineInv, HandInv
  <2> QED BY <2>1, <2>2, NoTreeFacts, NoTreeStep DEF NoTreePlaces
<1> QED BY <1>1, <1>2, <1>3

-----------------------------------------------------------------------------
\* The execution, which has the tree, and no plan until it is planned.
LEMMA WorkFacts ==
  ASSUME LineInv, pc \in WorkPlaces
  PROVE  /\ node \in Trees /\ Whole(node) /\ node.type \in Statements /\ Size(node) \in Int
         /\ live = Size(node) + Len(plan) /\ (pc # "planned" => plan = <<>>)
<1>1. node \in Trees /\ Whole(node)
  <2>1. node # NoNode
    BY DEF LineInv, TreeInv, WorkPlaces, NoTreePlaces
  <2>2. node \in Trees /\ node.type \in Statements
    BY <2>1 DEF LineInv, TreeInv, Trees
  <2>3. pc \notin PlacesOf[node.type]
    BY <2>2, NotAtWork
  <2> QED BY <2>1, <2>2, <2>3 DEF LineInv, TreeInv
<1>2. Size(node) \in Int /\ node.type \in Statements
  BY <1>1, SizeIsInt DEF Trees
<1>3. live = Size(node) + Len(plan)
  BY <1>2, LenProperties DEF LineInv, Accounted, InHand, WorkPlaces
<1> QED BY <1>1, <1>2, <1>3 DEF LineInv

LEMMA WorkStep ==
  ASSUME LineInv, pc \in WorkPlaces, pc' \in WorkPlaces,
         UNCHANGED <<node, def, left, stuck>>,
         plan' \in Seq(PlanTypes), plan' = <<>> \/ pc' = "planned",
         live' = Size(node) + Len(plan')
  PROVE  LineInv'
<1>1. node \in Trees /\ Whole(node) /\ Size(node) \in Int /\ Len(plan') \in Nat
  BY WorkFacts, LenProperties
<1>2. Whole(node)' /\ node' \in Trees
  BY <1>1 DEF Whole, HasOneKey
<1>3. TreeInv'
  BY <1>2, StatementFacts DEF TreeInv
<1>4. def = NoDefinition /\ left = NoOperand /\ stuck = FALSE
  BY DEF LineInv, HandInv
<1>5. HandInv'
  BY <1>4, DefinitionFacts, KindFacts DEF HandInv, WorkPlaces, NoTreePlaces, NoOperand
<1>6. Accounted' /\ live' \in Int
  BY <1>1 DEF Accounted, InHand, WorkPlaces
<1> QED BY <1>3, <1>5, <1>6 DEF LineInv

LEMMA DiesStep ==
  ASSUME LineInv, pc \in WorkPlaces, Dies
  PROVE  LineInv'
<1>1. def = NoDefinition /\ left = NoOperand /\ stuck = FALSE
  BY DEF LineInv, HandInv
<1>2. /\ pc' = "dead" /\ node' = NoNode /\ live' = 0 /\ plan' = <<>>
      /\ UNCHANGED <<def, left, stuck>>
  BY DEF Dies
<1> QED BY <1>1, <1>2, NoTreeStep DEF NoTreePlaces

LEMMA ShortSequences ==
  ASSUME NEW S, NEW a \in S, NEW b \in S
  PROVE  /\ <<>> \in Seq(S) /\ Len(<<>>) = 0
         /\ <<a>> \in Seq(S) /\ Len(<<a>>) = 1
         /\ <<a, b>> \in Seq(S) /\ Len(<<a, b>>) = 2
OBVIOUS

\* The number of nodes that build_plan says it leaves is that of the chain.
LEMMA PlanIsCounted ==
  ASSUME NEW n \in Trees, node = n, NEW where \in Conditions(n.where)
  PROVE  PlanOf(where) \in Seq(PlanTypes) /\ PlanNodes(where) = Len(PlanOf(where))
<1>1. n.where = NoWhere => ~ IsLookup(where)
  BY DEF Conditions, NoWhere, IsLookup, Everything
<1> DEFINE top == IF n.columns = <<>> THEN <<>> ELSE <<"PROJECTION">>
           rest == CASE n.where = NoWhere -> <<"TABLE_SCAN">>
                     [] IsLookup(where)   -> <<"PK_LOOKUP">>
                     [] OTHER             -> <<"FILTER", "TABLE_SCAN">>
<1>2. CASE n.type = "INSERT"
  <2>1. PlanOf(where) = <<"INSERT">> /\ PlanNodes(where) = 1
    BY <1>2 DEF PlanOf, PlanNodes
  <2>2. "INSERT" \in PlanTypes
    BY DEF PlanTypes
  <2> QED BY <2>1, <2>2, ShortSequences
<1>3. CASE n.type # "INSERT"
  <2>1. top \in Seq(PlanTypes) /\ Len(top) = IF n.columns = <<>> THEN 0 ELSE 1
    <3>1. "PROJECTION" \in PlanTypes
      BY DEF PlanTypes
    <3> QED BY <3>1, ShortSequences
  <2>2. /\ rest \in Seq(PlanTypes)
        /\ Len(rest) = IF n.where = NoWhere \/ IsLookup(where) THEN 1 ELSE 2
    <3>1. {"TABLE_SCAN", "PK_LOOKUP", "FILTER"} \subseteq PlanTypes
      BY DEF PlanTypes
    <3>2. CASE n.where = NoWhere
      <4>1. rest = <<"TABLE_SCAN">>
        BY <1>1, <3>2
      <4> QED BY <3>1, <3>2, <4>1, ShortSequences
    <3>3. CASE n.where # NoWhere /\ IsLookup(where)
      <4>1. rest = <<"PK_LOOKUP">>
        BY <3>3
      <4> QED BY <3>1, <3>3, <4>1, ShortSequences
    <3>4. CASE n.where # NoWhere /\ ~ IsLookup(where)
      <4>1. rest = <<"FILTER", "TABLE_SCAN">>
        BY <3>4
      <4> QED BY <3>1, <3>4, <4>1, ShortSequences
    <3> QED BY <3>2, <3>3, <3>4
  <2>3. PlanOf(where) = top \o rest
    BY <1>1, <1>3 DEF PlanOf
  <2>4. PlanOf(where) \in Seq(PlanTypes) /\ Len(PlanOf(where)) = Len(top) + Len(rest)
    <3> HIDE DEF top, rest
    <3> QED BY <2>1, <2>2, <2>3, ConcatProperties
  <2>5. PlanNodes(where) = (IF n.columns = <<>> THEN 0 ELSE 1)
                             + (IF n.where = NoWhere \/ IsLookup(where) THEN 1 ELSE 2)
    BY <1>1, <1>3 DEF PlanNodes
  <2> HIDE DEF top, rest
  <2> QED BY <2>1, <2>2, <2>4, <2>5
<1> QED BY <1>2, <1>3

LEMMA BuildPlanStep ==
  ASSUME LineInv, BuildPlan
  PROVE  LineInv'
<1>1. pc = "execute" /\ pc \in WorkPlaces
  BY DEF BuildPlan, Executing, WorkPlaces
<1>2. /\ node \in Trees /\ Whole(node) /\ Size(node) \in Int
      /\ live = Size(node) + Len(plan) /\ plan = <<>>
  BY <1>1, WorkFacts
<1>3. PICK where \in Conditions(node.where) :
        plan' = PlanOf(where) /\ live' = live + PlanNodes(where)
  BY DEF BuildPlan
<1>4. plan' \in Seq(PlanTypes) /\ PlanNodes(where) = Len(plan')
  BY <1>2, <1>3, PlanIsCounted
<1>5. live' = Size(node) + Len(plan')
  BY <1>2, <1>3, <1>4
<1>6. pc' = "planned" /\ UNCHANGED <<node, def, left, stuck>>
  BY DEF BuildPlan
<1> QED BY <1>1, <1>4, <1>5, <1>6, WorkStep DEF WorkPlaces

LEMMA ExecuteStep ==
  ASSUME LineInv, Execute
  PROVE  LineInv'
<1>1. CASE PrintTree \/ NoTable \/ Create \/ InsertRefused \/ InsertFailed \/ InsertRow
           \/ UpdateRefused \/ UpdateRowTooLong \/ LastRow \/ Answer
  <2>1. pc \in WorkPlaces
    BY <1>1 DEF PrintTree, NoTable, Create, InsertRefused, InsertFailed, InsertRow,
         UpdateRefused, UpdateRowTooLong, LastRow, Answer, Executing, WorkPlaces
  <2>2. End("done") \/ End("failed")
    BY <1>1 DEF PrintTree, NoTable, Create, InsertRefused, InsertFailed, InsertRow,
         UpdateRefused, UpdateRowTooLong, LastRow, Answer
  <2> QED BY <2>1, <2>2, EndStep
<1>2. CASE BeginUpdate \/ BeginDelete
  <2>1. /\ pc = "execute" /\ pc' \in {"updating", "deleting"}
        /\ UNCHANGED <<node, def, left, stuck, live, plan>>
    BY <1>2 DEF BeginUpdate, BeginDelete, Begin, Executing
  <2>2. live = Size(node) + Len(plan) /\ plan = <<>>
    BY <2>1, WorkFacts DEF WorkPlaces
  <2> QED BY <2>1, <2>2, WorkStep DEF WorkPlaces
<1>3. CASE UpdateRow \/ DeleteRow
  <2>1. /\ pc \in {"updating", "deleting"}
        /\ UNCHANGED <<pc, node, def, left, stuck, live, plan>>
    BY <1>3 DEF UpdateRow, DeleteRow, parserVars
  <2>2. live = Size(node) + Len(plan) /\ plan = <<>>
    BY <2>1, WorkFacts DEF WorkPlaces
  <2> QED BY <2>1, <2>2, WorkStep DEF WorkPlaces
<1>4. CASE BuildPlan
  BY <1>4, BuildPlanStep
<1>5. CASE FollowUndefined
  <2>1. pc \in WorkPlaces /\ Dies
    BY <1>5 DEF FollowUndefined, WorkPlaces
  <2> QED BY <2>1, DiesStep
<1> QED BY <1>1, <1>2, <1>3, <1>4, <1>5 DEF Execute

-----------------------------------------------------------------------------
LEMMA LineInvInit == CommandInit => LineInv
<1> SUFFICES ASSUME CommandInit PROVE LineInv
  OBVIOUS
<1>1. /\ pc = "prompt" /\ node = NoNode /\ def = NoDefinition /\ left = NoOperand
      /\ stuck = FALSE /\ live = 0 /\ plan = <<>>
  BY DEF CommandInit, ParserInit
<1>2. TreeInv
  BY <1>1 DEF TreeInv, NoTreePlaces
<1>3. HandInv
  BY <1>1, DefinitionFacts, KindFacts DEF HandInv, WorkPlaces, NoTreePlaces, NoOperand
<1>4. Accounted
  BY <1>1 DEF Accounted, Size, InHand
<1> QED BY <1>1, <1>2, <1>3, <1>4 DEF LineInv

\* Every line of input keeps the invariant.
LEMMA LineInvStep == LineInv /\ [CommandNext]_commandVars => LineInv'
<1> SUFFICES ASSUME LineInv, [CommandNext]_commandVars PROVE LineInv'
  OBVIOUS
<1>1. CASE ReadStatement
  BY <1>1, ReadStatementStep
<1>2. CASE ReadDebug \/ DebugTokens \/ StartAgain
  BY <1>2, DebugStep
<1>3. CASE ParseOn
  BY <1>3, ParseStep DEF ParseOn
<1>4. CASE Execute
  BY <1>4, ExecuteStep
<1>5. CASE UNCHANGED commandVars
  BY <1>5 DEF commandVars, parserVars, execVars, LineInv, TreeInv, HandInv, Whole, Growing,
       HasOneKey, Accounted, InHand
<1> QED BY <1>1, <1>2, <1>3, <1>4, <1>5 DEF CommandNext, Work

\* LineInv holds of every line that is read and executed.
THEOREM LineInvHolds == CommandSpec => []LineInv
<1>1. CommandInit => LineInv
  BY LineInvInit
<1>2. LineInv /\ [CommandNext]_commandVars => LineInv'
  BY LineInvStep
<1> QED BY <1>1, <1>2, PTL DEF CommandSpec

\* No line leaks a node of its tree or its plan, or frees one twice, but for an UPDATE
\* that has damaged the heap: whatever else the parser and the execution do with a
\* line, what is allocated is in the tree, in the plan or in hand.
THEOREM AllocationsAreAlwaysOwned == CommandSpec => []AllocationsAreOwned
<1>1. LineInv => AllocationsAreOwned
  BY DEF LineInv, Accounted, AllocationsAreOwned
<1> QED BY <1>1, LineInvHolds, PTL

\* An error return follows a WHERE that is unset only in an UPDATE, and there before
\* parse_expression has set it.
LEMMA UnsetInUpdate ==
  ASSUME LineInv, Parse, pc' \in {"dead", "damaged"}
  PROVE  BeforeWhere
<1>0. Unset # NoWhere
  BY DEF Unset, NoWhere
<1>1. pc \in Places
  BY DEF Parse, Require, SelectColumn, InsertValue, UpdateColumn, UpdateValue, CreateName,
       CreateType, CreateKey, CreateNext, Where, LeftOperand, Equal, RightOperand, Places
<1>2. /\ node \in Trees /\ node.type \in Statements /\ pc \in PlacesOf[node.type]
      /\ node.where = IF node.type = "UPDATE" THEN Unset ELSE NoWhere
  BY <1>1, ParsingFacts DEF Growing
<1>3. \A n, owned : Fail(n, owned) => n.where = Unset
  BY DEF Fail
<1>4. \A n : ~ Return(n)
  BY DEF Return
<1>5. \A t, place : Goto(t, place) \/ Skip(t, place) \/ AddColumn(t, place) \/ AddValue(t, place)
                      => pc' = place
  BY DEF Goto, Skip, AddColumn, AddValue
<1>6. With(NoWhere).where = NoWhere
  BY <1>2 DEF With, Trees
<1>7. ~ LeftOperand /\ ~ Equal /\ ~ RightOperand
  BY <1>0, <1>3, <1>4, <1>5, <1>6 DEF LeftOperand, Equal, RightOperand
<1>8. node.type = "UPDATE"
  <2>1. ASSUME Require PROVE node.where = Unset
    <3>1. PICK t \in Upcoming :
            IF t = Required[pc].token THEN Skip(t, Required[pc].next) ELSE Fail(node, 0)
      BY <2>1 DEF Require
    <3>2. Required[pc].next \notin {"dead", "damaged"}
      BY <2>1 DEF Require, Required
    <3> QED BY <1>3, <1>5, <3>1, <3>2
  <2>2. SelectColumn \/ InsertValue \/ UpdateColumn \/ UpdateValue => node.where = Unset
    BY <1>3, <1>4, <1>5 DEF SelectColumn, InsertValue, UpdateColumn, UpdateValue
  <2>3. CreateName \/ CreateType \/ CreateKey => node.where = Unset
    BY <1>3, <1>4, <1>5 DEF CreateName, CreateType, CreateKey
  <2>4. ASSUME CreateNext PROVE node.where = Unset
    <3>1. \A t, n : EndColumn(t, n) => n.where = Unset
      BY <1>3, <1>4, <1>5 DEF EndColumn
    <3>2. [node EXCEPT !.definitions = Append(@, def)].where = node.where
      BY <1>2 DEF Trees
    <3> QED BY <1>5, <2>4, <3>1, <3>2 DEF CreateNext
  <2>5. ~ Where
    BY <1>4, <1>5 DEF Where
  <2> QED BY <1>0, <1>2, <1>7, <2>1, <2>2, <2>3, <2>4, <2>5 DEF Parse
<1>9. pc \notin {"left", "equal", "right"}
  <2>1. Require => pc \notin {"left", "equal", "right"}
    BY DEF Require, Required
  <2> QED BY <1>7, <2>1 DEF Parse, SelectColumn, InsertValue, UpdateColumn, UpdateValue,
                            CreateName, CreateType, CreateKey, CreateNext, Where
<1> QED BY <1>2, <1>8, <1>9 DEF PlacesOf, BeforeWhere

\* Of all the lines that end in an error, only an UPDATE whose WHERE is not parsed yet
\* has ast_destroy follow a pointer that was never set.
THEOREM UnsetIsAlwaysAnUpdates == CommandSpec => UnsetIsAnUpdates
<1>1. LineInv /\ [CommandNext]_commandVars
        => [pc' \in {"dead", "damaged"} /\ pc \in Places => BeforeWhere]_commandVars
  <2> SUFFICES ASSUME LineInv, CommandNext, pc' \in {"dead", "damaged"}, pc \in Places
               PROVE  BeforeWhere
    OBVIOUS
  <2>1. pc \notin {"prompt", "tokens", "schema", "dead", "damaged"} \cup WorkPlaces
    BY DEF Places, Required, WorkPlaces
  <2>2. ~ ReadStatement /\ ~ ReadDebug /\ ~ DebugTokens /\ ~ StartAgain
    BY <2>1 DEF ReadStatement, BeginStatement, ReadDebug, DebugTokens, StartAgain
  <2>3. ~ Execute
    BY <2>1 DEF Execute, Executing, WorkPlaces, PrintTree, NoTable, Create, InsertRefused,
         InsertFailed, InsertRow, UpdateRefused, BeginUpdate, UpdateRow, UpdateRowTooLong,
         BeginDelete, DeleteRow, LastRow, BuildPlan, Answer, FollowUndefined
  <2> QED BY <2>2, <2>3, UnsetInUpdate DEF CommandNext, Work, ParseOn
<1> QED BY <1>1, LineInvHolds, PTL DEF CommandSpec, UnsetIsAnUpdates

\* The parse functions stay within the arrays of MAX_TABLE_COLUMNS elements.
THEOREM ListsAlwaysFit == CommandSpec => []ListsFit
<1>1. LineInv => ListsFit
  <2> SUFFICES ASSUME LineInv, node # NoNode
               PROVE  /\ Len(node.columns) <= MaxColumns /\ Len(node.values) <= MaxColumns
                      /\ Len(node.definitions) <= MaxColumns
    BY DEF ListsFit
  <2>1. Len(node.definitions) \in Nat
    BY LenProperties DEF LineInv, TreeInv, Trees
  <2> QED BY <2>1, MaxColumnsAssumption DEF LineInv, TreeInv, Whole, Growing
<1> QED BY <1>1, LineInvHolds, PTL

\* What the execution is given has the shape that it takes for granted.
THEOREM TreesAreAlwaysWhole == CommandSpec => []TreesAreWhole
<1>1. LineInv => TreesAreWhole
  <2> SUFFICES ASSUME LineInv, pc = "execute" PROVE TreesAreWhole
    BY DEF TreesAreWhole
  <2>1. node \in Trees /\ Whole(node)
    BY WorkFacts DEF WorkPlaces
  <2>2. node.where # Unset
    <3>1. node.where \in Seq(Kinds)
      BY <2>1 DEF Whole
    <3>2. Unset \notin Seq(Kinds)
      <4>1. Unset[1] \notin Kinds /\ 1 \in 1 .. Len(Unset)
        BY KindFacts DEF Unset
      <4> QED BY <4>1, ElementOfSeq
    <3> QED BY <3>1, <3>2
  <2>3. node.type = "CREATE" =>
          \E k \in DOMAIN node.definitions :
            /\ node.definitions[k] = [type |-> "INTEGER", primary |-> TRUE]
            /\ \A i \in DOMAIN node.definitions \ {k} : ~ node.definitions[i].primary
    <3> SUFFICES ASSUME node.type = "CREATE"
                 PROVE  \E k \in DOMAIN node.definitions :
                          /\ node.definitions[k] = [type |-> "INTEGER", primary |-> TRUE]
                          /\ \A i \in DOMAIN node.definitions \ {k} :
                               ~ node.definitions[i].primary
      OBVIOUS
    <3>1. PICK k \in DOMAIN node.definitions :
            /\ node.definitions[k].primary /\ node.definitions[k].type = "INTEGER"
            /\ \A i \in DOMAIN node.definitions : node.definitions[i].primary => i = k
      BY <2>1 DEF Whole, HasOneKey
    <3>2. node.definitions[k] \in Definitions
      BY <2>1, <3>1, ElementOfSeq, LenProperties DEF Trees
    <3>3. node.definitions[k] = [type |-> "INTEGER", primary |-> TRUE]
      BY <3>1, <3>2 DEF Definitions
    <3> QED BY <3>1, <3>3
  <2> QED BY <2>1, <2>2, <2>3 DEF TreesAreWhole, Whole
<1> QED BY <1>1, LineInvHolds, PTL

\* A token that the lexer does not know is never a value that is stored.
THEOREM UnknownsAlwaysStayInWhere == CommandSpec => []UnknownsStayInWhere
<1>1. LineInv => UnknownsStayInWhere
  BY WorkFacts DEF UnknownsStayInWhere, WorkPlaces, Whole
<1> QED BY <1>1, LineInvHolds, PTL

-----------------------------------------------------------------------------
\* Rows as bytes: what INSERT and UPDATE make of them.
ByteRows == {row \in [DOMAIN Columns -> UNION {[1 .. w -> Int] : w \in Nat}] : IsRow(row)}
Settings == [column : DOMAIN Columns, value : Seq(Int)]

LEMMA ColumnFacts ==
  /\ Len(Columns) \in Nat /\ DOMAIN Columns = 1 .. Len(Columns)
  /\ Primary \in DOMAIN Columns /\ Columns[Primary] = "INTEGER"
  /\ \A c \in DOMAIN Columns : Width(Columns[c]) \in Nat
  /\ Width(Columns[Primary]) = 1
<1>1. Len(Columns) \in Nat /\ DOMAIN Columns = 1 .. Len(Columns)
  BY ColumnsAssumption, LenProperties
<1>2. Primary \in DOMAIN Columns /\ Columns[Primary] = "INTEGER"
  BY ColumnsAssumption
<1>3. \A c \in DOMAIN Columns : Width(Columns[c]) \in Nat
  BY ValuesAssumption DEF Width
<1>4. Width(Columns[Primary]) = 1
  BY <1>2 DEF Width
<1> QED BY <1>1, <1>2, <1>3, <1>4

LEMMA LiteralsAreBytes ==
  ASSUME NEW kind \in Kinds
  PROVE  Literals(kind) \subseteq Seq(Int)
<1>1. Ints \subseteq Int /\ \A t \in Texts : t \in Seq(Nat \ {0})
  BY ValuesAssumption
<1>2. \A i \in Int : <<i>> \in Seq(Int)
  OBVIOUS
<1>3. \A t \in Texts : t \in Seq(Int)
  <2> TAKE t \in Texts
  <2>1. Len(t) \in Nat /\ t \in [1 .. Len(t) -> Nat \ {0}]
    BY <1>1, LenProperties
  <2>2. t \in [1 .. Len(t) -> Int]
    BY <2>1
  <2> QED BY <2>1, <2>2
<1>4. CASE kind = "INT"
  BY <1>1, <1>2, <1>4 DEF Literals
<1>5. CASE kind = "UNKNOWN"
  BY <1>2, <1>5 DEF Literals
<1>6. CASE kind = "STRING"
  BY <1>3, <1>6 DEF Literals
<1>7. CASE kind = "COLUMN"
  BY <1>7 DEF Literals
<1>8. CASE kind = "BOOLEAN"
  BY <1>2, <1>8 DEF Literals, Booleans
<1> QED BY <1>4, <1>5, <1>6, <1>7, <1>8, KindFacts

LEMMA AssignmentsAreSettings ==
  ASSUME NEW kind \in Kinds, NEW set \in Assignments(kind)
  PROVE  /\ set \in Settings
         /\ set.column \in DOMAIN Columns /\ Fits(kind, Columns[set.column])
         /\ set.value \in Literals(kind)
<1>1. PICK c \in {d \in DOMAIN Columns : Fits(kind, Columns[d])} :
        set \in [column : {c}, value : Literals(kind)]
  BY DEF Assignments
<1>2. set.value \in Seq(Int)
  BY <1>1, LiteralsAreBytes
<1> QED BY <1>1, <1>2 DEF Settings

LEMMA AssignedRow ==
  ASSUME NEW row \in ByteRows, NEW set \in Settings
  PROVE  /\ Assigned(row, set) \in ByteRows
         /\ Assigned(row, set)[set.column] = Copied(row[set.column], set.value)
         /\ \A c \in DOMAIN Columns : c # set.column => Assigned(row, set)[c] = row[c]
<1> DEFINE k == set.column
           new == Copied(row[k], set.value)
<1>1. k \in DOMAIN Columns /\ set.value \in Seq(Int)
  BY DEF Settings
<1>2. PICK w \in Nat : row[k] \in [1 .. w -> Int]
  BY <1>1 DEF ByteRows
<1>3. DOMAIN row[k] = 1 .. Width(Columns[k])
  BY <1>1 DEF ByteRows, IsRow
<1>4. new \in [1 .. w -> Int] /\ DOMAIN new = DOMAIN row[k]
  <2>1. new = [i \in 1 .. w |-> IF i <= Len(set.value) THEN set.value[i] ELSE row[k][i]]
    BY <1>2 DEF Copied
  <2>2. \A i \in 1 .. w : i <= Len(set.value) => set.value[i] \in Int
    BY <1>1, LenProperties
  <2> QED BY <1>2, <2>1, <2>2
<1>5. /\ Assigned(row, set) = [c \in DOMAIN Columns |-> IF c = k THEN new ELSE row[c]]
  BY <1>1 DEF Assigned, ByteRows
<1> HIDE DEF new, k
<1>6. Assigned(row, set) \in [DOMAIN Columns -> UNION {[1 .. v -> Int] : v \in Nat}]
  BY <1>1, <1>4, <1>5 DEF ByteRows
<1>7. IsRow(Assigned(row, set))
  BY <1>3, <1>4, <1>5 DEF ByteRows, IsRow
<1> QED BY <1>1, <1>5, <1>6, <1>7 DEF ByteRows, k, new

\* An UPDATE makes its assignments one after the other.
LEMMA UpdatedInOrder ==
  ASSUME NEW n \in Nat, NEW sets \in [1 .. n -> Settings], NEW row \in ByteRows
  PROVE  \E up \in [0 .. n -> ByteRows] :
           /\ up[0] = row /\ up[n] = Updated(row, sets)
           /\ \A i \in 1 .. n : up[i] = Assigned(up[i - 1], sets[i])
<1> DEFINE D == 1 .. n
           V == ByteRows
           F == [f \in [SUBSET D -> V] |->
                  [s \in SUBSET D |->
                     IF s = {} THEN row ELSE Assigned(f[s \ {Max(s)}], sets[Max(s)])]]
           h == [s \in SUBSET D |-> Cardinality(s)]
           iter == CHOOSE f : f = [s \in SUBSET D |->
                     IF s = {} THEN row ELSE Assigned(f[s \ {Max(s)}], sets[Max(s)])]
<1>1. \A s \in SUBSET D : /\ IsFiniteSet(s) /\ Cardinality(s) \in Nat /\ Cardinality(s) < n + 1
  <2>1. IsFiniteSet(D) /\ Cardinality(D) = n
    BY FS_Interval
  <2>2. \A s \in SUBSET D : IsFiniteSet(s) /\ Cardinality(s) <= Cardinality(D)
    BY <2>1, FS_Subset
  <2>3. \A s \in SUBSET D : Cardinality(s) \in Nat
    BY <2>2, FS_CardinalityType
  <2> QED BY <2>1, <2>2, <2>3
<1>2. \A s \in SUBSET D : s # {} =>
        Max(s) \in s /\ Max(s) \in D /\ s \ {Max(s)} \in SUBSET D
        /\ h[s \ {Max(s)}] < h[s] /\ \A x \in s : x <= Max(s)
  <2> SUFFICES ASSUME NEW s \in SUBSET D, s # {}
               PROVE  /\ Max(s) \in s /\ \A x \in s : x <= Max(s)
                      /\ Cardinality(s \ {Max(s)}) < Cardinality(s)
    OBVIOUS
  <2>1. Max(s) \in s /\ \A x \in s : x <= Max(s)
    <3>1. s \in SUBSET (0 .. n)
      OBVIOUS
    <3> QED BY <3>1, MaxBounds
  <2>2. IsFiniteSet(s) /\ Cardinality(s) \in Nat
    BY <1>1
  <2>3. Cardinality(s \ {Max(s)}) = Cardinality(s) - 1
    BY <2>1, <2>2, FS_RemoveElement
  <2> QED BY <2>1, <2>2, <2>3
<1>3. F \in [[SUBSET D -> V] -> [SUBSET D -> V]]
  <2>1. ASSUME NEW f \in [SUBSET D -> V], NEW s \in SUBSET D, s # {}
        PROVE  Assigned(f[s \ {Max(s)}], sets[Max(s)]) \in V
    <3>1. f[s \ {Max(s)}] \in V /\ sets[Max(s)] \in Settings
      <4>1. Max(s) \in D /\ s \ {Max(s)} \in SUBSET D
        BY <1>2, <2>1
      <4> QED BY <4>1
    <3> QED BY <3>1, AssignedRow
  <2>2. ASSUME NEW f \in [SUBSET D -> V]
        PROVE  [s \in SUBSET D |-> IF s = {} THEN row
                  ELSE Assigned(f[s \ {Max(s)}], sets[Max(s)])] \in [SUBSET D -> V]
    <3> HIDE DEF D, V
    <3> QED BY <2>1 DEF V
  <2> HIDE DEF D, V
  <2> QED BY <2>2
<1>4. Descends(F, SUBSET D, V, h)
  <2> SUFFICES ASSUME NEW f \in [SUBSET D -> V], NEW g \in [SUBSET D -> V], NEW s \in SUBSET D,
                      \A q \in SUBSET D : h[q] < h[s] => f[q] = g[q]
               PROVE  F[f][s] = F[g][s]
    BY DEF Descends
  <2>1. s # {} => f[s \ {Max(s)}] = g[s \ {Max(s)}]
    BY <1>2
  <2> HIDE DEF D, V, h
  <2> QED BY <2>1
<1>5. \E f \in [SUBSET D -> V] : f = F[f]
  <2>1. h \in [SUBSET D -> Nat] /\ n + 1 \in Nat /\ \A s \in SUBSET D : h[s] < n + 1
    BY <1>1
  <2>2. [SUBSET D -> V] # {}
    <3>1. [s \in SUBSET D |-> row] \in [SUBSET D -> V]
      OBVIOUS
    <3> HIDE DEF D, V
    <3> QED BY <3>1
  <2> HIDE DEF F, D, V, h
  <2>3. Recursive(F, SUBSET D, V, h, n + 1)
    BY <1>3, <1>4, <2>1, <2>2 DEF Recursive
  <2> QED BY <2>3, RecursionHasSolution
<1>6. /\ iter = [s \in SUBSET D |->
                   IF s = {} THEN row ELSE Assigned(iter[s \ {Max(s)}], sets[Max(s)])]
  <2>1. PICK f \in [SUBSET D -> V] : f = F[f]
    BY <1>5
  <2>2. f = [s \in SUBSET D |-> IF s = {} THEN row
               ELSE Assigned(f[s \ {Max(s)}], sets[Max(s)])]
    <3> HIDE DEF D, V
    <3> QED BY <2>1
  <2> HIDE DEF D, V, F
  <2> QED BY <2>2
<1>7. Updated(row, sets) = iter[D]
  <2>1. DOMAIN sets = D
    OBVIOUS
  <2> HIDE DEF D
  <2> QED BY <2>1 DEF Updated, FoldLeft, MapThenFoldSet
<1> HIDE DEF iter
<1> DEFINE up == [i \in 0 .. n |-> iter[1 .. i]]
<1>8. \A i \in 0 .. n : 1 .. i \in SUBSET D
  OBVIOUS
<1>9. iter[1 .. 0] = row
  BY <1>6, <1>8
<1>10. \A i \in 1 .. n : iter[1 .. i] = Assigned(iter[1 .. i - 1], sets[i])
  <2> TAKE i \in 1 .. n
  <2> DEFINE s == 1 .. i
  <2>1. s \in SUBSET D /\ s # {} /\ i \in s /\ \A x \in s : x <= i
    <3>1. i \in Nat /\ 1 <= i /\ i <= n
      OBVIOUS
    <3>2. i \in s
      BY <3>1
    <3>3. \A x \in s : x <= i
      OBVIOUS
    <3>4. s \in SUBSET D
      OBVIOUS
    <3> HIDE DEF s, D
    <3> QED BY <3>2, <3>3, <3>4
  <2>2. Max(s) \in s /\ \A x \in s : x <= Max(s)
    <3> HIDE DEF s
    <3> QED BY <1>2, <2>1
  <2>3. Max(s) = i
    BY <2>1, <2>2
  <2>4. s \ {i} = 1 .. i - 1
    OBVIOUS
  <2> HIDE DEF s, D
  <2>5. iter[s] = Assigned(iter[s \ {Max(s)}], sets[Max(s)])
    BY <1>6, <2>1
  <2>6. iter[s] = Assigned(iter[1 .. i - 1], sets[i])
    BY <2>3, <2>4, <2>5
  <2> QED BY <2>6 DEF s
<1> DEFINE Wrong == {i \in Nat : i <= n /\ up[i] \notin ByteRows}
<1>11. Wrong = {}
  <2> SUFFICES ASSUME Wrong # {} PROVE FALSE
    OBVIOUS
  <2>1. PICK i \in Wrong : \A j \in Wrong : i <= j
    <3>1. Wrong \in SUBSET Nat
      OBVIOUS
    <3> HIDE DEF Wrong
    <3> QED BY <3>1, LeastNumber
  <2>2. i # 0
    BY <1>9
  <2>3. i \in 1 .. n /\ i - 1 \in 0 .. n /\ i - 1 \notin Wrong
    <3>1. i \in Nat /\ i <= n
      OBVIOUS
    <3> HIDE DEF Wrong
    <3> QED BY <2>1, <2>2, <3>1
  <2>4. iter[1 .. i - 1] \in ByteRows
    BY <2>3
  <2>5. iter[1 .. i] \in ByteRows
    <3>1. sets[i] \in Settings
      BY <2>3
    <3> QED BY <1>10, <2>3, <2>4, <3>1, AssignedRow
  <2> QED BY <2>3, <2>5
<1>12. up \in [0 .. n -> ByteRows]
  <2>1. \A i \in 0 .. n : up[i] \in ByteRows
    <3> TAKE i \in 0 .. n
    <3>1. i \in Nat /\ i <= n
      OBVIOUS
    <3> HIDE DEF up
    <3> QED BY <1>11, <3>1
  <2> QED BY <2>1
<1>13. up[0] = row /\ up[n] = Updated(row, sets)
  BY <1>7, <1>9
<1>14. \A i \in 1 .. n : up[i] = Assigned(up[i - 1], sets[i])
  BY <1>10
<1> QED BY <1>12, <1>13, <1>14

\* What an UPDATE or an INSERT leaves in a column that it does not assign to, and in
\* one that it assigns to once.
LEMMA UpdatedRow ==
  ASSUME NEW n \in Nat, NEW sets \in [1 .. n -> Settings], NEW row \in ByteRows
  PROVE  /\ Updated(row, sets) \in ByteRows
         /\ \A c \in DOMAIN Columns :
              (\A i \in 1 .. n : sets[i].column # c) => Updated(row, sets)[c] = row[c]
         /\ \A k \in 1 .. n :
              (\A i \in 1 .. n : i # k => sets[i].column # sets[k].column) =>
                Updated(row, sets)[sets[k].column] = Copied(row[sets[k].column], sets[k].value)
<1>1. PICK up \in [0 .. n -> ByteRows] :
        /\ up[0] = row /\ up[n] = Updated(row, sets)
        /\ \A i \in 1 .. n : up[i] = Assigned(up[i - 1], sets[i])
  BY UpdatedInOrder
<1>2. ASSUME NEW c \in DOMAIN Columns, NEW a \in 0 .. n, NEW b \in 0 .. n, a <= b,
             \A i \in a + 1 .. b : sets[i].column # c
      PROVE  up[b][c] = up[a][c]
  <2> DEFINE Wrong == {i \in Nat : a <= i /\ i <= b /\ up[i][c] # up[a][c]}
  <2>1. Wrong = {}
    <3> SUFFICES ASSUME Wrong # {} PROVE FALSE
      OBVIOUS
    <3>1. PICK i \in Wrong : \A j \in Wrong : i <= j
      <4>1. Wrong \in SUBSET Nat
        OBVIOUS
      <4> HIDE DEF Wrong
      <4> QED BY <4>1, LeastNumber
    <3>2. i \in Nat /\ a <= i /\ i <= b /\ i # a /\ up[i][c] # up[a][c]
      OBVIOUS
    <3>3. i \in a + 1 .. b /\ i \in 1 .. n /\ i - 1 \in 0 .. n /\ i - 1 \in Nat
          /\ a <= i - 1 /\ i - 1 <= b /\ ~ (i <= i - 1)
      BY <3>2
    <3>4. up[i - 1][c] = up[a][c]
      BY <3>1, <3>3
    <3>5. up[i][c] = up[i - 1][c]
      <4>1. sets[i] \in Settings /\ up[i - 1] \in ByteRows /\ c # sets[i].column
        BY <1>2, <3>3
      <4> QED BY <1>1, <3>3, <4>1, AssignedRow
    <3> QED BY <3>2, <3>4, <3>5
  <2>2. b \in Nat /\ a <= b /\ b <= b
    BY <1>2
  <2> QED BY <2>1, <2>2
<1>3. ASSUME NEW c \in DOMAIN Columns, \A i \in 1 .. n : sets[i].column # c
      PROVE  Updated(row, sets)[c] = row[c]
  <2>1. 0 \in 0 .. n /\ n \in 0 .. n /\ 0 <= n /\ 0 + 1 = 1
    OBVIOUS
  <2> QED BY <1>1, <1>2, <1>3, <2>1
<1>4. ASSUME NEW k \in 1 .. n, \A i \in 1 .. n : i # k => sets[i].column # sets[k].column
      PROVE  Updated(row, sets)[sets[k].column] = Copied(row[sets[k].column], sets[k].value)
  <2> DEFINE c == sets[k].column
  <2>1. /\ sets[k] \in Settings /\ c \in DOMAIN Columns
        /\ k - 1 \in 0 .. n /\ k \in 0 .. n /\ 0 \in 0 .. n /\ n \in 0 .. n
        /\ 0 <= k - 1 /\ k <= n
        /\ \A i \in 0 + 1 .. k - 1 : i \in 1 .. n /\ i # k
        /\ \A i \in k + 1 .. n : i \in 1 .. n /\ i # k
    BY DEF Settings
  <2>2. up[k - 1][c] = row[c]
    <3>1. \A i \in 0 + 1 .. k - 1 : sets[i].column # c
      BY <1>4, <2>1
    <3> HIDE DEF c
    <3>2. up[k - 1][c] = up[0][c]
      BY <1>2, <2>1, <3>1
    <3> QED BY <1>1, <3>2
  <2>3. up[n][c] = up[k][c]
    BY <1>2, <1>4, <2>1
  <2>4. up[k][c] = Copied(up[k - 1][c], sets[k].value)
    <3>1. up[k - 1] \in ByteRows
      BY <2>1
    <3> QED BY <1>1, <2>1, <3>1, AssignedRow
  <2> QED BY <1>1, <2>2, <2>3, <2>4
<1>5. Updated(row, sets) \in ByteRows
  <2>1. n \in 0 .. n
    OBVIOUS
  <2> QED BY <1>1, <2>1
<1> QED BY <1>3, <1>4, <1>5

-----------------------------------------------------------------------------
\* While an UPDATE goes through the rows: those that it has yet to come to are as they
\* were, the others as they should become, and none has changed if a text is too long.
UpdatingInv ==
  /\ DOMAIN rows = DOMAIN before
  /\ \E n \in Nat : stmt.sets \in [1 .. n -> Settings]
  /\ \A k \in todo : rows[k] = before[k]
  /\ \A k \in DOMAIN before \ todo : IsUpdated(k, rows)
  /\ (\E i \in DOMAIN stmt.sets : TooLong(stmt.sets[i])) => rows = before

DeletingInv ==
  /\ DOMAIN rows \subseteq DOMAIN before
  /\ \A k \in todo : rows[k] = before[k]
  /\ \A k \in DOMAIN before \ todo : IsDeleted(k, rows)

\* The inductive invariant behind StatementsAreWhole and the rest of CommandTypeOK.
RowsInv ==
  /\ rows \in [DOMAIN rows -> ByteRows]
  /\ DOMAIN rows \subseteq Ints /\ IsFiniteSet(DOMAIN rows)
  /\ todo \subseteq DOMAIN rows
  /\ mode \in DOMAIN Supported /\ reply \in {"none", "done", "failed"}
  /\ pc = "updating" => UpdatingInv
  /\ pc = "deleting" => DeletingInv
  /\ todo = {} \/ pc \in {"updating", "deleting"}

\* The row that an INSERT makes of its values.
LEMMA InsertedRow ==
  ASSUME node \in Trees, InsertFits, NEW sets \in InsertSets
  PROVE  /\ Updated(ZeroRow, sets) \in ByteRows
         /\ \E key \in Ints : /\ sets[Primary].value = <<key>>
                              /\ Updated(ZeroRow, sets)[Primary] = <<key>>
<1> DEFINE n == Len(Columns)
<1>1. /\ n \in Nat /\ DOMAIN Columns = 1 .. n /\ Primary \in 1 .. n
      /\ Columns[Primary] = "INTEGER" /\ Width(Columns[Primary]) = 1
      /\ \A c \in DOMAIN Columns : Width(Columns[c]) \in Nat
  BY ColumnFacts
<1> HIDE DEF n
<1>2. \A c \in 1 .. n : node.values[c] \in Kinds
  <2>1. node.values \in Seq(Kinds) /\ Len(node.values) = n
    BY DEF Trees, InsertFits, n
  <2> QED BY <2>1, ElementOfSeq
<1>3. DOMAIN sets = 1 .. n /\ sets = [c \in 1 .. n |-> sets[c]]
      /\ \A c \in 1 .. n : sets[c].column = c /\ sets[c] \in Assignments(node.values[c])
  BY <1>1 DEF InsertSets
<1>4. \A c \in 1 .. n : sets[c] \in Settings
  BY <1>2, <1>3, AssignmentsAreSettings
<1>5. sets \in [1 .. n -> Settings]
  BY <1>3, <1>4
<1>6. ZeroRow \in ByteRows
  <2>1. \A c \in DOMAIN Columns : [i \in 1 .. Width(Columns[c]) |-> 0]
                                    \in UNION {[1 .. w -> Int] : w \in Nat}
    BY <1>1
  <2> QED BY <2>1 DEF ZeroRow, ByteRows, IsRow
<1>7. PICK key \in Ints : sets[Primary].value = <<key>>
  <2>1. Fits(node.values[Primary], "INTEGER")
        /\ sets[Primary].value \in Literals(node.values[Primary])
    BY <1>1, <1>2, <1>3, AssignmentsAreSettings
  <2>2. node.values[Primary] \in {"INT", "UNKNOWN"}
    BY <2>1 DEF Fits
  <2>3. 0 \in Ints
    BY ValuesAssumption
  <2> QED BY <2>1, <2>2, <2>3 DEF Literals
<1>8. Updated(ZeroRow, sets) \in ByteRows
      /\ Updated(ZeroRow, sets)[Primary] = Copied(ZeroRow[Primary], <<key>>)
  <2>1. Primary \in 1 .. n /\ sets[Primary].column = Primary
        /\ \A i \in 1 .. n : i # Primary => sets[i].column # sets[Primary].column
    BY <1>1, <1>3
  <2>2. n \in Nat
    BY <1>1
  <2>3. Updated(ZeroRow, sets)[sets[Primary].column]
          = Copied(ZeroRow[sets[Primary].column], sets[Primary].value)
    BY <1>5, <1>6, <2>1, <2>2, UpdatedRow
  <2>4. Updated(ZeroRow, sets) \in ByteRows
    BY <1>5, <1>6, <2>2, UpdatedRow
  <2> QED BY <1>7, <2>1, <2>3, <2>4
<1>9. Copied(ZeroRow[Primary], <<key>>) = <<key>>
  <2>1. ZeroRow[Primary] = [i \in 1 .. 1 |-> 0]
    BY <1>1 DEF ZeroRow
  <2>2. Len(<<key>>) = 1
    OBVIOUS
  <2>3. Copied(ZeroRow[Primary], <<key>>) = [i \in 1 .. 1 |-> key]
    BY <2>1, <2>2 DEF Copied
  <2>4. [i \in 1 .. 1 |-> key] = <<key>>
    OBVIOUS
  <2> QED BY <2>3, <2>4
<1> QED BY <1>7, <1>8, <1>9

\* A step that leaves the rows alone, and after which no statement goes through them.
LEMMA QuietStep ==
  ASSUME RowsInv, rows' = rows, todo' = {},
         mode' \in DOMAIN Supported, reply' \in {"none", "done", "failed"},
         pc' \notin {"updating", "deleting"}
  PROVE  RowsInv'
BY DEF RowsInv

LEMMA InsertRowKeepsRows ==
  ASSUME LineInv, RowsInv, InsertRow
  PROVE  RowsInv' /\ (KeysAgree => KeysAgree')
<1>1. pc = "execute" /\ InsertFits /\ End("done")
  BY DEF InsertRow, Executing
<1>2. node \in Trees
  BY <1>1, WorkFacts DEF WorkPlaces
<1>3. PICK sets \in InsertSets :
        /\ ~ InsertFails(sets)
        /\ rows' = Stored(sets[Primary].value[1], Updated(ZeroRow, sets))
  BY DEF InsertRow
<1>4. PICK key \in Ints : /\ Updated(ZeroRow, sets) \in ByteRows
                          /\ sets[Primary].value = <<key>>
                          /\ Updated(ZeroRow, sets)[Primary] = <<key>>
  BY <1>1, <1>2, InsertedRow
<1> DEFINE new == Updated(ZeroRow, sets)
<1>5. /\ new \in ByteRows /\ new[Primary] = <<key>> /\ key \notin DOMAIN rows
      /\ rows' = [k \in DOMAIN rows \cup {key} |-> IF k = key THEN new ELSE rows[k]]
  <2>1. sets[Primary].value[1] = key
    BY <1>4
  <2> QED BY <1>3, <1>4, <2>1 DEF Stored, InsertFails
<1> HIDE DEF new
<1>6. /\ DOMAIN rows' = DOMAIN rows \cup {key}
      /\ \A k \in DOMAIN rows' : rows'[k] = IF k = key THEN new ELSE rows[k]
  BY <1>5
<1>7. rows' \in [DOMAIN rows' -> ByteRows]
  BY <1>4, <1>5 DEF RowsInv
<1>8. DOMAIN rows' \subseteq Ints /\ IsFiniteSet(DOMAIN rows')
  <2>1. IsFiniteSet(DOMAIN rows \cup {key})
    BY FS_AddElement DEF RowsInv
  <2> QED BY <2>1, <1>4, <1>6 DEF RowsInv
<1>9. /\ todo' = {} /\ mode' = "run" /\ reply' = "done" /\ pc' = "prompt"
  BY <1>1 DEF End
<1>10. "run" \in DOMAIN Supported
  BY DEF Supported
<1>11. KeysAgree => KeysAgree'
  BY <1>5, <1>6 DEF KeysAgree
<1> QED BY <1>7, <1>8, <1>9, <1>10, <1>11 DEF RowsInv

LEMMA BeginKeepsRows ==
  ASSUME LineInv, RowsInv, BeginUpdate \/ BeginDelete
  PROVE  RowsInv' /\ rows' = rows
<1>1. node \in Trees /\ pc = "execute"
  <2>1. pc = "execute"
    BY DEF BeginUpdate, BeginDelete, Executing
  <2> QED BY <2>1, WorkFacts DEF WorkPlaces
<1>2. /\ pc' \in {"updating", "deleting"} /\ rows' = rows /\ before' = rows
      /\ todo' = DOMAIN rows /\ mode' = mode /\ reply' = reply
  BY DEF BeginUpdate, BeginDelete, Begin
<1>3. pc' = "updating" => \E n \in Nat : stmt'.sets \in [1 .. n -> Settings]
  <2> SUFFICES ASSUME pc' = "updating" PROVE \E n \in Nat : stmt'.sets \in [1 .. n -> Settings]
    OBVIOUS
  <2>1. BeginUpdate
    BY DEF BeginDelete, Begin
  <2>2. PICK sets \in [DOMAIN node.values -> UNION {Assignments(k) : k \in Kinds}] :
          Begin("updating", sets)
    BY <2>1 DEF BeginUpdate
  <2>3. stmt'.sets = sets
    BY <2>2 DEF Begin, Stmt
  <2>4. DOMAIN node.values = 1 .. Len(node.values) /\ Len(node.values) \in Nat
    BY <1>1, LenProperties DEF Trees
  <2>5. \A i \in DOMAIN node.values : sets[i] \in Settings
    BY AssignmentsAreSettings
  <2> QED BY <2>3, <2>4, <2>5
<1>4. UpdatingInv' \/ pc' # "updating"
  BY <1>2, <1>3 DEF UpdatingInv
<1>5. DeletingInv'
  BY <1>2 DEF DeletingInv
<1> QED BY <1>2, <1>4, <1>5 DEF RowsInv

\* The row that UPDATE or DELETE comes to is one that it has not come to before.
LEMMA CellIsNext ==
  ASSUME RowsInv, todo # {}
  PROVE  Cell \in todo /\ Cell \in DOMAIN rows
<1>1. todo \in SUBSET Int
  BY ValuesAssumption DEF RowsInv
<1>2. IsFiniteSet(todo)
  BY FS_Subset DEF RowsInv
<1>3. Cell \in todo
  BY <1>1, <1>2, MinBounds DEF Cell
<1> QED BY <1>3 DEF RowsInv

LEMMA UpdateRowKeepsRows ==
  ASSUME RowsInv, UpdateRow
  PROVE  RowsInv' /\ (KeysAgree /\ ~ SetsKey => KeysAgree')
<1> DEFINE c == Cell
           new == Updated(rows[c], stmt.sets)
<1>1. /\ pc = "updating" /\ pc' = pc /\ todo' = todo \ {c} /\ todo # {}
      /\ UNCHANGED <<mode, stmt, before, reply>>
  BY DEF UpdateRow, parserVars
<1>2. PICK hit \in Hits(rows[c], stmt.where) :
        /\ hit => \A i \in DOMAIN stmt.sets : ~ TooLong(stmt.sets[i])
        /\ rows' = IF hit THEN [rows EXCEPT ![c] = Updated(@, stmt.sets)] ELSE rows
  BY DEF UpdateRow
<1>3. c \in todo /\ c \in DOMAIN rows
  BY <1>1, CellIsNext
<1>4. PICK n \in Nat : stmt.sets \in [1 .. n -> Settings]
  BY <1>1 DEF RowsInv, UpdatingInv
<1>5. rows[c] \in ByteRows /\ rows \in [DOMAIN rows -> ByteRows]
  BY <1>3 DEF RowsInv
<1>6. /\ new \in ByteRows
      /\ (\A i \in 1 .. n : stmt.sets[i].column # Primary) => new[Primary] = rows[c][Primary]
  BY <1>4, <1>5, ColumnFacts, UpdatedRow
<1>7. rows' = [k \in DOMAIN rows |-> IF k = c /\ hit THEN new ELSE rows[k]]
  BY <1>2, <1>3, <1>5
<1>8. UpdatingInv /\ rows[c] = before[c] /\ DOMAIN rows = DOMAIN before
  BY <1>1, <1>3 DEF RowsInv, UpdatingInv
<1>9. new = Updated(before[c], stmt.sets) /\ hit \in Hits(before[c], stmt.where)
  BY <1>2, <1>8
<1> HIDE DEF new, c
<1>10. rows' \in [DOMAIN rows' -> ByteRows] /\ DOMAIN rows' = DOMAIN rows
  BY <1>5, <1>6, <1>7
<1>11. \A k \in todo' : rows'[k] = before[k]
  BY <1>1, <1>7, <1>8 DEF UpdatingInv, RowsInv
<1>12. ASSUME NEW k \in DOMAIN before \ todo' PROVE IsUpdated(k, rows')
  <2>1. CASE k = c
    <3>1. rows'[c] = IF hit THEN Updated(before[c], stmt.sets) ELSE before[c]
      BY <1>3, <1>7, <1>8, <1>9
    <3> QED BY <2>1, <3>1, <1>8, <1>9, <1>10 DEF IsUpdated
  <2>2. CASE k # c
    <3>1. IsUpdated(k, rows)
      BY <2>2, <1>1, <1>8, <1>12 DEF UpdatingInv
    <3>2. rows'[k] = rows[k]
      BY <2>2, <1>7, <1>8
    <3> QED BY <3>1, <3>2, <1>10 DEF IsUpdated
  <2> QED BY <2>1, <2>2
<1>13. (\E i \in DOMAIN stmt.sets : TooLong(stmt.sets[i])) => rows' = before
  BY <1>2, <1>8 DEF UpdatingInv
<1>14. UpdatingInv'
  <2>1. \A k \in DOMAIN before' \ todo' : IsUpdated(k, rows)'
    BY <1>1, <1>12 DEF IsUpdated
  <2> QED BY <2>1, <1>1, <1>4, <1>8, <1>10, <1>11, <1>13 DEF UpdatingInv
<1>15. KeysAgree /\ ~ SetsKey => KeysAgree'
  <2> SUFFICES ASSUME KeysAgree, ~ SetsKey, NEW k \in DOMAIN rows'
               PROVE  rows'[k][Primary] = <<k>>
    BY DEF KeysAgree
  <2>1. \A i \in 1 .. n : stmt.sets[i].column # Primary
    BY <1>1, <1>4 DEF SetsKey
  <2> QED BY <2>1, <1>3, <1>6, <1>7, <1>10 DEF KeysAgree
<1>16. todo' \subseteq DOMAIN rows' /\ pc' = "updating"
  BY <1>1, <1>10 DEF RowsInv
<1> QED BY <1>1, <1>10, <1>14, <1>15, <1>16 DEF RowsInv

LEMMA DeleteRowKeepsRows ==
  ASSUME RowsInv, DeleteRow
  PROVE  RowsInv' /\ (KeysAgree => KeysAgree')
<1> DEFINE c == Cell
<1>1. /\ pc = "deleting" /\ pc' = pc /\ todo' = todo \ {c} /\ todo # {}
      /\ UNCHANGED <<mode, stmt, before, reply>>
  BY DEF DeleteRow, parserVars
<1>2. PICK hit \in Hits(rows[c], stmt.where) :
        rows' = IF hit THEN Restrict(rows, DOMAIN rows \ {c}) ELSE rows
  BY DEF DeleteRow
<1>3. c \in todo /\ c \in DOMAIN rows
  BY <1>1, CellIsNext
<1>4. rows \in [DOMAIN rows -> ByteRows]
  BY DEF RowsInv
<1>5. /\ DOMAIN rows' = IF hit THEN DOMAIN rows \ {c} ELSE DOMAIN rows
      /\ \A k \in DOMAIN rows' : rows'[k] = rows[k]
      /\ rows' = [k \in DOMAIN rows' |-> rows'[k]]
  BY <1>2, <1>4 DEF Restrict
<1>6. DeletingInv /\ rows[c] = before[c] /\ c \in DOMAIN before
  BY <1>1, <1>3 DEF RowsInv, DeletingInv
<1> HIDE DEF c
<1>7. /\ DOMAIN rows' \subseteq DOMAIN rows /\ rows' \in [DOMAIN rows' -> ByteRows]
      /\ todo' \subseteq DOMAIN rows'
  BY <1>1, <1>4, <1>5 DEF RowsInv
<1>8. IsFiniteSet(DOMAIN rows') /\ DOMAIN rows' \subseteq Ints
  BY <1>7, FS_Subset DEF RowsInv
<1>9. \A k \in todo' : rows'[k] = before[k]
  BY <1>1, <1>5, <1>6, <1>7 DEF DeletingInv
<1>10. ASSUME NEW k \in DOMAIN before \ todo' PROVE IsDeleted(k, rows')
  <2>1. DOMAIN rows' \subseteq DOMAIN before
    BY <1>6, <1>7 DEF DeletingInv
  <2>2. CASE k = c
    <3>1. hit \in Hits(before[c], stmt.where)
      BY <1>2, <1>6
    <3>2. IF hit THEN c \notin DOMAIN rows' ELSE c \in DOMAIN rows' /\ rows'[c] = before[c]
      BY <1>3, <1>5, <1>6
    <3> QED BY <2>1, <2>2, <3>1, <3>2 DEF IsDeleted
  <2>3. CASE k # c
    <3>1. IsDeleted(k, rows)
      BY <2>3, <1>1, <1>6, <1>10 DEF DeletingInv
    <3>2. k \in DOMAIN rows' <=> k \in DOMAIN rows
      BY <2>3, <1>5
    <3> QED BY <2>1, <3>1, <3>2, <1>5 DEF IsDeleted
  <2> QED BY <2>2, <2>3
<1>11. DeletingInv'
  <2>1. \A k \in DOMAIN before' \ todo' : IsDeleted(k, rows)'
    BY <1>1, <1>10 DEF IsDeleted
  <2> QED BY <2>1, <1>1, <1>6, <1>7, <1>9 DEF DeletingInv
<1>12. KeysAgree => KeysAgree'
  BY <1>5, <1>7 DEF KeysAgree
<1> QED BY <1>1, <1>7, <1>8, <1>11, <1>12 DEF RowsInv

\* Parsing neither begins nor ends among the rows.
LEMMA ParseGoes ==
  ASSUME Parse
  PROVE  pc \notin {"updating", "deleting"} /\ pc' \notin {"updating", "deleting"}
<1>0. pc \notin {"updating", "deleting"}
  <2>1. pc \in Places
    BY DEF Parse, Require, SelectColumn, InsertValue, UpdateColumn, UpdateValue, CreateName,
         CreateType, CreateKey, CreateNext, Where, LeftOperand, Equal, RightOperand, Places
  <2> QED BY <2>1 DEF Places, Required
<1>1. \A n, owned : Fail(n, owned) => pc' \notin {"updating", "deleting"}
  BY DEF Fail
<1>2. \A n : Return(n) => pc' \notin {"updating", "deleting"}
  BY DEF Return
<1>3. \A t, place : Goto(t, place) \/ Skip(t, place) \/ AddColumn(t, place) \/ AddValue(t, place)
                      => pc' = place
  BY DEF Goto, Skip, AddColumn, AddValue
<1>4. ASSUME Require PROVE pc' \notin {"updating", "deleting"}
  <2>1. PICK t \in Upcoming :
          IF t = Required[pc].token THEN Skip(t, Required[pc].next) ELSE Fail(node, 0)
    BY <1>4 DEF Require
  <2>2. Required[pc].next \notin {"updating", "deleting"}
    BY <1>4 DEF Require, Required
  <2> QED BY <1>1, <1>3, <2>1, <2>2
<1>5. SelectColumn => pc' \notin {"updating", "deleting"}
  BY <1>1, <1>2, <1>3 DEF SelectColumn
<1>6. InsertValue \/ UpdateColumn \/ UpdateValue => pc' \notin {"updating", "deleting"}
  BY <1>1, <1>2, <1>3 DEF InsertValue, UpdateColumn, UpdateValue
<1>7. CreateName \/ CreateType \/ CreateKey => pc' \notin {"updating", "deleting"}
  BY <1>1, <1>2, <1>3 DEF CreateName, CreateType, CreateKey
<1>8. CreateNext => pc' \notin {"updating", "deleting"}
  <2>1. \A t, n : EndColumn(t, n) => pc' \notin {"updating", "deleting"}
    BY <1>1, <1>2, <1>3 DEF EndColumn
  <2> QED BY <1>3, <2>1 DEF CreateNext
<1>9. Where \/ LeftOperand \/ Equal \/ RightOperand => pc' \notin {"updating", "deleting"}
  BY <1>1, <1>2, <1>3 DEF Where, LeftOperand, Equal, RightOperand
<1> QED BY <1>0, <1>4, <1>5, <1>6, <1>7, <1>8, <1>9 DEF Parse

LEMMA LineKeepsRows ==
  ASSUME RowsInv, ReadStatement \/ ReadDebug \/ DebugTokens \/ ParseOn \/ BuildPlan
  PROVE  RowsInv' /\ rows' = rows
<1>1. /\ rows' = rows /\ todo' = {} /\ pc' \notin {"updating", "deleting"}
      /\ mode' \in DOMAIN Supported /\ reply' \in {"none", "done", "failed"}
  <2>1. /\ mode \in DOMAIN Supported /\ reply \in {"none", "done", "failed"}
        /\ pc \notin {"updating", "deleting"} => todo = {}
    BY DEF RowsInv
  <2>2. CASE ReadStatement
    <3>1. PICK m \in DOMAIN Supported : \E type \in Supported[m] :
                 BeginStatement(type) /\ mode' = m
      BY <2>2 DEF ReadStatement
    <3>2. PICK type \in Supported[m] : BeginStatement(type)
      BY <3>1
    <3>3. type \in Statements
      BY <3>1, <3>2, StatementFacts DEF Supported
    <3>4. FirstPlace[type] \notin {"updating", "deleting"}
      BY <3>3, StatementFacts DEF FirstPlace
    <3> QED BY <2>1, <2>2, <3>1, <3>2, <3>4 DEF ReadStatement, BeginStatement
  <2>3. CASE ReadDebug
    BY <2>1, <2>3 DEF ReadDebug
  <2>4. CASE DebugTokens
    BY <2>1, <2>4 DEF DebugTokens, execVars, Goto
  <2>5. CASE ParseOn
    <3>1. "run" \in DOMAIN Supported
      BY DEF Supported
    <3> QED BY <2>1, <2>5, <3>1, ParseGoes DEF ParseOn
  <2>6. CASE BuildPlan
    BY <2>1, <2>6 DEF BuildPlan, Executing
  <2> QED BY <2>2, <2>3, <2>4, <2>5, <2>6
<1> QED BY <1>1, QuietStep

Ends == PrintTree \/ NoTable \/ Create \/ InsertRefused \/ InsertFailed \/ UpdateRefused
          \/ UpdateRowTooLong \/ LastRow \/ Answer \/ FollowUndefined

LEMMA EndKeepsRows ==
  ASSUME RowsInv, Ends
  PROVE  RowsInv' /\ rows' = rows
<1>1. rows' = rows
  BY DEF Ends, PrintTree, NoTable, Create, InsertRefused, InsertFailed, UpdateRefused,
         UpdateRowTooLong, LastRow, Answer, FollowUndefined, Dies
<1>2. End("done") \/ End("failed") \/ Dies
  BY DEF Ends, PrintTree, NoTable, Create, InsertRefused, InsertFailed, UpdateRefused,
         UpdateRowTooLong, LastRow, Answer, FollowUndefined
<1>3. /\ todo' = {} /\ mode' = "run" /\ pc' \in {"prompt", "dead"}
      /\ reply' \in {"none", "done", "failed"}
  BY <1>2 DEF End, Dies, RowsInv
<1>4. "run" \in DOMAIN Supported
  BY DEF Supported
<1> QED BY <1>1, <1>3, <1>4, QuietStep

LEMMA RowsInvInit == CommandInit => RowsInv /\ KeysAgree
<1> SUFFICES ASSUME CommandInit PROVE RowsInv /\ KeysAgree
  OBVIOUS
<1>1. rows = <<>> /\ todo = {} /\ mode = "run" /\ reply = "none" /\ pc = "prompt"
  BY DEF CommandInit, ParserInit, NoRows
<1>2. DOMAIN rows = {} /\ rows = [k \in {} |-> 0]
  BY <1>1
<1>3. rows \in [DOMAIN rows -> ByteRows]
  BY <1>2
<1>4. IsFiniteSet(DOMAIN rows)
  BY <1>2, FS_EmptySet
<1>5. "run" \in DOMAIN Supported
  BY DEF Supported
<1> QED BY <1>1, <1>2, <1>3, <1>4, <1>5 DEF RowsInv, KeysAgree

\* The process that is started again has nothing under way.
LEMMA StartKeepsRows ==
  ASSUME RowsInv, StartAgain
  PROVE  RowsInv' /\ KeysAgree'
<1>1. rows' = NoRows /\ todo' = {} /\ reply' = "none" /\ pc' = "prompt" /\ mode' = "run"
  BY DEF StartAgain, RowsInv
<1>2. DOMAIN rows' = {} /\ rows' = [k \in {} |-> 0]
  BY <1>1 DEF NoRows
<1>3. rows' \in [DOMAIN rows' -> ByteRows]
  BY <1>2
<1>4. IsFiniteSet(DOMAIN rows')
  BY <1>2, FS_EmptySet
<1>5. "run" \in DOMAIN Supported
  BY DEF Supported
<1> QED BY <1>1, <1>2, <1>3, <1>4, <1>5 DEF RowsInv, KeysAgree

-----------------------------------------------------------------------------
\* Every step keeps the invariant, and the keys of the rows if it does not assign
\* to one.
LEMMA RowsInvStep ==
  ASSUME LineInv, RowsInv, [CommandNext]_commandVars
  PROVE  RowsInv' /\ (KeysAgree /\ ~ SetsKey => KeysAgree')
<1>1. rows' = rows => (KeysAgree => KeysAgree')
  BY DEF KeysAgree
<1>2. CASE ReadStatement \/ ReadDebug \/ DebugTokens \/ ParseOn \/ BuildPlan
  BY <1>1, <1>2, LineKeepsRows
<1>3. CASE Ends
  BY <1>1, <1>3, EndKeepsRows
<1>4. CASE StartAgain
  BY <1>4, StartKeepsRows
<1>5. CASE InsertRow
  BY <1>5, InsertRowKeepsRows
<1>6. CASE BeginUpdate \/ BeginDelete
  BY <1>1, <1>6, BeginKeepsRows
<1>7. CASE UpdateRow
  BY <1>7, UpdateRowKeepsRows
<1>8. CASE DeleteRow
  BY <1>8, DeleteRowKeepsRows
<1>9. CASE UNCHANGED commandVars
  <2>1. UNCHANGED <<rows, todo, mode, reply, pc, stmt, before>>
    BY <1>9 DEF commandVars, parserVars, execVars
  <2>2. UpdatingInv' = UpdatingInv /\ DeletingInv' = DeletingInv
    BY <2>1 DEF UpdatingInv, DeletingInv, IsUpdated, IsDeleted
  <2> QED BY <1>1, <2>1, <2>2 DEF RowsInv
<1> QED BY <1>2, <1>3, <1>4, <1>5, <1>6, <1>7, <1>8, <1>9
        DEF CommandNext, Work, Execute, Ends

\* RowsInv holds of the rows before, during and after every statement.
THEOREM RowsInvHolds == CommandSpec => []RowsInv
<1>1. CommandInit => RowsInv
  BY RowsInvInit
<1>2. LineInv /\ RowsInv /\ [CommandNext]_commandVars => RowsInv'
  BY RowsInvStep
<1> QED BY <1>1, <1>2, LineInvHolds, PTL DEF CommandSpec

\* No step but an UPDATE that assigns to the primary key lets the key of a cell and
\* the key of its row differ.
THEOREM KeysStayInStep == CommandSpec => KeysAgreeUntilUpdated
<1>1. LineInv /\ RowsInv /\ [CommandNext]_commandVars
        => [KeysAgree /\ ~ SetsKey => KeysAgree']_commandVars
  BY RowsInvStep
<1> QED BY <1>1, LineInvHolds, RowsInvHolds, PTL DEF CommandSpec, KeysAgreeUntilUpdated

\* An UPDATE or a DELETE that ends well has done what it should to each row that its
\* WHERE selected when it began, and one that fails has changed none, however many
\* rows there are and whatever it assigns.
THEOREM StatementsAreAlwaysWhole == CommandSpec => StatementsAreWhole
<1>1. LineInv /\ RowsInv /\ [CommandNext]_commandVars
        => [pc' = "prompt" /\ pc \in {"updating", "deleting"} => EndsWhole]_commandVars
  <2> SUFFICES ASSUME RowsInv, [CommandNext]_commandVars,
                      pc' = "prompt", pc \in {"updating", "deleting"}
               PROVE  EndsWhole \/ UNCHANGED commandVars
    OBVIOUS
  <2>1. CASE UNCHANGED commandVars
    BY <2>1
  <2>2. CASE CommandNext
    <3>1. LastRow \/ UpdateRowTooLong
      <4>1. ~ ParseOn
        BY ParseGoes DEF ParseOn
      <4>2. ~ (ReadStatement \/ ReadDebug \/ DebugTokens \/ StartAgain)
        BY DEF ReadStatement, BeginStatement, ReadDebug, DebugTokens, StartAgain
      <4>3. ~ (PrintTree \/ NoTable \/ Create \/ InsertRefused \/ InsertFailed \/ InsertRow
                 \/ UpdateRefused \/ BeginUpdate \/ BeginDelete \/ BuildPlan \/ Answer)
        BY DEF PrintTree, NoTable, Create, InsertRefused, InsertFailed, InsertRow, UpdateRefused,
             BeginUpdate, BeginDelete, BuildPlan, Answer, Executing
      <4>4. ~ (UpdateRow \/ DeleteRow \/ FollowUndefined)
        BY DEF UpdateRow, DeleteRow, FollowUndefined, Dies, parserVars
      <4> QED BY <2>2, <4>1, <4>2, <4>3, <4>4 DEF CommandNext, Work, Execute
    <3>2. CASE LastRow
      <4>1. reply' = "done" /\ rows' = rows /\ todo = {}
        BY <3>2 DEF LastRow, End
      <4>2. \A k \in DOMAIN before :
              IF pc = "updating" THEN IsUpdated(k, rows) ELSE IsDeleted(k, rows)
        BY <4>1 DEF RowsInv, UpdatingInv, DeletingInv
      <4> QED BY <4>1, <4>2 DEF EndsWhole
    <3>3. CASE UpdateRowTooLong
      <4>1. /\ reply' = "failed" /\ rows' = rows /\ pc = "updating"
            /\ \E i \in DOMAIN stmt.sets : TooLong(stmt.sets[i])
        BY <3>3 DEF UpdateRowTooLong, End
      <4> QED BY <4>1 DEF RowsInv, UpdatingInv, EndsWhole
    <3> QED BY <3>1, <3>2, <3>3
  <2> QED BY <2>1, <2>2
<1> QED BY <1>1, LineInvHolds, RowsInvHolds, PTL DEF CommandSpec, StatementsAreWhole

-----------------------------------------------------------------------------
LEMMA SizeIsNat ==
  ASSUME NEW n, n = NoNode \/ n \in Trees
  PROVE  Size(n) \in Nat
<1>1. CASE n = NoNode
  BY <1>1 DEF Size
<1>2. CASE n \in Trees
  <2>1. Len(n.columns) \in Nat /\ Len(n.values) \in Nat /\ Len(n.definitions) \in Nat
    BY <1>2, LenProperties DEF Trees
  <2>2. WhereSize(n.where) \in Nat
    <3>1. CASE n.where \in {NoWhere, Unset}
      BY <3>1 DEF WhereSize
    <3>2. CASE n.where \notin {NoWhere, Unset}
      <4>1. n.where \in Seq(Kinds) /\ n.where # <<>>
        BY <1>2, <3>2 DEF Trees, NoWhere
      <4>2. Len(n.where) \in Nat /\ Len(n.where) # 0
        BY <4>1, LenProperties, EmptySeq
      <4> QED BY <3>2, <4>2 DEF WhereSize
    <3> QED BY <3>1, <3>2
  <2>3. Size(n) = 1 + Len(n.columns) + Len(n.values) + Len(n.definitions)
                  + WhereSize(n.where)
    BY <1>2, TreeSize
  <2>4. \A a, b, c, d \in Nat : 1 + a + b + c + d \in Nat
    OBVIOUS
  <2>5. 1 + Len(n.columns) + Len(n.values) + Len(n.definitions) + WhereSize(n.where) \in Nat
    BY <2>1, <2>2, <2>4, Zenon
  <2> QED BY <2>3, <2>5, Zenon
<1> QED BY <1>1, <1>2

\* The parser stays at its places with at most two operands in a WHERE, every value
\* that is stored has the width of its column, and no count falls below zero.
THEOREM CommandTypesHold == CommandSpec => []CommandTypeOK
<1>1. LineInv /\ RowsInv => CommandTypeOK
  <2> SUFFICES ASSUME LineInv, RowsInv PROVE CommandTypeOK
    OBVIOUS
  <2>1. pc \in Places \cup {"prompt", "tokens", "schema", "execute", "planned", "updating",
                            "deleting", "dead", "damaged"}
    <3>1. \A type \in Statements : PlacesOf[type] \subseteq Places
      BY StatementFacts DEF PlacesOf, Places, Required
    <3> QED BY <3>1 DEF LineInv, TreeInv, Trees, NoTreePlaces, WorkPlaces
  <2>2. ASSUME node # NoNode
        PROVE  /\ node.type \in Statements
               /\ node.columns \in Seq({"COLUMN"}) /\ node.values \in Seq(Kinds)
               /\ node.where = Unset \/ (node.where \in Seq(Kinds) /\ Len(node.where) <= 2)
               /\ Len(node.columns) <= MaxColumns /\ Len(node.values) <= MaxColumns
               /\ Len(node.definitions) <= MaxColumns
    <3>1. node \in Trees /\ (Whole(node) \/ Growing(node))
      BY <2>2 DEF LineInv, TreeInv
    <3>2. /\ node.type \in Statements /\ node.columns \in Seq({"COLUMN"})
          /\ node.values \in Seq(Kinds) /\ Len(node.definitions) \in Nat
      BY <3>1, LenProperties DEF Trees
    <3>3. NoWhere \in Seq(Kinds) /\ Len(NoWhere) <= 2
      BY DEF NoWhere
    <3> QED BY <3>1, <3>2, <3>3, MaxColumnsAssumption DEF Whole, Growing
  <2>3. def.type \in ColumnTypes \cup {"NONE"} /\ left \in Kinds \cup {NoOperand}
        /\ stuck \in BOOLEAN
    BY DEF LineInv, HandInv
  <2>4. \A k \in DOMAIN rows : IsRow(rows[k])
    <3>1. \A k \in DOMAIN rows : rows[k] \in ByteRows
      BY DEF RowsInv
    <3> QED BY <3>1 DEF ByteRows
  <2>5. live \in Nat
    <3>1. Size(node) \in Nat
      BY SizeIsNat DEF LineInv, TreeInv
    <3>2. Len(plan) \in Nat
      BY LenProperties DEF LineInv
    <3>3. InHand \in Nat
      BY DEF InHand
    <3> QED BY <3>1, <3>2, <3>3 DEF LineInv, Accounted
  <2> QED BY <2>1, <2>2, <2>3, <2>4, <2>5 DEF CommandTypeOK, ListsFit, RowsInv
<1> QED BY <1>1, LineInvHolds, RowsInvHolds, PTL
=============================================================================
