------------------------------ MODULE Catalog ------------------------------
(***************************************************************************)
(* The catalog, which is page 0 of the file (catalog_node_* in             *)
(* src/src/btree.c), and CREATE TABLE (create_table in src/src/table.c).   *)
(*                                                                         *)
(* A slot of the catalog is raw memory: create_table copies the name over  *)
(* the bytes that are there, and a CREATE TABLE that stops half way leaves *)
(* what it has written.  A name is what comes before the first zero byte;  *)
(* of a name that fills its field strlen reads on behind the local copy,   *)
(* and whether it is found depends on what is there.  Names differ in more *)
(* than case, and none is longer than its field.                           *)
(***************************************************************************)
EXTENDS Integers, Sequences, FiniteSets, FiniteSetsExt

CONSTANTS
  Chars,       \* the bytes of names; 0 is the end of a name
  NameSize,    \* the bytes of the name field
  Schemas,     \* the column lists in use
  MaxTables,   \* MAX_CATALOG_TABLES
  MaxPages,    \* TABLES_MAX_PAGES
  MaxSessions  \* bound: how often the database is opened

ASSUME CharsAssumption == Chars \subseteq Nat \ {0}
\* A column list: how many columns, which of them, from 0, is the PRIMARY KEY (the
\* parser lets no CREATE TABLE through without one: TreesAreWhole in module
\* CommandProperties), and which one's name is too long for its field (-1: none).
ASSUME SchemasAssumption == Schemas \subseteq [count : Nat, pk : Nat, long : Int]
ASSUME LimitsAssumption ==
  /\ NameSize \in Nat \ {0} /\ MaxTables \in Nat
  /\ MaxPages \in Nat \ {0} /\ MaxSessions \in Nat \ {0}

VARIABLES
  slots,      \* the table entries of page 0, numbered from 0
  numTables,  \* the table count at its start
  numPages, dirty,
  disk,       \* page 0 in the file, and the pages the file has
  created,    \* history: the tables that CREATE TABLE has made, and the file's
  reply,      \* history: how the last CREATE TABLE ended
  missing,    \* history: pages that the file did not have when a pager_close wrote
              \* others and not them
  intact,     \* page 0 has not been written to as if it were a node
  session

vars == <<slots, numTables, numPages, dirty, disk, created, reply, missing, intact, session>>

PageNum == 0 .. MaxPages - 1
SlotNum == 0 .. MaxTables - 1
Name == UNION {[1 .. n -> Chars] : n \in 1 .. NameSize}
Field == [1 .. NameSize -> Chars \cup {0}]
Entry == [field : Field, root : PageNum, count : Nat, pk : Nat]
\* clean: the slot was empty when CREATE TABLE came to it.
Table ==
  [name : Name, slot : SlotNum, root : PageNum, count : Nat, pk : Nat, clean : BOOLEAN]

EmptySlot == [field |-> [i \in 1 .. NameSize |-> 0], root |-> 0, count |-> 0, pk |-> 0]

TypeOK ==
  /\ slots \in [SlotNum -> Entry]
  /\ numTables \in 0 .. MaxTables
  /\ numPages \in 1 .. MaxPages
  /\ dirty \subseteq 0 .. numPages - 1
  /\ disk \in [slots : [SlotNum -> Entry], numTables : 0 .. MaxTables, pages : 1 .. MaxPages]
  /\ created \in [now : SUBSET Table, saved : SUBSET Table]
  /\ reply \in {"none", "created", "exists", "too_many", "too_long"}
  /\ missing \subseteq PageNum \ {0} /\ intact \in BOOLEAN
  /\ session \in 1 .. MaxSessions

-----------------------------------------------------------------------------
\* strlen and strncasecmp see a name field up to its first zero byte.
IsFull(field) == \A i \in 1 .. NameSize : field[i] # 0
NameIn(field) ==
  SubSeq(field, 1, Cardinality({i \in 1 .. NameSize : \A j \in 1 .. i : field[j] # 0}))

\* memcpy of a name over a field.
Copied(field, name) == [i \in 1 .. NameSize |-> IF i <= Len(name) THEN name[i] ELSE field[i]]

\* A slot that has the name, and one that surely does: of a full field, strlen
\* may give the length of the name or a greater one.
HasName(slot, name) == NameIn(slot.field) = name
SurelyHasName(slot, name) == HasName(slot, name) /\ ~ IsFull(slot.field)

\* catalog_node_find_table: the first slot with the name; numTables if none.
FindTable(name) ==
  {i \in 0 .. numTables :
     /\ i < numTables => HasName(slots[i], name)
     /\ \A j \in 0 .. i - 1 : ~ SurelyHasName(slots[j], name)}

MayExist(name) == \E i \in FindTable(name) : i < numTables
MayBeNew(name) == numTables \in FindTable(name)

-----------------------------------------------------------------------------
\* A new file: open_database_and_initialize_catalog clears page 0.
Init ==
  /\ slots = [i \in SlotNum |-> EmptySlot]
  /\ numTables = 0 /\ numPages = 1 /\ dirty = {}
  /\ disk = [slots |-> slots, numTables |-> 0, pages |-> 1]
  /\ created = [now |-> {}, saved |-> {}]
  /\ reply = "none" /\ missing = {} /\ intact = TRUE /\ session = 1

\* process_command: the table exists.
CreateExisting ==
  /\ intact
  /\ \E name \in Name : MayExist(name)
  /\ reply' = "exists"
  /\ UNCHANGED <<slots, numTables, numPages, dirty, disk, created, missing, intact, session>>

\* create_table: the catalog is full.
CreateTooMany ==
  /\ intact
  /\ numTables >= MaxTables
  /\ \E name \in Name : MayBeNew(name)
  /\ reply' = "too_many"
  /\ UNCHANGED <<slots, numTables, numPages, dirty, disk, created, missing, intact, session>>

\* The slot as create_table leaves it: the name over the bytes of the field,
\* the root, the count, and the index of the primary key if that was reached.
Filled(name, schema) ==
  [slots[numTables] EXCEPT
     !.field = Copied(@, name), !.root = numPages, !.count = schema.count,
     !.pk = IF schema.long < 0 \/ schema.pk < schema.long THEN schema.pk ELSE @]

\* Both kinds of CREATE TABLE that get as far as a page.
Fill(name, schema) ==
  /\ intact
  /\ numTables < MaxTables /\ numPages < MaxPages
  /\ MayBeNew(name)
  /\ slots' = [slots EXCEPT ![numTables] = Filled(name, schema)]
  /\ numPages' = numPages + 1

\* The history of a CREATE TABLE that has come to its end.
Created(name, schema) ==
  /\ created' = [created EXCEPT !.now = @ \cup
       {[name |-> name, slot |-> numTables, root |-> numPages, count |-> schema.count,
         pk |-> schema.pk, clean |-> slots[numTables] = EmptySlot]}]
  /\ reply' = "created"

\* Mutant: the root page is not marked dirty.
CreateTableRootUnmarked(name, schema) ==
  /\ schema.long < 0
  /\ Fill(name, schema)
  /\ numTables' = numTables + 1
  /\ dirty' = dirty \cup {0}
  /\ Created(name, schema)
  /\ UNCHANGED <<disk, missing, intact, session>>

\* Mutant: the catalog page is not marked dirty.
CreateTableUnmarked(name, schema) ==
  /\ schema.long < 0
  /\ Fill(name, schema)
  /\ numTables' = numTables + 1
  /\ dirty' = dirty \cup {numPages}
  /\ Created(name, schema)
  /\ UNCHANGED <<disk, missing, intact, session>>

\* create_table: the slot is filled and counted, page 0 and the root are marked.
CreateTable(name, schema) ==
  /\ schema.long < 0
  /\ Fill(name, schema)
  /\ numTables' = numTables + 1
  /\ dirty' = dirty \cup {0, numPages}
  /\ Created(name, schema)
  /\ UNCHANGED <<disk, missing, intact, session>>

\* Mutant: the table is counted before its columns are looked at.
CreateTooLongCounted(name, schema) ==
  /\ schema.long >= 0
  /\ Fill(name, schema)
  /\ numTables' = numTables + 1
  /\ reply' = "too_long"
  /\ UNCHANGED <<dirty, disk, created, missing, intact, session>>

\* create_table: a column name is too long.  The slot stays as far as it was
\* filled, and the page is not given back.
CreateTooLong(name, schema) ==
  /\ schema.long >= 0
  /\ Fill(name, schema)
  /\ reply' = "too_long"
  /\ UNCHANGED <<numTables, dirty, disk, created, missing, intact, session>>

\* An INSERT takes a page for the tree of some table.
Grow ==
  /\ intact
  /\ numTables > 0 /\ numPages < MaxPages
  /\ numPages' = numPages + 1
  /\ dirty' = dirty \cup {numPages}
  /\ UNCHANGED <<slots, numTables, disk, created, reply, missing, intact, session>>

\* A statement fetches a page that a tree or the catalog names and the file does
\* not have: it reads as an empty leaf, and is counted if it lies behind the end.
\* An INSERT marks it.
FetchMissing(p) ==
  /\ intact
  /\ numTables > 0
  /\ numPages' = Max({numPages, p + 1})
  /\ dirty' \in {dirty, dirty \cup {p}}
  /\ UNCHANGED <<slots, numTables, disk, created, reply, missing, intact, session>>

\* Such a leaf is not a root and its parent is page 0: when it is full,
\* split_leaf_node puts the separator there; and if two tables share it, the
\* longer rows of one write past its end.  What page 0 holds then is not followed.
OverwriteCatalog ==
  /\ intact
  /\ missing # {} /\ numTables > 0
  /\ intact' = FALSE
  /\ UNCHANGED <<slots, numTables, numPages, dirty, disk, created, reply, missing, session>>

-----------------------------------------------------------------------------
\* Page 0 as it is read back from the file.
Reopened ==
  /\ session < MaxSessions
  /\ session' = session + 1
  /\ slots' = disk'.slots /\ numTables' = disk'.numTables /\ numPages' = disk'.pages
  /\ dirty' = {} /\ reply' = "none"

\* The loop of pager_close has written the pages of saved, and no others: the
\* writes of the others failed, which nobody notices, or the process died before
\* it came to them.  A write stores its page or nothing (module Pager has others).
Close(saved) ==
  /\ intact
  /\ disk' = [slots     |-> IF 0 \in saved THEN slots ELSE disk.slots,
              numTables |-> IF 0 \in saved THEN numTables ELSE disk.numTables,
              pages     |-> Max({disk.pages} \cup {p + 1 : p \in saved})]
  /\ created' = LET kept == IF 0 \in dirty \ saved THEN created.saved ELSE created.now
                IN  [now |-> kept, saved |-> kept]
  /\ missing' = missing \cup {p \in dirty \ saved : p >= disk.pages}
  /\ Reopened
  /\ UNCHANGED intact

\* The program ends and is started again.
Restart == Close(dirty)

\* It ends, but only a part of what is marked gets into the file.
PartialClose == \E saved \in SUBSET dirty : saved \notin {{}, dirty} /\ Close(saved)

\* The process dies before pager_close, and is started again.
Crash ==
  /\ intact
  /\ UNCHANGED <<disk, missing, intact>>
  /\ created' = [created EXCEPT !.now = created.saved]
  /\ Reopened

\* create_table when no page is left: leaf_node_init writes to the NULL that
\* pager_get_page returns, and the process dies.
CreateNoPage ==
  /\ numTables < MaxTables /\ numPages = MaxPages
  /\ \E name \in Name : MayBeNew(name)
  /\ Crash

Next ==
  \/ CreateExisting \/ CreateTooMany
  \/ \E name \in Name, schema \in Schemas : CreateTable(name, schema) \/ CreateTooLong(name, schema)
  \/ Grow
  \/ \E p \in missing : FetchMissing(p)
  \/ OverwriteCatalog
  \/ Restart \/ PartialClose \/ Crash \/ CreateNoPage

Spec == Init /\ [][Next]_vars

-----------------------------------------------------------------------------
IsEntry(i, t) ==
  i < numTables /\ slots[i].root = t.root /\ slots[i].count = t.count /\ slots[i].pk = t.pk

\* The table is found, whatever strlen gives; if its name fills its field, it may
\* be.
IsFound(t) ==
  IF Len(t.name) < NameSize THEN \A i \in FindTable(t.name) : IsEntry(i, t)
  ELSE \E i \in FindTable(t.name) : IsEntry(i, t)

\* Every table that CREATE TABLE has made is found under its name, with the
\* root page, columns and primary key it was made with, in this session and, if
\* page 0 was saved after it, in every later one.
CreatedTablesAreFound == intact => \A t \in created.now : IsFound(t)

\* So is every table that was made in an empty slot, whatever became of the
\* slots around it, and however many tables have a name that fills its field and
\* that CREATE TABLE may take for new once more.
CleanTablesAreFound == intact => \A t \in created.now : t.clean => IsFound(t)

\* The catalog lists as many tables as were made: a CREATE TABLE that stopped
\* half way is not listed, and a restart neither loses nor adds one; a pager_close
\* that is cut short keeps those of this session all or none.
OnlyCreatedTables == intact => numTables = Cardinality(created.now)

\* The first n slots have roots among the first pages, each one its own; a page
\* that is missing may be behind them, and the root of several.
RootsWithin(entries, n, pages, without) ==
  \A i \in 0 .. n - 1 :
    /\ entries[i].root \in (1 .. pages - 1) \cup without
    /\ \A j \in 0 .. n - 1 :
         i # j => entries[i].root # entries[j].root \/ entries[i].root \in without

\* Two tables have the same root page only if a pager_close that wrote others did
\* not write that one, and a root is a page that is in use, so that the next page
\* handed out is nobody's, but for the same ones.  It is pager_close that saves
\* page 0 before the roots it names; failed CREATE TABLEs, restarts, deaths before
\* pager_close and failed writes of other pages do not make two tables share one.
RootsAreDistinct == intact => RootsWithin(slots, numTables, numPages, missing)

\* The pages that the file has if the program ends now and all goes well.
Kept == dirty \cup 0 .. disk.pages - 1

\* The inductive invariant behind RootsAreDistinct and OnlyCreatedTables: the
\* same holds of the file, page 0 is as in the file unless it is marked, and
\* every root is kept or missing.
CatalogInv ==
  /\ TypeOK
  /\ RootsWithin(slots, numTables, numPages, missing)
  /\ numTables = Cardinality(created.now)
  /\ RootsWithin(disk.slots, disk.numTables, disk.pages, missing)
  /\ disk.pages <= numPages
  /\ 0 \notin dirty => /\ numTables = disk.numTables
                       /\ \A i \in 0 .. numTables - 1 : slots[i].root = disk.slots[i].root
  /\ \A i \in 0 .. numTables - 1 : slots[i].root \in Kept \cup missing
  /\ IsFiniteSet(created.now) /\ IsFiniteSet(created.saved)
  /\ Cardinality(created.saved) = disk.numTables
  /\ \A t \in created.now : t.slot < numTables
  /\ \A t \in created.saved : t.slot < disk.numTables
=============================================================================
