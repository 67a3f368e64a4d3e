---------------------------- MODULE CatalogProofs ----------------------------
(***************************************************************************)
(* Proofs about module Catalog: CatalogInv is inductive, for any number of *)
(* tables, pages, names and sessions.                                      *)
(***************************************************************************)
EXTENDS Catalog, RecursionProofs, SequenceTheorems, FiniteSetTheorems

LEMMA Limits == MaxTables \in Nat /\ MaxPages \in Nat /\ MaxPages >= 1
                /\ NameSize \in Nat /\ NameSize >= 1
BY LimitsAssumption

\* A name over a field is a field.
LEMMA CopiedIsField ==
  ASSUME NEW field \in Field, NEW name \in Name
  PROVE  Copied(field, name) \in Field
<1>1. PICK n \in 1 .. NameSize : name \in [1 .. n -> Chars]
  BY DEF Name
<1>2. Len(name) = n
  BY <1>1, Limits, LenProperties
<1>3. \A i \in 1 .. NameSize : i <= n => name[i] \in Chars
  BY <1>1, Limits
<1> QED BY <1>2, <1>3 DEF Copied, Field

LEMMA FilledIsEntry ==
  ASSUME TypeOK, numTables < MaxTables, numPages < MaxPages,
         NEW name \in Name, NEW schema \in Schemas
  PROVE  /\ Filled(name, schema) \in Entry
         /\ Filled(name, schema).root = numPages
<1>1. numTables \in SlotNum /\ numPages \in PageNum /\ slots[numTables] \in Entry
  BY Limits DEF TypeOK, SlotNum, PageNum
<1>2. schema \in [count : Nat, pk : Nat, long : Int]
  BY SchemasAssumption
<1>3. Copied(slots[numTables].field, name) \in Field
  BY <1>1, CopiedIsField DEF Entry
<1> DEFINE slot == slots[numTables]
           pk   == IF schema.long < 0 \/ schema.pk < schema.long THEN schema.pk ELSE slot.pk
<1>4. pk \in Nat /\ schema.count \in Nat
  BY <1>1, <1>2 DEF Entry
<1>5. Filled(name, schema) = [slot EXCEPT !.field = Copied(slot.field, name),
                               !.root = numPages, !.count = schema.count, !.pk = pk]
  BY DEF Filled
<1>6. slot \in Entry /\ Copied(slot.field, name) \in Field
  BY <1>1, <1>3
<1> HIDE DEF slot, pk
<1> QED BY <1>1, <1>4, <1>5, <1>6 DEF Entry

\* One more slot whose root is the next page.
LEMMA OneMoreRoot ==
  ASSUME NEW entries, NEW more, NEW n \in Nat, NEW pages \in Nat, pages >= 1, NEW without,
         RootsWithin(entries, n, pages, without),
         \A i \in 0 .. n - 1 : more[i].root = entries[i].root,
         more[n].root = pages
  PROVE  RootsWithin(more, n + 1, pages + 1, without)
<1>1. \A i \in 0 .. n : i = n \/ i \in 0 .. n - 1
  OBVIOUS
<1>2. \A i \in 0 .. n - 1 :
        /\ entries[i].root \in (1 .. pages - 1) \cup without
        /\ \A j \in 0 .. n - 1 :
             i # j => entries[i].root # entries[j].root \/ entries[i].root \in without
  BY DEF RootsWithin
<1>3. \A i \in 0 .. n - 1 : more[i].root \in (1 .. pages - 1) \cup without
  BY <1>2
<1>4. ASSUME NEW i \in 0 .. n
      PROVE  /\ more[i].root \in (1 .. pages) \cup without
             /\ \A j \in 0 .. n :
                  i # j => more[i].root # more[j].root \/ more[i].root \in without
  <2>1. more[i].root \in (1 .. pages) \cup without
    BY <1>1, <1>3
  <2>2. ASSUME NEW j \in 0 .. n, i # j
        PROVE  more[i].root # more[j].root \/ more[i].root \in without
    <3>1. CASE i = n
      <4>1. j \in 0 .. n - 1
        BY <3>1, <2>2, <1>1
      <4> QED BY <4>1, <3>1, <1>3
    <3>2. CASE j = n
      <4>1. i \in 0 .. n - 1
        BY <3>2, <2>2, <1>1
      <4> QED BY <4>1, <3>2, <1>3
    <3>3. CASE i # n /\ j # n
      <4>1. i \in 0 .. n - 1 /\ j \in 0 .. n - 1
        BY <3>3, <1>1
      <4> QED BY <4>1, <1>2, <2>2
    <3> QED BY <3>1, <3>2, <3>3
  <2> QED BY <2>1, <2>2
<1>5. (n + 1) - 1 = n /\ (pages + 1) - 1 = pages
  OBVIOUS
<1> QED BY <1>4, <1>5 DEF RootsWithin

\* The roots stay apart if more pages are in use, or more are missing.
LEMMA MorePages ==
  ASSUME NEW entries, NEW more, NEW n \in Nat, NEW pages \in Nat, NEW others \in Nat,
         NEW without, NEW lacking, without \subseteq lacking,
         RootsWithin(entries, n, pages, without), pages <= others,
         \A i \in 0 .. n - 1 : more[i].root = entries[i].root
  PROVE  RootsWithin(more, n, others, lacking)
<1>1. 1 .. pages - 1 \subseteq 1 .. others - 1
  OBVIOUS
<1> QED BY <1>1 DEF RootsWithin

-----------------------------------------------------------------------------
LEMMA InitCatalog == Init => CatalogInv
<1> SUFFICES ASSUME Init PROVE CatalogInv
  OBVIOUS
<1>1. EmptySlot \in Entry
  BY Limits DEF EmptySlot, Entry, Field, PageNum
<1>2. TypeOK
  BY <1>1, Limits, LimitsAssumption DEF Init, TypeOK
<1>3. RootsWithin(slots, 0, 1, {})
  BY DEF RootsWithin
<1> QED BY <1>2, <1>3, FS_EmptySet DEF Init, CatalogInv, RootsWithin, Kept

\* What the invariant says of the numbers in it.
LEMMA Numbers ==
  ASSUME CatalogInv
  PROVE  /\ numTables \in Nat /\ numTables <= MaxTables
         /\ numPages \in Nat /\ numPages >= 1 /\ numPages <= MaxPages
         /\ disk.numTables \in Nat /\ disk.numTables <= MaxTables
         /\ disk.pages \in Nat /\ disk.pages >= 1 /\ disk.pages <= numPages
         /\ dirty \subseteq 0 .. numPages - 1
         /\ Kept \subseteq 0 .. numPages - 1
<1>1. /\ numTables \in Nat /\ numTables <= MaxTables
      /\ numPages \in Nat /\ numPages >= 1 /\ numPages <= MaxPages
      /\ dirty \subseteq 0 .. numPages - 1
  BY Limits DEF CatalogInv, TypeOK
<1>2. /\ disk.numTables \in 0 .. MaxTables /\ disk.pages \in 1 .. MaxPages
      /\ disk.pages <= numPages
  BY DEF CatalogInv, TypeOK
<1>3. disk.numTables \in Nat /\ disk.numTables <= MaxTables
      /\ disk.pages \in Nat /\ disk.pages >= 1 /\ disk.pages <= numPages
  BY <1>2, Limits
<1>4. 0 .. disk.pages - 1 \subseteq 0 .. numPages - 1
  <2> DEFINE pages == disk.pages
  <2>1. pages \in Nat /\ pages <= numPages /\ numPages \in Nat
    BY <1>1, <1>3
  <2> HIDE DEF pages
  <2>2. 0 .. pages - 1 \subseteq 0 .. numPages - 1
    BY <2>1
  <2> QED BY <2>2 DEF pages
<1> QED BY <1>1, <1>3, <1>4 DEF Kept

\* What the two kinds of CREATE TABLE do to page 0.
LEMMA FillEntries ==
  ASSUME CatalogInv, NEW name \in Name, NEW schema \in Schemas, Fill(name, schema)
  PROVE  /\ numTables < MaxTables /\ numPages < MaxPages /\ numPages' = numPages + 1
         /\ slots' \in [SlotNum -> Entry]
         /\ slots'[numTables].root = numPages
         /\ \A i \in 0 .. numTables - 1 : slots'[i] = slots[i]
<1>1. /\ numTables < MaxTables /\ numPages < MaxPages /\ numPages' = numPages + 1
      /\ slots' = [slots EXCEPT ![numTables] = Filled(name, schema)]
      /\ slots \in [SlotNum -> Entry]
  BY DEF Fill, CatalogInv, TypeOK
<1>2. numTables \in SlotNum /\ \A i \in 0 .. numTables - 1 : i \in SlotNum /\ i # numTables
  BY <1>1, Numbers, Limits DEF SlotNum
<1>3. Filled(name, schema) \in Entry /\ Filled(name, schema).root = numPages
  BY <1>1, FilledIsEntry DEF CatalogInv
<1>4. slots'[numTables] = Filled(name, schema)
  BY <1>1, <1>2
<1>5. slots' \in [SlotNum -> Entry]
  BY <1>1, <1>2, <1>3
<1>6. \A i \in 0 .. numTables - 1 : slots'[i] = slots[i]
  BY <1>1, <1>2
<1> QED BY <1>1, <1>3, <1>4, <1>5, <1>6

LEMMA CreateTableInv ==
  ASSUME NEW name \in Name, NEW schema \in Schemas
  PROVE  CatalogInv /\ CreateTable(name, schema) => CatalogInv'
<1> SUFFICES ASSUME CatalogInv, CreateTable(name, schema) PROVE CatalogInv'
  OBVIOUS
<1> DEFINE table == [name |-> name, slot |-> numTables, root |-> numPages,
                     count |-> schema.count, pk |-> schema.pk,
                     clean |-> slots[numTables] = EmptySlot]
<1>1. /\ numTables < MaxTables /\ numPages < MaxPages
      /\ numPages' = numPages + 1 /\ numTables' = numTables + 1
      /\ dirty' = dirty \cup {0, numPages}
      /\ disk' = disk /\ session' = session /\ reply' = "created"
      /\ missing' = missing /\ intact' = intact
      /\ created' = [created EXCEPT !.now = @ \cup {table}]
      /\ slots' \in [SlotNum -> Entry]
      /\ slots'[numTables].root = numPages
      /\ \A i \in 0 .. numTables - 1 : slots'[i] = slots[i]
  BY FillEntries DEF CreateTable, Created
<1>2. table \in Table /\ table.slot = numTables
  <2>1. schema.count \in Nat /\ schema.pk \in Nat
    BY SchemasAssumption
  <2>2. numPages \in PageNum /\ numTables \in SlotNum
    BY <1>1, Numbers, Limits DEF PageNum, SlotNum
  <2> QED BY <2>1, <2>2 DEF Table
<1> HIDE DEF table
<1>3. /\ created \in [now : SUBSET Table, saved : SUBSET Table]
      /\ created'.now = created.now \cup {table} /\ created'.saved = created.saved
      /\ created' \in [now : SUBSET Table, saved : SUBSET Table]
  BY <1>1, <1>2 DEF CatalogInv, TypeOK
<1>4. Kept' = Kept \cup {0, numPages}
  BY <1>1 DEF Kept
<1>5. TypeOK'
  <2>1. /\ numTables + 1 \in 0 .. MaxTables /\ numPages + 1 \in 1 .. MaxPages
        /\ dirty \cup {0, numPages} \subseteq 0 .. (numPages + 1) - 1
    BY <1>1, Numbers, Limits
  <2> QED BY <1>1, <1>3, <2>1 DEF CatalogInv, TypeOK
<1>6. RootsWithin(slots, numTables, numPages, missing)'
  <2>1. RootsWithin(slots, numTables, numPages, missing)
    BY DEF CatalogInv
  <2>2. numTables \in Nat /\ numPages \in Nat /\ numPages >= 1
    BY Numbers
  <2>3. RootsWithin(slots', numTables + 1, numPages + 1, missing)
    BY <1>1, <2>1, <2>2, OneMoreRoot
  <2> QED BY <1>1, <2>3 DEF RootsWithin
<1>7. /\ IsFiniteSet(created'.now)
      /\ Cardinality(created'.now) = numTables + 1
  <2>1. table \notin created.now
    BY <1>2, Numbers DEF CatalogInv
  <2>2. IsFiniteSet(created.now) /\ Cardinality(created.now) = numTables
    BY DEF CatalogInv
  <2> QED BY <1>3, <2>1, <2>2, FS_AddElement
<1>8. \A i \in 0 .. (numTables + 1) - 1 : slots'[i].root \in Kept' \cup missing
  <2>1. \A i \in 0 .. (numTables + 1) - 1 : i = numTables \/ i \in 0 .. numTables - 1
    BY Numbers
  <2> QED BY <1>1, <1>4, <2>1 DEF CatalogInv
<1>9. \A t \in created'.now : t.slot < numTables + 1
  <2> SUFFICES ASSUME NEW t \in created'.now PROVE t.slot < numTables + 1
    OBVIOUS
  <2>1. CASE t = table
    BY <2>1, <1>2, Numbers
  <2>2. CASE t \in created.now
    <3>1. t.slot < numTables /\ t.slot \in SlotNum
      BY <2>2, <1>3 DEF CatalogInv, Table
    <3> QED BY <3>1, Numbers, Limits DEF SlotNum
  <2> QED BY <2>1, <2>2, <1>3
<1>10. disk.pages <= numPages + 1
  BY Numbers
<1>11. RootsWithin(disk.slots, disk.numTables, disk.pages, missing)'
  BY <1>1 DEF CatalogInv, RootsWithin
<1>12. /\ IsFiniteSet(created'.saved) /\ Cardinality(created'.saved) = disk'.numTables
       /\ \A t \in created'.saved : t.slot < disk'.numTables
  BY <1>1, <1>3 DEF CatalogInv
<1> QED BY <1>1, <1>5, <1>6, <1>7, <1>8, <1>9, <1>10, <1>11, <1>12 DEF CatalogInv

\* More pages are in use, the tables that are listed are the same, and no mark is
\* taken away.
LEMMA PagesTakenInv ==
  ASSUME CatalogInv, numPages' \in 1 .. MaxPages, numPages <= numPages',
         numTables' = numTables, disk' = disk, created' = created, session' = session,
         missing' = missing, intact' = intact,
         reply' \in {"none", "created", "exists", "too_many", "too_long"},
         slots' \in [SlotNum -> Entry],
         \A i \in 0 .. numTables - 1 : slots'[i] = slots[i],
         dirty \subseteq dirty', dirty' \subseteq 0 .. numPages' - 1
  PROVE  CatalogInv'
<1>1. TypeOK'
  BY DEF CatalogInv, TypeOK
<1>2. RootsWithin(slots, numTables, numPages, missing)'
  <2>1. RootsWithin(slots, numTables, numPages, missing)
    BY DEF CatalogInv
  <2>2. PICK pages : pages = numPages'
    OBVIOUS
  <2>3. /\ numTables \in Nat /\ numPages \in Nat /\ pages \in Nat /\ numPages <= pages
    BY <2>2, Numbers, Limits
  <2>4. RootsWithin(slots', numTables, pages, missing)
    BY <2>1, <2>3, MorePages
  <2> QED BY <2>2, <2>4 DEF RootsWithin
<1>3. Kept \subseteq Kept'
  BY DEF Kept
<1>4. 0 \notin dirty' => /\ numTables' = disk'.numTables
                         /\ \A i \in 0 .. numTables' - 1 : slots'[i].root = disk'.slots[i].root
  BY DEF CatalogInv
<1>5. disk'.pages <= numPages'
  <2>1. /\ disk.pages \in Nat /\ numPages \in Nat /\ disk.pages <= numPages
        /\ numPages' \in Nat
    BY Numbers, Limits
  <2> QED BY <2>1
<1>6. RootsWithin(disk.slots, disk.numTables, disk.pages, missing)'
  BY DEF CatalogInv, RootsWithin
<1>7. /\ \A i \in 0 .. numTables' - 1 : slots'[i].root \in Kept' \cup missing'
      /\ numTables' = Cardinality(created'.now)
      /\ \A t \in created'.now : t.slot < numTables'
      /\ \A t \in created'.saved : t.slot < disk'.numTables
      /\ IsFiniteSet(created'.now) /\ IsFiniteSet(created'.saved)
      /\ Cardinality(created'.saved) = disk'.numTables
  BY <1>3 DEF CatalogInv
<1> QED BY <1>1, <1>2, <1>4, <1>5, <1>6, <1>7 DEF CatalogInv

LEMMA CreateTooLongInv ==
  ASSUME NEW name \in Name, NEW schema \in Schemas
  PROVE  CatalogInv /\ CreateTooLong(name, schema) => CatalogInv'
<1> SUFFICES ASSUME CatalogInv, CreateTooLong(name, schema) PROVE CatalogInv'
  OBVIOUS
<1>1. /\ Fill(name, schema) /\ reply' = "too_long"
      /\ UNCHANGED <<numTables, dirty, disk, created, missing, intact, session>>
  BY DEF CreateTooLong
<1>2. /\ numPages < MaxPages /\ numPages' = numPages + 1
      /\ slots' \in [SlotNum -> Entry]
      /\ \A i \in 0 .. numTables - 1 : slots'[i] = slots[i]
  BY <1>1, FillEntries
<1>3. /\ numPages' \in 1 .. MaxPages /\ numPages <= numPages'
      /\ dirty' \subseteq 0 .. numPages' - 1
  BY <1>1, <1>2, Numbers, Limits
<1> QED BY <1>1, <1>2, <1>3, PagesTakenInv

LEMMA GrowInv == CatalogInv /\ Grow => CatalogInv'
<1> SUFFICES ASSUME CatalogInv, Grow PROVE CatalogInv'
  OBVIOUS
<1>1. /\ numPages < MaxPages /\ numPages' = numPages + 1
      /\ dirty' = dirty \cup {numPages}
      /\ UNCHANGED <<slots, numTables, disk, created, reply, missing, intact, session>>
      /\ slots' \in [SlotNum -> Entry]
      /\ reply' \in {"none", "created", "exists", "too_many", "too_long"}
  BY DEF Grow, CatalogInv, TypeOK
<1>2. /\ numPages' \in 1 .. MaxPages /\ numPages <= numPages'
      /\ dirty' \subseteq 0 .. numPages' - 1
  BY <1>1, Numbers, Limits
<1> QED BY <1>1, <1>2, PagesTakenInv

LEMMA FetchMissingInv ==
  ASSUME NEW p \in missing
  PROVE  CatalogInv /\ FetchMissing(p) => CatalogInv'
<1> SUFFICES ASSUME CatalogInv, FetchMissing(p) PROVE CatalogInv'
  OBVIOUS
<1>1. /\ numPages' = Max({numPages, p + 1})
      /\ dirty' \in {dirty, dirty \cup {p}}
      /\ UNCHANGED <<slots, numTables, disk, created, reply, missing, intact, session>>
      /\ slots' \in [SlotNum -> Entry]
      /\ reply' \in {"none", "created", "exists", "too_many", "too_long"}
  BY DEF FetchMissing, CatalogInv, TypeOK
<1>2. p \in Nat /\ p < MaxPages
  BY Limits DEF CatalogInv, TypeOK, PageNum
<1>3. /\ numPages \in Nat /\ numPages >= 1 /\ numPages <= MaxPages
      /\ dirty \subseteq 0 .. numPages - 1
  BY Numbers
<1> DEFINE ends == {numPages, p + 1}
<1>4. ends \in SUBSET (0 .. MaxPages) /\ ends # {} /\ numPages \in ends /\ p + 1 \in ends
  BY <1>2, <1>3, Limits
<1> HIDE DEF ends
<1>5. Max(ends) \in 0 .. MaxPages /\ \A e \in ends : e <= Max(ends)
  BY <1>4, Limits, MaxBounds
<1>6. numPages' = Max(ends)
  BY <1>1 DEF ends
<1>7. PICK n : n = Max(ends)
  OBVIOUS
<1>8. n \in Nat /\ n <= MaxPages /\ numPages <= n /\ p + 1 <= n
  <2>1. n \in 0 .. MaxPages /\ \A e \in ends : e <= n
    BY <1>5, <1>7
  <2>2. numPages <= n /\ p + 1 <= n
    BY <1>4, <2>1
  <2> QED BY <2>1, <2>2, Limits
<1>9. /\ n \in 1 .. MaxPages
      /\ dirty \subseteq 0 .. n - 1 /\ p \in 0 .. n - 1
  BY <1>2, <1>3, <1>8, Limits
<1>10. /\ numPages' \in 1 .. MaxPages /\ numPages <= numPages'
       /\ dirty' \subseteq 0 .. numPages' - 1
  BY <1>1, <1>6, <1>7, <1>8, <1>9
<1> QED BY <1>1, <1>10, PagesTakenInv

\* A statement that changes nothing that is followed.
LEMMA NothingCreatedInv ==
  CatalogInv /\ (CreateExisting \/ CreateTooMany \/ OverwriteCatalog \/ UNCHANGED vars)
    => CatalogInv'
<1> SUFFICES ASSUME CatalogInv,
                    CreateExisting \/ CreateTooMany \/ OverwriteCatalog \/ UNCHANGED vars
             PROVE  CatalogInv'
  OBVIOUS
<1>1. /\ UNCHANGED <<slots, numTables, numPages, dirty, disk, created, missing, session>>
      /\ reply' \in {"none", "created", "exists", "too_many", "too_long"}
      /\ intact' \in BOOLEAN
  BY DEF CreateExisting, CreateTooMany, OverwriteCatalog, vars, CatalogInv, TypeOK
<1>2. TypeOK'
  BY <1>1 DEF CatalogInv, TypeOK
<1> QED BY <1>1, <1>2 DEF CatalogInv, RootsWithin, Kept

-----------------------------------------------------------------------------
\* The database is opened again on a file that is right.
LEMMA ReopenedInv ==
  ASSUME CatalogInv, Reopened, intact' = intact, missing' \subseteq PageNum \ {0},
         disk' \in [slots : [SlotNum -> Entry], numTables : 0 .. MaxTables, pages : 1 .. MaxPages],
         RootsWithin(disk'.slots, disk'.numTables, disk'.pages, missing'),
         created' \in [now : SUBSET Table, saved : SUBSET Table],
         created'.now = created'.saved, IsFiniteSet(created'.saved),
         Cardinality(created'.saved) = disk'.numTables,
         \A t \in created'.saved : t.slot < disk'.numTables
  PROVE  CatalogInv'
<1>1. /\ session < MaxSessions /\ session' = session + 1
      /\ slots' = disk'.slots /\ numTables' = disk'.numTables /\ numPages' = disk'.pages
      /\ dirty' = {} /\ reply' = "none"
  BY DEF Reopened
<1>2. /\ disk'.numTables \in Nat /\ disk'.pages \in Nat /\ disk'.pages >= 1
      /\ slots' \in [SlotNum -> Entry]
  BY <1>1, Limits
<1>3. TypeOK'
  <2>1. session' \in 1 .. MaxSessions
    BY <1>1, LimitsAssumption DEF CatalogInv, TypeOK
  <2>2. intact' \in BOOLEAN
    BY DEF CatalogInv, TypeOK
  <2> QED BY <1>1, <1>2, <2>1, <2>2 DEF TypeOK
<1>4. Kept' = 0 .. disk'.pages - 1
  BY <1>1 DEF Kept
<1>5. RootsWithin(slots, numTables, numPages, missing)'
  BY <1>1 DEF RootsWithin
<1>6. \A i \in 0 .. disk'.numTables - 1 : disk'.slots[i].root \in Kept' \cup missing'
  <2>1. 1 .. disk'.pages - 1 \subseteq Kept'
    BY <1>2, <1>4
  <2> QED BY <2>1 DEF RootsWithin
<1>7. RootsWithin(disk.slots, disk.numTables, disk.pages, missing)'
  BY DEF RootsWithin
<1> QED BY <1>1, <1>2, <1>3, <1>5, <1>6, <1>7 DEF CatalogInv

\* The file reaches over every page that it had or that is written.
LEMMA EndOfFile ==
  ASSUME CatalogInv, NEW saved, saved \subseteq dirty,
         NEW pages, pages = Max({disk.pages} \cup {p + 1 : p \in saved})
  PROVE  /\ pages \in Nat /\ disk.pages <= pages /\ pages <= numPages
         /\ \A p \in saved : p < pages
<1> DEFINE ends == {disk.pages} \cup {p + 1 : p \in saved}
<1>1. /\ numPages \in Nat /\ disk.pages \in Nat /\ disk.pages <= numPages
      /\ \A p \in saved : p \in Nat /\ p + 1 <= numPages
  BY Numbers
<1>2. ends \in SUBSET (0 .. numPages) /\ ends # {}
  BY <1>1
<1>3. /\ disk.pages \in ends /\ \A p \in saved : p + 1 \in ends
  OBVIOUS
<1> HIDE DEF ends
<1>4. Max(ends) \in 0 .. numPages /\ \A e \in ends : e <= Max(ends)
  BY <1>1, <1>2, MaxBounds
<1>5. pages = Max(ends)
  BY DEF ends
<1>6. \A p \in saved : p < pages
  BY <1>1, <1>3, <1>4, <1>5
<1> QED BY <1>1, <1>3, <1>4, <1>5, <1>6

\* Whatever part of what is marked pager_close has written.
LEMMA CloseInv ==
  ASSUME NEW saved, saved \subseteq dirty
  PROVE  CatalogInv /\ Close(saved) => CatalogInv'
<1> SUFFICES ASSUME CatalogInv, Close(saved) PROVE CatalogInv'
  OBVIOUS
<1> DEFINE pages == Max({disk.pages} \cup {p + 1 : p \in saved})
           left  == {p \in dirty \ saved : p >= disk.pages}
           kept  == IF 0 \in dirty \ saved THEN created.saved ELSE created.now
<1>1. /\ disk' = [slots     |-> IF 0 \in saved THEN slots ELSE disk.slots,
                  numTables |-> IF 0 \in saved THEN numTables ELSE disk.numTables,
                  pages     |-> pages]
      /\ created' = [now |-> kept, saved |-> kept]
      /\ missing' = missing \cup left
      /\ Reopened /\ intact' = intact
  BY DEF Close
<1>2. /\ pages \in Nat /\ disk.pages <= pages /\ pages <= numPages
      /\ \A p \in saved : p < pages
  BY EndOfFile
<1>3. /\ disk.pages \in Nat /\ disk.pages >= 1 /\ dirty \subseteq Nat
      /\ numPages \in Nat /\ numPages <= MaxPages /\ dirty \subseteq 0 .. numPages - 1
      /\ numTables \in Nat /\ disk.numTables \in Nat
  BY Numbers
<1>4. missing' \subseteq PageNum \ {0}
  <2>1. ASSUME NEW p \in left PROVE p \in PageNum \ {0}
    <3>1. /\ p \in Nat /\ p <= numPages - 1 /\ disk.pages <= p
          /\ disk.pages \in Nat /\ disk.pages >= 1
      BY <1>3
    <3>2. p # 0 /\ p <= MaxPages - 1
      BY <3>1, <1>3, Limits
    <3> QED BY <3>1, <3>2, Limits DEF PageNum
  <2> QED BY <2>1, <1>1 DEF CatalogInv, TypeOK
<1>5. /\ disk'.pages = pages
      /\ disk'.slots = (IF 0 \in saved THEN slots ELSE disk.slots)
      /\ disk'.numTables = (IF 0 \in saved THEN numTables ELSE disk.numTables)
      /\ created'.now = kept /\ created'.saved = kept
  BY <1>1
<1>6. disk' \in [slots : [SlotNum -> Entry], numTables : 0 .. MaxTables, pages : 1 .. MaxPages]
  <2>1. pages \in 1 .. MaxPages
    BY <1>2, <1>3, Limits
  <2> HIDE DEF pages
  <2> QED BY <1>1, <2>1 DEF CatalogInv, TypeOK
<1>7. RootsWithin(disk'.slots, disk'.numTables, disk'.pages, missing')
  <2>1. CASE 0 \in saved
    <3>1. RootsWithin(slots, numTables, numPages, missing)
      BY DEF CatalogInv
    <3>2. ASSUME NEW i \in 0 .. numTables - 1
          PROVE  slots[i].root \in (1 .. pages - 1) \cup missing'
      <4>1. slots[i].root \in Kept \cup missing
        BY DEF CatalogInv
      <4>2. slots[i].root \in (1 .. numPages - 1) \cup missing
        BY <3>1 DEF RootsWithin
      <4>3. CASE slots[i].root \in missing
        BY <4>3, <1>1
      <4>4. CASE slots[i].root \in 1 .. numPages - 1 /\ slots[i].root \in Kept
        <5>1. slots[i].root \in Nat /\ slots[i].root >= 1
          BY <4>4, <1>3
        <5>2. CASE slots[i].root < disk.pages
          BY <5>1, <5>2, <1>2, <1>3
        <5>3. CASE slots[i].root \in saved
          <6>1. slots[i].root < pages
            BY <5>3, <1>2
          <6> HIDE DEF pages
          <6> QED BY <5>1, <6>1, <1>2
        <5>4. CASE slots[i].root \in dirty \ saved /\ slots[i].root >= disk.pages
          BY <5>4, <1>1
        <5>5. slots[i].root \in dirty \/ slots[i].root < disk.pages
          BY <4>4, <5>1, <1>3 DEF Kept
        <5> QED BY <5>1, <5>2, <5>3, <5>4, <5>5, <1>3
      <4> QED BY <4>1, <4>2, <4>3, <4>4
    <3> HIDE DEF pages
    <3>3. RootsWithin(slots, numTables, pages, missing')
      BY <3>1, <3>2, <1>1 DEF RootsWithin
    <3> QED BY <3>3, <2>1, <1>5
  <2>2. CASE 0 \notin saved
    <3>1. RootsWithin(disk.slots, disk.numTables, disk.pages, missing)
      BY DEF CatalogInv
    <3>2. PICK lacking : lacking = missing'
      OBVIOUS
    <3>3. missing \subseteq lacking
      BY <3>2, <1>1
    <3> HIDE DEF pages
    <3>4. RootsWithin(disk.slots, disk.numTables, pages, lacking)
      BY <3>1, <3>3, <1>2, <1>3, MorePages
    <3> QED BY <3>2, <3>4, <2>2, <1>5
  <2> QED BY <2>1, <2>2
<1>8. /\ created' \in [now : SUBSET Table, saved : SUBSET Table]
  <2>1. kept \in SUBSET Table
    BY DEF CatalogInv, TypeOK
  <2> HIDE DEF kept
  <2> QED BY <1>1, <2>1
<1>9. /\ IsFiniteSet(kept) /\ Cardinality(kept) = disk'.numTables
      /\ \A t \in kept : t.slot < disk'.numTables
  <2>1. CASE 0 \in dirty \ saved
    <3>1. kept = created.saved /\ disk'.numTables = disk.numTables
      BY <2>1, <1>5
    <3> QED BY <3>1 DEF CatalogInv
  <2>2. CASE 0 \notin dirty \ saved
    <3>1. kept = created.now /\ disk'.numTables = numTables
      BY <2>2, <1>5 DEF CatalogInv
    <3> QED BY <3>1 DEF CatalogInv
  <2> QED BY <2>1, <2>2
<1> QED
  <2> HIDE DEF pages, left, kept
  <2> QED BY <1>1, <1>4, <1>5, <1>6, <1>7, <1>8, <1>9, ReopenedInv

LEMMA CrashInv == CatalogInv /\ Crash => CatalogInv'
<1> SUFFICES ASSUME CatalogInv, Crash PROVE CatalogInv'
  OBVIOUS
<1>1. /\ disk' = disk /\ missing' = missing /\ intact' = intact
      /\ created' = [created EXCEPT !.now = created.saved] /\ Reopened
  BY DEF Crash
<1>2. /\ created'.now = created.saved /\ created'.saved = created.saved
      /\ created' \in [now : SUBSET Table, saved : SUBSET Table]
  BY <1>1 DEF CatalogInv, TypeOK
<1>3. /\ disk \in [slots : [SlotNum -> Entry], numTables : 0 .. MaxTables, pages : 1 .. MaxPages]
      /\ RootsWithin(disk.slots, disk.numTables, disk.pages, missing)
      /\ IsFiniteSet(created.saved) /\ Cardinality(created.saved) = disk.numTables
      /\ \A t \in created.saved : t.slot < disk.numTables
      /\ missing \subseteq PageNum \ {0}
  BY DEF CatalogInv, TypeOK
<1> QED BY <1>1, <1>2, <1>3, ReopenedInv

\* The invariant of the catalog, for any number of tables, pages and sessions.
THEOREM CatalogInvHolds == Spec => []CatalogInv
<1>1. CatalogInv /\ [Next]_vars => CatalogInv'
  <2> SUFFICES ASSUME CatalogInv, [Next]_vars PROVE CatalogInv'
    OBVIOUS
  <2>1. CASE CreateExisting \/ CreateTooMany \/ OverwriteCatalog \/ UNCHANGED vars
    BY <2>1, NothingCreatedInv
  <2>2. CASE \E name \in Name, schema \in Schemas :
               CreateTable(name, schema) \/ CreateTooLong(name, schema)
    BY <2>2, CreateTableInv, CreateTooLongInv
  <2>3. CASE Grow
    BY <2>3, GrowInv
  <2>4. CASE Restart \/ PartialClose
    BY <2>4, CloseInv DEF Restart, PartialClose
  <2>5. CASE Crash \/ CreateNoPage
    BY <2>5, CrashInv DEF CreateNoPage
  <2>6. CASE \E p \in missing : FetchMissing(p)
    BY <2>6, FetchMissingInv
  <2> QED BY <2>1, <2>2, <2>3, <2>4, <2>5, <2>6 DEF Next
<1> QED BY <1>1, InitCatalog, PTL DEF Spec

\* No page is the root of two tables, or handed out again while it is one, unless a
\* pager_close wrote other pages and not that one, after CREATE TABLEs that failed,
\* restarts, writes that failed and deaths before and within pager_close.
THEOREM RootsStayDistinct == Spec => []RootsAreDistinct
<1>1. CatalogInv => RootsAreDistinct
  BY DEF CatalogInv, RootsAreDistinct
<1> QED BY <1>1, CatalogInvHolds, PTL

\* The catalog counts the tables that CREATE TABLE reported, and no others; of those
\* of a session, a pager_close that is cut short keeps all or none.
THEOREM CatalogCountsTables == Spec => []OnlyCreatedTables
<1>1. CatalogInv => OnlyCreatedTables
  BY DEF CatalogInv, OnlyCreatedTables
<1> QED BY <1>1, CatalogInvHolds, PTL
-----------------------------------------------------------------------------
\* The entry that CREATE TABLE made of an empty slot for the table: it is among
\* the first n, and no slot before it surely has the name.
MadeFor(t, entry) ==
  /\ entry.root = t.root /\ entry.count = t.count /\ entry.pk = t.pk
  /\ entry.field = Copied(EmptySlot.field, t.name)

Listed(entries, n, t) ==
  \E i \in 0 .. n - 1 :
    MadeFor(t, entries[i]) /\ \A j \in 0 .. i - 1 : ~ SurelyHasName(entries[j], t.name)

\* The inductive invariant behind CleanTablesAreFound: such tables are listed in
\* page 0, those of the file in the file, and the two do not differ unless page 0
\* is marked.
ListedInv ==
  /\ \A t \in created.now : t.clean => Listed(slots, numTables, t)
  /\ \A t \in created.saved : t.clean => Listed(disk.slots, disk.numTables, t)
  /\ 0 \notin dirty => /\ numTables = disk.numTables
                       /\ \A i \in 0 .. numTables - 1 : slots[i] = disk.slots[i]

\* A name in an empty field.
LEMMA NameInEmptySlot ==
  ASSUME NEW name \in Name
  PROVE  LET field == Copied(EmptySlot.field, name)
         IN  NameIn(field) = name /\ (Len(name) < NameSize => ~ IsFull(field))
<1> DEFINE field == Copied(EmptySlot.field, name)
           used  == {i \in 1 .. NameSize : \A j \in 1 .. i : field[j] # 0}
<1>1. PICK n \in 1 .. NameSize : name \in [1 .. n -> Chars]
  BY DEF Name
<1>2. /\ n \in Nat /\ n <= NameSize /\ Len(name) = n /\ NameSize \in Nat
      /\ \A i \in 1 .. n : name[i] \in Nat /\ name[i] # 0
      /\ name = [i \in 1 .. n |-> name[i]]
  <2>1. n \in Nat /\ n <= NameSize /\ NameSize \in Nat
    BY Limits
  <2>2. name \in [1 .. n -> Nat] /\ \A i \in 1 .. n : name[i] # 0
    <3>1. \A i \in 1 .. n : name[i] \in Chars
      BY <1>1
    <3>2. \A c \in Chars : c \in Nat /\ c # 0
      BY CharsAssumption
    <3> QED BY <3>1, <3>2, <1>1
  <2>3. name \in Seq(Nat)
    BY <2>1, <2>2
  <2>4. Len(name) = n
    BY <2>1, <2>2, <2>3, LenProperties
  <2> QED BY <2>1, <2>2, <2>4
<1>3. field = [i \in 1 .. NameSize |-> IF i <= n THEN name[i] ELSE 0]
  BY <1>2 DEF Copied, EmptySlot
<1> HIDE DEF field
<1>4. used = 1 .. n
  BY <1>2, <1>3
<1>5. Cardinality(used) = n
  <2>1. Cardinality(1 .. n) = n
    BY <1>2, FS_Interval
  <2> QED BY <1>4, <2>1
<1>6. NameIn(field) = SubSeq(field, 1, n)
  BY <1>5 DEF NameIn
<1>7. field \in Seq(Nat)
  <2>1. field \in [1 .. NameSize -> Nat]
    BY <1>2, <1>3
  <2> QED BY <2>1, <1>2
<1>8. SubSeq(field, 1, n) = [i \in 1 .. n |-> name[i]]
  BY <1>2, <1>3, <1>7
<1>9. n < NameSize => ~ IsFull(field)
  <2> SUFFICES ASSUME n < NameSize PROVE ~ IsFull(field)
    OBVIOUS
  <2>1. n + 1 \in 1 .. NameSize /\ field[n + 1] = 0
    BY <1>2, <1>3
  <2> QED BY <2>1 DEF IsFull
<1> QED BY <1>2, <1>6, <1>8, <1>9 DEF field

\* A full field has a name as long as it is.
LEMMA FullName ==
  ASSUME NEW field \in Field, IsFull(field)
  PROVE  Len(NameIn(field)) = NameSize
<1>1. {i \in 1 .. NameSize : \A j \in 1 .. i : field[j] # 0} = 1 .. NameSize
  BY Limits DEF IsFull
<1>2. Cardinality(1 .. NameSize) = NameSize
  BY Limits, FS_Interval
<1>3. NameIn(field) = SubSeq(field, 1, NameSize)
  BY <1>1, <1>2 DEF NameIn
<1>4. field \in [1 .. NameSize -> Nat] /\ NameSize \in Nat
  <2>1. Chars \cup {0} \subseteq Nat
    BY CharsAssumption
  <2> QED BY <2>1, Limits DEF Field
<1>5. field \in Seq(Nat) /\ Len(field) = NameSize
  BY <1>4, LenProperties
<1> QED BY <1>3, <1>4, <1>5

\* Slots that are the same list the same tables.
LEMMA ListedStill ==
  ASSUME NEW n \in Nat, NEW entries, NEW more, NEW others \in Nat, n <= others, NEW t,
         \A i \in 0 .. n - 1 : more[i] = entries[i], Listed(entries, n, t)
  PROVE  Listed(more, others, t)
<1>1. PICK i \in 0 .. n - 1 :
        MadeFor(t, entries[i]) /\ \A j \in 0 .. i - 1 : ~ SurelyHasName(entries[j], t.name)
  BY DEF Listed
<1>2. i \in 0 .. others - 1 /\ more[i] = entries[i] /\ \A j \in 0 .. i - 1 : more[j] = entries[j]
  OBVIOUS
<1> QED BY <1>1, <1>2 DEF Listed

\* CREATE TABLE lists the new table if its slot was empty, and leaves the others.
LEMMA CreateTableListed ==
  ASSUME NEW name \in Name, NEW schema \in Schemas, CatalogInv, ListedInv,
         CreateTable(name, schema)
  PROVE  ListedInv'
<1> DEFINE table == [name |-> name, slot |-> numTables, root |-> numPages,
                     count |-> schema.count, pk |-> schema.pk,
                     clean |-> slots[numTables] = EmptySlot]
<1>1. /\ Fill(name, schema) /\ schema.long < 0
      /\ numTables' = numTables + 1 /\ dirty' = dirty \cup {0, numPages} /\ disk' = disk
      /\ created' = [created EXCEPT !.now = @ \cup {table}]
  BY DEF CreateTable, Created
<1>2. /\ created'.now = created.now \cup {table} /\ created'.saved = created.saved
  BY <1>1 DEF CatalogInv, TypeOK
<1>3. /\ numTables \in Nat /\ numTables < MaxTables
      /\ \A i \in 0 .. numTables - 1 : slots'[i] = slots[i]
  BY <1>1, FillEntries, Numbers
<1>4. table.clean => Listed(slots', numTables + 1, table)
  <2> SUFFICES ASSUME slots[numTables] = EmptySlot
               PROVE  Listed(slots', numTables + 1, table)
    BY DEF table
  <2>1. slots'[numTables] = Filled(name, schema)
    <3>1. slots' = [slots EXCEPT ![numTables] = Filled(name, schema)]
          /\ slots \in [SlotNum -> Entry] /\ numTables \in SlotNum
      BY <1>1, <1>3, Limits DEF Fill, CatalogInv, TypeOK, SlotNum
    <3> QED BY <3>1
  <2>2. MadeFor(table, slots'[numTables])
    <3>1. Filled(name, schema) =
            [EmptySlot EXCEPT !.field = Copied(EmptySlot.field, name), !.root = numPages,
                              !.count = schema.count, !.pk = schema.pk]
      BY <1>1 DEF Filled
    <3>2. /\ Filled(name, schema).field = Copied(EmptySlot.field, name)
          /\ Filled(name, schema).root = numPages
          /\ Filled(name, schema).count = schema.count
          /\ Filled(name, schema).pk = schema.pk
      BY <3>1 DEF EmptySlot
    <3> QED BY <2>1, <3>2 DEF MadeFor
  <2>3. \A j \in 0 .. numTables - 1 : ~ SurelyHasName(slots'[j], table.name)
    <3>1. \A j \in 0 .. numTables - 1 : ~ SurelyHasName(slots[j], name)
      BY <1>1 DEF Fill, MayBeNew, FindTable
    <3>2. table.name = name
      OBVIOUS
    <3> HIDE DEF table
    <3> QED BY <3>1, <3>2, <1>3
  <2>4. numTables \in 0 .. (numTables + 1) - 1
    BY <1>3
  <2> HIDE DEF table
  <2> QED BY <2>2, <2>3, <2>4 DEF Listed
<1> HIDE DEF table
<1>5. ASSUME NEW t \in created.now, t.clean PROVE Listed(slots', numTables + 1, t)
  <2>1. Listed(slots, numTables, t)
    BY <1>5 DEF ListedInv
  <2>2. numTables + 1 \in Nat /\ numTables <= numTables + 1
    BY <1>3
  <2> QED BY <2>1, <2>2, <1>3, ListedStill
<1>6. 0 \in dirty' /\ numTables' = numTables + 1
  BY <1>1
<1> QED BY <1>1, <1>2, <1>4, <1>5, <1>6 DEF ListedInv

\* Page 0 is not marked, and the slots that are listed are the same.
LEMMA SlotsKept ==
  ASSUME CatalogInv, ListedInv, numTables' = numTables, disk' = disk, created' = created,
         dirty \subseteq dirty', \A i \in 0 .. numTables - 1 : slots'[i] = slots[i]
  PROVE  ListedInv'
<1>1. numTables \in Nat
  BY Numbers
<1>2. ASSUME NEW t \in created.now, t.clean PROVE Listed(slots', numTables, t)
  <2>1. Listed(slots, numTables, t)
    BY <1>2 DEF ListedInv
  <2> QED BY <2>1, <1>1, ListedStill
<1>3. 0 \notin dirty' => /\ numTables = disk.numTables
                         /\ \A i \in 0 .. numTables - 1 : slots'[i] = disk.slots[i]
  BY DEF ListedInv
<1> QED BY <1>2, <1>3 DEF ListedInv

LEMMA CloseListed ==
  ASSUME NEW saved, saved \subseteq dirty
  PROVE  CatalogInv /\ ListedInv /\ Close(saved) => ListedInv'
<1> SUFFICES ASSUME CatalogInv, ListedInv, Close(saved) PROVE ListedInv'
  OBVIOUS
<1>1. /\ disk'.slots = (IF 0 \in saved THEN slots ELSE disk.slots)
      /\ disk'.numTables = (IF 0 \in saved THEN numTables ELSE disk.numTables)
      /\ created'.now = (IF 0 \in dirty \ saved THEN created.saved ELSE created.now)
      /\ created'.saved = created'.now
      /\ slots' = disk'.slots /\ numTables' = disk'.numTables /\ dirty' = {}
  BY DEF Close, Reopened
<1>2. ASSUME NEW t \in created'.now, t.clean
      PROVE  Listed(disk'.slots, disk'.numTables, t)
  <2>1. CASE 0 \in dirty \ saved
    BY <2>1, <1>1, <1>2 DEF ListedInv
  <2>2. CASE 0 \notin dirty \ saved
    <3>1. t \in created.now /\ Listed(slots, numTables, t)
      BY <2>2, <1>1, <1>2 DEF ListedInv
    <3>2. numTables \in Nat /\ disk'.numTables = numTables
      BY <2>2, <1>1, Numbers DEF ListedInv
    <3>3. \A i \in 0 .. numTables - 1 : disk'.slots[i] = slots[i]
      BY <2>2, <1>1 DEF ListedInv
    <3> QED BY <3>1, <3>2, <3>3, ListedStill
  <2> QED BY <2>1, <2>2
<1> QED BY <1>1, <1>2 DEF ListedInv

LEMMA CrashListed == CatalogInv /\ ListedInv /\ Crash => ListedInv'
<1> SUFFICES ASSUME CatalogInv, ListedInv, Crash PROVE ListedInv'
  OBVIOUS
<1>1. /\ disk' = disk /\ created'.now = created.saved /\ created'.saved = created.saved
      /\ slots' = disk.slots /\ numTables' = disk.numTables /\ dirty' = {}
  BY DEF Crash, Reopened, CatalogInv, TypeOK
<1> QED BY <1>1 DEF ListedInv

LEMMA NextListed == CatalogInv /\ ListedInv /\ [Next]_vars => ListedInv'
<1> SUFFICES ASSUME CatalogInv, ListedInv, [Next]_vars PROVE ListedInv'
  OBVIOUS
<1>1. CASE \/ CreateExisting \/ CreateTooMany \/ Grow \/ OverwriteCatalog \/ UNCHANGED vars
           \/ \E p \in missing : FetchMissing(p)
  <2>1. /\ UNCHANGED <<slots, numTables, disk, created>> /\ dirty \subseteq dirty'
    BY <1>1 DEF CreateExisting, CreateTooMany, Grow, OverwriteCatalog, FetchMissing, vars
  <2> QED BY <2>1, SlotsKept
<1>2. ASSUME NEW name \in Name, NEW schema \in Schemas, CreateTable(name, schema)
      PROVE  ListedInv'
  BY <1>2, CreateTableListed
<1>3. ASSUME NEW name \in Name, NEW schema \in Schemas, CreateTooLong(name, schema)
      PROVE  ListedInv'
  <2>1. /\ Fill(name, schema) /\ UNCHANGED <<numTables, dirty, disk, created>>
    BY <1>3 DEF CreateTooLong
  <2>2. \A i \in 0 .. numTables - 1 : slots'[i] = slots[i]
    BY <2>1, FillEntries
  <2> QED BY <2>1, <2>2, SlotsKept
<1>4. CASE Restart \/ PartialClose
  BY <1>4, CloseListed DEF Restart, PartialClose
<1>5. CASE Crash \/ CreateNoPage
  BY <1>5, CrashListed DEF CreateNoPage
<1> QED BY <1>1, <1>2, <1>3, <1>4, <1>5 DEF Next

\* A table that is listed is found under its name.
LEMMA ListedIsFound ==
  ASSUME CatalogInv, NEW t \in Table, Listed(slots, numTables, t)
  PROVE  IsFound(t)
<1>1. PICK i \in 0 .. numTables - 1 :
        MadeFor(t, slots[i]) /\ \A j \in 0 .. i - 1 : ~ SurelyHasName(slots[j], t.name)
  BY DEF Listed
<1>2. t.name \in Name
  BY DEF Table
<1>3. HasName(slots[i], t.name) /\ (Len(t.name) < NameSize => SurelyHasName(slots[i], t.name))
  BY <1>1, <1>2, NameInEmptySlot DEF MadeFor, HasName, SurelyHasName
<1>4. numTables \in Nat /\ i \in Nat /\ i < numTables /\ i \in 0 .. numTables
  BY <1>1, Numbers
<1>5. IsEntry(i, t)
  BY <1>1, <1>4 DEF IsEntry, MadeFor
<1>6. i \in FindTable(t.name)
  BY <1>1, <1>3, <1>4 DEF FindTable
<1>7. ASSUME Len(t.name) < NameSize, NEW k \in FindTable(t.name) PROVE k = i
  <2>1. /\ k \in 0 .. numTables /\ (k < numTables => HasName(slots[k], t.name))
        /\ \A j \in 0 .. k - 1 : ~ SurelyHasName(slots[j], t.name)
    BY <1>7 DEF FindTable
  <2>2. k <= i
    <3> SUFFICES ASSUME ~ (k <= i) PROVE FALSE
      OBVIOUS
    <3>1. i \in 0 .. k - 1
      BY <2>1, <1>4
    <3> QED BY <3>1, <2>1, <1>3, <1>7
  <2>3. ~ (k < i)
    <3> SUFFICES ASSUME k < i PROVE FALSE
      OBVIOUS
    <3>1. k \in 0 .. i - 1 /\ k < numTables
      BY <2>1, <1>4
    <3>2. HasName(slots[k], t.name) /\ ~ SurelyHasName(slots[k], t.name)
      BY <3>1, <2>1, <1>1
    <3>3. slots[k].field \in Field
      BY <3>1, <1>4, Numbers, Limits DEF CatalogInv, TypeOK, SlotNum, Entry
    <3>4. Len(t.name) = NameSize
      BY <3>2, <3>3, FullName DEF HasName, SurelyHasName
    <3>5. Len(t.name) # NameSize
      BY <1>2, <1>7, Limits, LenProperties DEF Name
    <3> QED BY <3>4, <3>5
  <2> QED BY <2>1, <2>2, <2>3, <1>4
<1> QED BY <1>5, <1>6, <1>7 DEF IsFound

\* A table that CREATE TABLE made in an empty slot is found under its name, with
\* its root page, columns and primary key, whatever CREATE TABLEs failed around it
\* and whatever names fill their fields, and after any restarts and crashes if page 0
\* was saved since it was made.
THEOREM CleanTablesFound == Spec => []CleanTablesAreFound
<1>1. Init => ListedInv
  BY DEF Init, ListedInv
<1>2. CatalogInv /\ ListedInv => CleanTablesAreFound
  <2> SUFFICES ASSUME CatalogInv, ListedInv, NEW t \in created.now, t.clean PROVE IsFound(t)
    BY DEF CleanTablesAreFound
  <2>1. t \in Table /\ Listed(slots, numTables, t)
    BY DEF CatalogInv, TypeOK, ListedInv
  <2> QED BY <2>1, ListedIsFound
<1>3. Spec => []ListedInv
  BY <1>1, NextListed, CatalogInvHolds, PTL DEF Spec
<1> QED BY <1>2, <1>3, CatalogInvHolds, PTL
=============================================================================
