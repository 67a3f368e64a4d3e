-------------------------- MODULE BTreeProperties --------------------------
(***************************************************************************)
(* What the B+ tree of module BTree must keep true, and the table it is    *)
(* shown to implement.  Between two statements, as long as no INSERT has   *)
(* run out of pages, the tree is whole.                                    *)
(***************************************************************************)
EXTENDS BTree

Settled == pc = "idle" /\ result.code # "error"

\* The pages that the program has allocated.
InUse == 1 .. numPages - 1

\* The leftmost and the rightmost leaf below a page.
FirstLeaf[p \in NodePages] ==
  IF mem[p].type = "leaf" THEN p ELSE FirstLeaf[Child(mem[p], 1)]
LastLeaf[p \in NodePages] ==
  IF mem[p].type = "leaf" THEN p ELSE LastLeaf[mem[p].link]

\* The leaves that a walk along NEXT_LEAF comes to after a leaf.
Later[p \in NodePages] ==
  IF mem[p].type # "leaf" \/ mem[p].link = 0 THEN {}
  ELSE {mem[p].link} \cup Later[mem[p].link]

\* The leaf that leaf_node_for_key ends at.
LeafFor(key) ==
  LET down[p \in NodePages] ==
        IF mem[p].type = "leaf" THEN p ELSE down[ChildFor(mem[p], key)]
  IN  down[RootPage]

\* The levels below a page, 0 where two of its leaves differ in depth.
Height[p \in NodePages] ==
  IF mem[p].type = "leaf" THEN 1
  ELSE LET below == {Height[c] : c \in Kids(mem[p])}
       IN  IF Cardinality(below) = 1 /\ 0 \notin below THEN 1 + Max(below) ELSE 0

\* Every cell of every leaf page, and the rows of the table they stand for.
LeafCells(pages) ==
  UNION {Range(pages[p].cells) : p \in {q \in NodePages : pages[q].type = "leaf"}}

\* The rows that a lookup by their key finds.
Found == {c \in LeafCells(mem) : c \in Range(mem[LeafFor(c.key)].cells)}

\* The rows that a walk along NEXT_LEAF from the leftmost leaf comes to.
Walked ==
  LET first == FirstLeaf[RootPage]
  IN  UNION {Range(mem[p].cells) : p \in {first} \cup Later[first]}

\* The rows in the leaves below a page.
Below[p \in NodePages] ==
  IF mem[p].type = "leaf" THEN Range(mem[p].cells)
  ELSE UNION {Below[c] : c \in Kids(mem[p])}

-----------------------------------------------------------------------------
\* A row that is stored is found by its primary key: leaf_node_for_key ends at
\* the very leaf that holds it.  A separator put into the wrong internal node,
\* or beside the wrong child, hides a whole subtree.
EveryRowIsFound ==
  Settled => \A p \in InUse : mem[p].type = "leaf" =>
               \A i \in 1 .. Len(mem[p].cells) : LeafFor(mem[p].cells[i].key) = p

\* Walking NEXT_LEAF from the leftmost leaf, as scans, UPDATE and DELETE do,
\* visits every leaf of the tree once and in the order of the tree: the last leaf
\* below a child is followed by the first leaf below the next child, and the last
\* leaf of the tree by none.
ChainIsTheLeaves ==
  Settled =>
    /\ mem[LastLeaf[RootPage]].link = 0
    /\ \A p \in InUse : mem[p].type = "internal" =>
         \A i \in 1 .. Len(mem[p].cells) :
           mem[LastLeaf[Child(mem[p], i)]].link = FirstLeaf[Child(mem[p], i + 1)]

\* A scan returns the rows in the order of their keys, and none twice: the keys of
\* a leaf ascend, and are below all those of the leaves that come later.
ScanIsSorted ==
  Settled => \A p \in InUse : mem[p].type = "leaf" =>
    \A i \in 1 .. Len(mem[p].cells) :
      /\ \A j \in i + 1 .. Len(mem[p].cells) : mem[p].cells[i].key < mem[p].cells[j].key
      /\ \A q \in Later[p] : \A j \in 1 .. Len(mem[q].cells) :
           mem[p].cells[i].key < mem[q].cells[j].key

\* Every child points back at its parent.  split_leaf_node and
\* split_internal_node trust the pointer to choose the node a separator goes to.
ParentPointers ==
  Settled => \A p \in InUse : mem[p].type = "internal" =>
               \A c \in Kids(mem[p]) : mem[c].parent = p /\ ~ mem[c].root

\* Splits keep every leaf at the same depth.
Balanced == Settled => Height[RootPage] > 0

\* Nothing but a parent pointer is lost by flushing only the dirty pages.
ChangesAreMarked ==
  Settled => \A p \in NodePages \ dirty :
               [mem[p] EXCEPT !.parent = 0] = [disk[p] EXCEPT !.parent = 0]

\* No page is left for the node that a separator has to be put into.  A root keeps all
\* that it has, and what lies right of the separator has no place; any other node has
\* been cleared but for its right child.
CutOff ==
  IF mem[at].root THEN Below[sep.right]
  ELSE (Below[at] \cup Below[sep.right]) \ Below[mem[at].link]

\* The way to the leftmost leaf leads through the node that is cleared, to page 0.
FirstLeafIsCutOff == ~ mem[at].root /\ FirstLeaf[at] = FirstLeaf[RootPage]

\* What an INSERT that finds no page left does to the rows.  If there is none for a
\* leaf, they are as before.  If there is one for the leaf but none for an internal
\* node above it, the row is stored although the reply is an error (insert_command),
\* and lookups no longer find the rows that split_internal_node has cut off, be it a
\* subtree or all but one of a node's; no other row is lost to them, and a walk
\* still comes to every row, the new one too, if it finds the first leaf.
ErrorsCutOff ==
  [][pc # "idle" /\ result'.code = "error" =>
       LET above == pc = "separator"
       IN  /\ Found' = IF above THEN LeafCells(mem) \ CutOff ELSE LeafCells(mem)
           /\ (above /\ FirstLeafIsCutOff) \/ Walked' = LeafCells(mem)]_vars

\* A statement that was begun comes to its end: no walk down the tree, up the
\* parents or along the leaves goes round for ever.
StatementsFinish == pc # "idle" ~> pc = "idle"

\* Every page number in a node is that of an allocated page of the right type:
\* a child of an internal node is a node, the parent of a node that is not a
\* root is an internal node, and a leaf is followed by a leaf.
LinkedAt(pages, count, p) ==
  /\ pages[p].type = "internal" => Kids(pages[p]) \subseteq 1 .. count - 1
  /\ ~ pages[p].root => /\ pages[p].parent \in 1 .. count - 1
                        /\ pages[pages[p].parent].type = "internal"
  /\ pages[p].type = "leaf" /\ pages[p].link # 0 =>
       /\ pages[p].link \in 1 .. count - 1
       /\ pages[pages[p].link].type = "leaf" /\ ~ pages[pages[p].link].root

WellLinked(pages, count) == \A p \in 1 .. count - 1 : LinkedAt(pages, count, p)

\* No step follows a pointer to the catalog page, to a page that was never
\* allocated or to a node of the wrong type; this holds even where a restart
\* has brought back an old parent pointer.
PointersLead ==
  result.code # "error" =>
    /\ WellLinked(mem, numPages)
    /\ pc = "separator" => mem[at].type = "internal"
    /\ pc = "walk" => mem[at].type = "leaf"

\* The inductive invariant behind TypeOK and PointersLead.
FileInv ==
  /\ filePages <= numPages
  /\ dirty \subseteq 1 .. numPages - 1
  /\ WellLinked(disk, filePages)

MemInv ==
  /\ \A p \in 1 .. numPages - 1 : p < filePages \/ p \in dirty
  /\ \A p \in NodePages \ dirty :
       [mem[p] EXCEPT !.parent = 0] = [disk[p] EXCEPT !.parent = 0]
  /\ \A p \in 1 .. filePages - 1 : disk[p].type = "internal" => mem[p].type = "internal"

StepInv ==
  /\ at \in 1 .. numPages - 1
  /\ pc # "idle" => result.code # "error"
  /\ pc = "descend" => stmt.op \in {"insert", "select"}
  /\ pc = "separator" => /\ stmt.op = "insert"
                         /\ {sep.left, sep.right} \subseteq 1 .. numPages - 1
  /\ pc \in {"first_leaf", "walk"} => stmt.op \in {"delete", "update"}

IInv ==
  /\ TypeOK
  /\ FileInv
  /\ result.code # "error" => MemInv
  /\ StepInv
  /\ PointersLead

-----------------------------------------------------------------------------
\* The cells of a table after an UPDATE.
Updated(cells, where, row) ==
  {IF c \in where THEN [c EXCEPT !.row = row] ELSE c : c \in cells}

\* The rows that the table is taken to have: at the prompt those that lookups find, and
\* those of all leaves while a statement is at work.  DELETE and UPDATE take effect when
\* their walk starts; the row of an INSERT whose separator is still on its way up is
\* not yet in the table.
Stored ==
  CASE pc = "idle" -> Found
    [] pc = "separator" -> LeafCells(mem) \ {[key |-> stmt.key, row |-> stmt.row]}
    [] pc = "walk" /\ stmt.op = "delete" -> LeafCells(mem) \ stmt.where
    [] pc = "walk" /\ stmt.op = "update" -> Updated(LeafCells(mem), stmt.where, stmt.row)
    [] OTHER -> LeafCells(mem)

\* The tree implements DurableTable.
Table ==
  INSTANCE DurableTable WITH
    table  <- Stored,
    saved  <- LeafCells(disk),
    stmt   <- IF pc = "walk" THEN NoStmt ELSE stmt,
    result <- IF pc = "walk" THEN Reply("success", {}) ELSE result

\* The tree behaves as a table of rows with distinct keys: each statement has
\* exactly the effect and the reply of the table, and a restart keeps the rows.  The
\* rows are those that can be found: a row in a page that no descent comes to does not
\* count.
ImplementsTable == Table!Spec

\* The pages as the tree uses them, which is what module Pager implements.
File ==
  INSTANCE PageFile WITH
    Pages <- NodePages, MayLose <- FALSE,
    content <- mem, marked <- dirty, count <- numPages,
    saved <- disk, savedCount <- filePages

\* The tree asks no more of its pages than the pager gives: it writes to pages
\* in use only, and a restart or a crash shows it what was saved.
UsesPageFile == File!Spec
=============================================================================
