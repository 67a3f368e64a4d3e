-------------------------------- MODULE Node --------------------------------
(***************************************************************************)
(* The contents of one B+ tree page, as src/src/btree.c lays them out, and *)
(* the pure operations on them.                                            *)
(*                                                                         *)
(* A node has the header of btree.h: NODE_TYPE, IS_ROOT, PARENT_POINTER    *)
(* and the word at offset 10 that a leaf uses as NEXT_LEAF and an internal *)
(* node as RIGHT_CHILD (field link); NUM_CELLS is the length of cells.     *)
(* A cell of a leaf holds a key and a row, a cell of an internal node a    *)
(* separator key and the page of the child to its left.  A row is a model  *)
(* value: the bytes of rows are the business of serialize_row.             *)
(***************************************************************************)
EXTENDS Integers, Sequences, FiniteSets, SequencesExt

CONSTANTS
  Keys,         \* the int64_t primary keys in use
  Rows,         \* the serialized rows
  LeafMax,      \* leaf_node_max_cells(row_size)
  InternalMax,  \* INTERNAL_NODE_MAX_KEYS
  MaxPages      \* TABLES_MAX_PAGES

ASSUME KeysAssumption == Keys \subseteq Int
ASSUME CapacityAssumption ==
  /\ LeafMax \in Nat /\ LeafMax >= 1
  /\ InternalMax \in Nat /\ InternalMax >= 2
  /\ MaxPages \in Nat /\ MaxPages >= 2

PageNum == 0 .. MaxPages - 1
\* Page 0 is the catalog; every other page is a node.
NodePages == PageNum \ {0}

LeafCell == [key : Keys, row : Rows]
\* 0 is the key of a cell that memset has cleared.
InternalCell == [key : Keys \cup {0}, child : PageNum]

Leaf == [type : {"leaf"}, root : BOOLEAN, parent : PageNum,
         link : PageNum, cells : Seq(LeafCell)]
Internal == [type : {"internal"}, root : BOOLEAN, parent : PageNum,
             link : PageNum, cells : Seq(InternalCell)]
\* No node outgrows its page, and an internal node always has a first cell.
LeafNode == {n \in Leaf : Len(n.cells) <= LeafMax}
InternalNode == {n \in Internal : Len(n.cells) \in 1 .. InternalMax}

-----------------------------------------------------------------------------
\* What pager_get_page hands out for a page the file does not hold.
ZeroPage == [type |-> "leaf", root |-> FALSE, parent |-> 0, link |-> 0,
             cells |-> <<>>]

\* leaf_node_init; the parent pointer is left as it was.
NewLeaf(parent) == [ZeroPage EXCEPT !.root = TRUE, !.parent = parent]

\* Mutant: the new cell always goes to the end.
PositionAtEnd(cells, key) == Len(cells)

\* leaf_node_find, internal_node_find: the index, from 0, of the first key that
\* is not below key.  Module NodeFind has the two binary searches.
Position(cells, key) ==
  Cardinality({i \in 1 .. Len(cells) : cells[i].key < key})

HasKey(cells, key) == \E i \in 1 .. Len(cells) : cells[i].key = key

\* The i-th child of an internal node, the right child last.
Child(node, i) == IF i = Len(node.cells) + 1 THEN node.link ELSE node.cells[i].child

\* Mutant: a key that equals a separator goes left.
ChildForStrict(node, key) ==
  Child(node, 1 + Cardinality({j \in 1 .. Len(node.cells) : node.cells[j].key < key}))

\* The body of the loop of leaf_node_for_key: the child after the last
\* separator that is not above key.
ChildFor(node, key) ==
  Child(node, 1 + Cardinality({j \in 1 .. Len(node.cells) : node.cells[j].key <= key}))

\* Every child an internal node points at.
Kids(node) == {node.cells[i].child : i \in 1 .. Len(node.cells)} \cup {node.link}

\* The cells of a leaf, or of split_leaf_node's temp buffer, with one more row.
WithRow(cells, key, row) ==
  InsertAt(cells, Position(cells, key) + 1, [key |-> key, row |-> row])

\* Mutant: the right half replaces the right child wherever the key lands.
WithSeparatorOnRight(node, sep) ==
  [node EXCEPT !.link = sep.right,
               !.cells = InsertAt(@, Position(@, sep.key) + 1, [key |-> sep.key, child |-> sep.left])]

\* internal_node_insert, and the temp_keys and temp_children of
\* split_internal_node: child left split into left and right at sep.key.
WithSeparator(node, sep) ==
  LET pos  == Position(node.cells, sep.key)
      wide == InsertAt(node.cells, pos + 1, [key |-> sep.key, child |-> sep.left])
  IN  IF pos = Len(node.cells)
      THEN [node EXCEPT !.cells = wide, !.link = sep.right]
      ELSE [node EXCEPT !.cells = [wide EXCEPT ![pos + 2].child = sep.right]]

\* split_leaf_node: the halves of an over-full buffer of LeafMax + 1 cells.
LeafMid == (LeafMax + 1) \div 2
LowCells(wide)  == SubSeq(wide, 1, LeafMid)
HighCells(wide) == SubSeq(wide, LeafMid + 1, LeafMax + 1)

\* split_internal_node: the halves of an over-full node of InternalMax + 1
\* cells, and the key between them that moves up.
InternalMid == InternalMax \div 2
LowNode(wide) ==
  [wide EXCEPT !.root = FALSE, !.cells = SubSeq(wide.cells, 1, InternalMid),
               !.link = wide.cells[InternalMid + 1].child]
HighNode(wide) ==
  [wide EXCEPT !.root = FALSE,
               !.cells = SubSeq(wide.cells, InternalMid + 2, InternalMax + 1)]
Promoted(wide) == wide.cells[InternalMid + 1].key

\* The root after its only leaf, or its only node, has been split in two.
RootOver(root, sep) ==
  [root EXCEPT !.type = "internal", !.root = TRUE, !.link = sep.right,
               !.cells = <<[key |-> sep.key, child |-> sep.left]>>]

\* An internal node whose cells memset has cleared and nothing has refilled.
Wiped(node) ==
  [node EXCEPT !.cells = [i \in 1 .. Len(node.cells) |-> [key |-> 0, child |-> 0]]]
=============================================================================
