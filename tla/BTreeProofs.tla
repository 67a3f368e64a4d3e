---------------------------- MODULE BTreeProofs ----------------------------
(***************************************************************************)
(* Proofs about module BTree.  First, lemmas about the operations on nodes *)
(* of module Node: what they return, how many cells it has and which pages *)
(* it points at.  Then IInv of BTreeProperties is inductive, for any       *)
(* number of keys, pages, sessions and any capacity of the nodes; and      *)
(* every step is one of PageFile, or leaves the pages alone.               *)
(***************************************************************************)
EXTENDS BTreeProperties, RecursionProofs, SequenceTheorems, FiniteSetTheorems

\* InsertAt lengthens a sequence by the element it puts at position i.
LEMMA InsertAtProperties ==
  ASSUME NEW S, NEW s \in Seq(S), NEW i \in 1 .. Len(s) + 1, NEW e \in S
  PROVE  /\ InsertAt(s, i, e) \in Seq(S)
         /\ Len(InsertAt(s, i, e)) = Len(s) + 1
         /\ \A j \in 1 .. i - 1 : InsertAt(s, i, e)[j] = s[j]
         /\ InsertAt(s, i, e)[i] = e
         /\ \A j \in i + 1 .. Len(s) + 1 : InsertAt(s, i, e)[j] = s[j - 1]
<1> DEFINE front == SubSeq(s, 1, i - 1)
           back  == SubSeq(s, i, Len(s))
<1>1. Len(s) \in Nat /\ \A j \in 1 .. Len(s) : s[j] \in S
  BY LenProperties, ElementOfSeq
<1>2. /\ front \in Seq(S) /\ Len(front) = i - 1
      /\ \A j \in 1 .. i - 1 : front[j] = s[j]
  <2>1. 1 \in Int /\ i - 1 \in Int /\ \A j \in 1 .. i - 1 : s[j] \in S
    BY <1>1
  <2> QED BY <2>1, <1>1, SubSeqProperties
<1>3. /\ back \in Seq(S) /\ Len(back) = Len(s) - i + 1
      /\ \A j \in 1 .. Len(s) - i + 1 : back[j] = s[i + j - 1]
  <2>1. i \in Int /\ Len(s) \in Int /\ \A j \in i .. Len(s) : s[j] \in S
    BY <1>1
  <2> QED BY <2>1, <1>1, SubSeqProperties
<1>4. /\ <<e>> \in Seq(S) /\ Len(<<e>>) = 1 /\ <<e>>[1] = e
  OBVIOUS
<1> HIDE DEF front, back
<1>5. /\ front \o <<e>> \in Seq(S) /\ Len(front \o <<e>>) = i
      /\ \A j \in 1 .. i : (front \o <<e>>)[j] = IF j < i THEN s[j] ELSE e
  BY <1>2, <1>4, ConcatProperties
<1>6. /\ (front \o <<e>>) \o back \in Seq(S)
      /\ Len((front \o <<e>>) \o back) = Len(s) + 1
      /\ \A j \in 1 .. Len(s) + 1 :
           ((front \o <<e>>) \o back)[j] =
             IF j < i THEN s[j] ELSE IF j = i THEN e ELSE s[j - 1]
  BY <1>1, <1>3, <1>5, ConcatProperties
<1>7. InsertAt(s, i, e) = (front \o <<e>>) \o back
  BY DEF InsertAt, front, back
<1> QED BY <1>1, <1>6, <1>7

\* RemoveAt leaves every element but the i-th.
LEMMA RemoveAtProperties ==
  ASSUME NEW S, NEW s \in Seq(S), NEW i \in 1 .. Len(s)
  PROVE  /\ RemoveAt(s, i) \in Seq(S)
         /\ Len(RemoveAt(s, i)) = Len(s) - 1
<1> DEFINE front == SubSeq(s, 1, i - 1)
           back  == SubSeq(s, i + 1, Len(s))
<1>1. Len(s) \in Nat /\ \A j \in 1 .. Len(s) : s[j] \in S
  BY LenProperties, ElementOfSeq
<1>2. front \in Seq(S) /\ Len(front) = i - 1
  <2>1. 1 \in Int /\ i - 1 \in Int /\ \A j \in 1 .. i - 1 : s[j] \in S
    BY <1>1
  <2> QED BY <2>1, <1>1, SubSeqProperties
<1>3. back \in Seq(S) /\ Len(back) = Len(s) - i
  <2>1. i + 1 \in Int /\ Len(s) \in Int /\ \A j \in i + 1 .. Len(s) : s[j] \in S
    BY <1>1
  <2> QED BY <2>1, <1>1, SubSeqProperties
<1> HIDE DEF front, back
<1>4. front \o back \in Seq(S) /\ Len(front \o back) = Len(s) - 1
  <2>1. front \o back \in Seq(S) /\ Len(front \o back) = Len(front) + Len(back)
    BY <1>2, <1>3, ConcatProperties
  <2>2. (i - 1) + (Len(s) - i) = Len(s) - 1
    BY <1>1
  <2> QED BY <2>1, <2>2, <1>2, <1>3
<1>5. RemoveAt(s, i) = front \o back
  BY DEF RemoveAt, front, back
<1> QED BY <1>4, <1>5

\* The number of indices that satisfy a condition is at most the length.
LEMMA CountOfIndices ==
  ASSUME NEW n \in Nat, NEW T \in SUBSET (1 .. n)
  PROVE  Cardinality(T) \in 0 .. n
<1>1. IsFiniteSet(1 .. n) /\ Cardinality(1 .. n) = n
  BY FS_Interval
<1>2. IsFiniteSet(T) /\ Cardinality(T) <= n
  BY <1>1, FS_Subset
<1> QED BY <1>2, FS_CardinalityType

LEMMA PositionInRange ==
  ASSUME NEW S, NEW cells \in Seq(S), NEW key
  PROVE  Position(cells, key) \in 0 .. Len(cells)
<1>1. Len(cells) \in Nat
  BY LenProperties
<1>2. {i \in 1 .. Len(cells) : cells[i].key < key} \in SUBSET (1 .. Len(cells))
  OBVIOUS
<1> QED BY <1>1, <1>2, CountOfIndices DEF Position

-----------------------------------------------------------------------------
\* A leaf's buffer with one more row is one cell longer.
LEMMA WithRowProperties ==
  ASSUME NEW cells \in Seq(LeafCell), NEW key \in Keys, NEW row \in Rows
  PROVE  /\ WithRow(cells, key, row) \in Seq(LeafCell)
         /\ Len(WithRow(cells, key, row)) = Len(cells) + 1
<1>1. Len(cells) \in Nat /\ Position(cells, key) \in 0 .. Len(cells)
  BY PositionInRange, LenProperties
<1>2. Position(cells, key) + 1 \in 1 .. Len(cells) + 1
  BY <1>1
<1>3. [key |-> key, row |-> row] \in LeafCell
  BY DEF LeafCell
<1> QED BY <1>2, <1>3, InsertAtProperties DEF WithRow

\* Both halves of an over-full leaf fit a leaf, and neither is empty.
LEMMA LeafHalves ==
  ASSUME NEW wide \in Seq(LeafCell), Len(wide) = LeafMax + 1
  PROVE  /\ LowCells(wide) \in Seq(LeafCell) /\ Len(LowCells(wide)) \in 1 .. LeafMax
         /\ HighCells(wide) \in Seq(LeafCell) /\ Len(HighCells(wide)) \in 1 .. LeafMax
         /\ HighCells(wide)[1].key \in Keys
<1>1. LeafMid \in 1 .. LeafMax
  BY CapacityAssumption DEF LeafMid
<1>2. \A i \in 1 .. LeafMax + 1 : wide[i] \in LeafCell
  BY ElementOfSeq
<1>3. /\ LowCells(wide) \in Seq(LeafCell) /\ Len(LowCells(wide)) = LeafMid
  <2>1. 1 \in Int /\ LeafMid \in Int /\ \A i \in 1 .. LeafMid : wide[i] \in LeafCell
    BY <1>1, <1>2, CapacityAssumption
  <2> QED BY <2>1, <1>1, SubSeqProperties DEF LowCells
<1>4. /\ HighCells(wide) \in Seq(LeafCell)
      /\ Len(HighCells(wide)) = LeafMax + 1 - LeafMid
  <2>1. /\ LeafMid + 1 \in Int /\ LeafMax + 1 \in Int
        /\ \A i \in LeafMid + 1 .. LeafMax + 1 : wide[i] \in LeafCell
    BY <1>1, <1>2, CapacityAssumption
  <2> QED BY <2>1, <1>1, SubSeqProperties, CapacityAssumption DEF HighCells
<1>5. LeafMax + 1 - LeafMid \in 1 .. LeafMax
  BY <1>1, CapacityAssumption
<1>6. HighCells(wide)[1] \in LeafCell
  BY <1>4, <1>5, ElementOfSeq
<1>7. HighCells(wide)[1].key \in Keys
  BY <1>6 DEF LeafCell
<1> QED BY <1>1, <1>3, <1>4, <1>5, <1>7

\* The way down from an internal node leads to one of its children.
LEMMA ChildForIsKid ==
  ASSUME NEW node \in Internal, NEW key
  PROVE  ChildFor(node, key) \in Kids(node)
<1> DEFINE T == {j \in 1 .. Len(node.cells) : node.cells[j].key <= key}
           i == Cardinality(T)
<1>1. node.cells \in Seq(InternalCell) /\ Len(node.cells) \in Nat
  BY LenProperties DEF Internal
<1>2. T \in SUBSET (1 .. Len(node.cells))
  OBVIOUS
<1>3. i \in 0 .. Len(node.cells)
  BY <1>1, <1>2, CountOfIndices
<1>4. ChildFor(node, key) = Child(node, 1 + i)
  BY DEF ChildFor
<1> HIDE DEF i, T
<1>5. CASE i = Len(node.cells)
  <2>1. 1 + i = Len(node.cells) + 1
    BY <1>5
  <2> QED BY <2>1, <1>4 DEF Kids, Child
<1>6. CASE i # Len(node.cells)
  <2>1. 1 + i \in 1 .. Len(node.cells) /\ 1 + i # Len(node.cells) + 1
    BY <1>1, <1>3, <1>6
  <2> QED BY <2>1, <1>4 DEF Kids, Child
<1> QED BY <1>5, <1>6

\* The children of an internal node are page numbers.
LEMMA KidsArePages ==
  ASSUME NEW node \in Internal
  PROVE  Kids(node) \subseteq PageNum
<1>1. \A i \in 1 .. Len(node.cells) : node.cells[i].child \in PageNum
  <2> TAKE i \in 1 .. Len(node.cells)
  <2>1. node.cells[i] \in InternalCell
    BY ElementOfSeq DEF Internal
  <2> QED BY <2>1 DEF InternalCell
<1>2. node.link \in PageNum
  BY DEF Internal
<1> QED BY <1>1, <1>2 DEF Kids

\* A separator goes in with the two children it parts, and no other child is
\* lost from, or added to, the node.
LEMMA WithSeparatorProperties ==
  ASSUME NEW node \in Internal,
         NEW up \in [key : Keys \cup {0}, left : PageNum, right : PageNum]
  PROVE  LET wide == WithSeparator(node, up)
         IN  /\ wide \in Internal
             /\ Len(wide.cells) = Len(node.cells) + 1
             /\ wide.root = node.root /\ wide.parent = node.parent
             /\ Kids(wide) \subseteq Kids(node) \cup {up.left, up.right}
<1> DEFINE pos == Position(node.cells, up.key)
           cell == [key |-> up.key, child |-> up.left]
           cells == InsertAt(node.cells, pos + 1, cell)
           wide == WithSeparator(node, up)
           n == Len(node.cells)
<1>1. node.cells \in Seq(InternalCell) /\ n \in Nat
  BY LenProperties DEF Internal
<1>2. pos \in 0 .. n /\ pos + 1 \in 1 .. n + 1
  BY <1>1, PositionInRange
<1>3. cell \in InternalCell /\ cell.child = up.left
  BY DEF InternalCell
<1>4. /\ cells \in Seq(InternalCell) /\ Len(cells) = n + 1
      /\ \A j \in 1 .. pos : cells[j] = node.cells[j]
      /\ cells[pos + 1] = cell
      /\ \A j \in pos + 2 .. n + 1 : cells[j] = node.cells[j - 1]
  <2> DEFINE s == node.cells
             i == pos + 1
             more == InsertAt(s, i, cell)
  <2>1. s \in Seq(InternalCell) /\ i \in 1 .. Len(s) + 1 /\ cell \in InternalCell
    BY <1>1, <1>2, <1>3
  <2> HIDE DEF s, i, cell
  <2>2. /\ more \in Seq(InternalCell) /\ Len(more) = Len(s) + 1
        /\ \A j \in 1 .. i - 1 : more[j] = s[j]
        /\ more[i] = cell
        /\ \A j \in i + 1 .. Len(s) + 1 : more[j] = s[j - 1]
    BY <2>1, InsertAtProperties, SMTT(60)
  <2> HIDE DEF more
  <2>3. cells = more
    BY DEF more, s, i
  <2> HIDE DEF cells, pos
  <2> QED BY <2>2, <2>3, <1>1, <1>2 DEF s, i
<1>5. \A j \in 1 .. n + 1 : cells[j].child \in Kids(node) \cup {up.left}
  <2> TAKE j \in 1 .. n + 1
  <2> HIDE DEF pos, cells
  <2>1. CASE j < pos + 1
    <3>1. j \in 1 .. n /\ cells[j] = node.cells[j]
      BY <1>1, <1>2, <1>4, <2>1
    <3> QED BY <3>1 DEF Kids
  <2>2. CASE j = pos + 1
    BY <1>3, <1>4, <2>2
  <2>3. CASE j > pos + 1
    <3>1. j - 1 \in 1 .. n /\ cells[j] = node.cells[j - 1]
      BY <1>1, <1>2, <1>4, <2>3
    <3> QED BY <3>1 DEF Kids
  <2> QED BY <1>1, <1>2, <2>1, <2>2, <2>3
<1>6. CASE pos = n
  <2>1. wide = [node EXCEPT !.cells = cells, !.link = up.right]
    BY <1>6 DEF WithSeparator
  <2> HIDE DEF cells, wide
  <2>2. wide \in Internal /\ wide.root = node.root /\ wide.parent = node.parent
        /\ wide.cells = cells /\ wide.link = up.right
    BY <2>1, <1>4 DEF Internal
  <2>3. Kids(wide) \subseteq Kids(node) \cup {up.left, up.right}
    BY <2>2, <1>4, <1>5, SMTT(20) DEF Kids
  <2> QED BY <2>2, <2>3, <1>4 DEF wide
<1>7. CASE pos # n
  <2> DEFINE new == [cells EXCEPT ![pos + 2].child = up.right]
             second == [cells[pos + 2] EXCEPT !.child = up.right]
  <2>1. wide = [node EXCEPT !.cells = new]
    BY <1>7 DEF WithSeparator
  <2>2. pos + 2 \in 1 .. Len(cells)
    BY <1>1, <1>2, <1>4, <1>7
  <2>3. cells[pos + 2] \in InternalCell
    <3> HIDE DEF cells
    <3> QED BY <1>4, <2>2, ElementOfSeq
  <2>4. second \in InternalCell /\ second.child = up.right
    <3> HIDE DEF cells
    <3> QED BY <2>3 DEF InternalCell
  <2>5. new = [cells EXCEPT ![pos + 2] = second]
    <3> HIDE DEF cells
    <3> QED OBVIOUS
  <2>6. /\ new \in Seq(InternalCell) /\ Len(new) = n + 1
        /\ \A j \in 1 .. n + 1 : new[j] = IF j = pos + 2 THEN second ELSE cells[j]
    <3> HIDE DEF cells, new, second
    <3> QED BY <1>4, <2>2, <2>4, <2>5, ExceptSeq
  <2> HIDE DEF cells, new, second, wide
  <2>7. /\ wide \in Internal /\ wide.root = node.root /\ wide.parent = node.parent
        /\ wide.cells = new /\ wide.link = node.link
    BY <2>1, <2>6 DEF Internal
  <2>8. \A j \in 1 .. n + 1 : new[j].child \in Kids(node) \cup {up.left, up.right}
    BY <2>4, <2>6, <1>5
  <2>9. node.link \in Kids(node)
    BY DEF Kids
  <2>10. Kids(wide) \subseteq Kids(node) \cup {up.left, up.right}
    BY <2>6, <2>7, <2>8, <2>9 DEF Kids
  <2> QED BY <2>6, <2>7, <2>10 DEF wide
<1> QED BY <1>6, <1>7

\* Both halves of an over-full internal node fit a node, each has a cell, and
\* they share out its children.
LEMMA InternalHalves ==
  ASSUME NEW wide \in Internal, Len(wide.cells) = InternalMax + 1
  PROVE  LET low  == LowNode(wide)
             high == HighNode(wide)
         IN  /\ low \in InternalNode /\ ~ low.root /\ low.parent = wide.parent
             /\ high \in InternalNode /\ ~ high.root /\ high.parent = wide.parent
             /\ Kids(low) \subseteq Kids(wide) /\ Kids(high) \subseteq Kids(wide)
             /\ Promoted(wide) \in Keys \cup {0}
<1> DEFINE m == InternalMid
           lowCells  == SubSeq(wide.cells, 1, m)
           highCells == SubSeq(wide.cells, m + 2, InternalMax + 1)
<1>1. m \in 1 .. InternalMax - 1 /\ InternalMax \in Nat
  BY CapacityAssumption DEF InternalMid
<1>2. \A i \in 1 .. InternalMax + 1 :
        wide.cells[i] \in InternalCell /\ wide.cells[i].child \in Kids(wide)
  <2> TAKE i \in 1 .. InternalMax + 1
  <2>1. wide.cells[i] \in InternalCell
    BY ElementOfSeq DEF Internal
  <2> QED BY <2>1 DEF Kids
<1>3. /\ lowCells \in Seq(InternalCell) /\ Len(lowCells) = m
      /\ \A i \in 1 .. m : lowCells[i] = wide.cells[i]
  <2> HIDE DEF m
  <2>1. 1 \in Int /\ m \in Int /\ \A i \in 1 .. m : wide.cells[i] \in InternalCell
    BY <1>1, <1>2
  <2>2. \A i \in 1 .. m : 1 + i - 1 = i /\ i \in 1 .. m - 1 + 1
    BY <1>1
  <2> QED BY <2>1, <2>2, <1>1, SubSeqProperties
<1>4. /\ highCells \in Seq(InternalCell) /\ Len(highCells) = InternalMax - m
      /\ \A i \in 1 .. InternalMax - m : highCells[i] = wide.cells[m + 1 + i]
  <2> HIDE DEF m
  <2>1. /\ m + 2 \in Int /\ InternalMax + 1 \in Int
        /\ \A i \in m + 2 .. InternalMax + 1 : wide.cells[i] \in InternalCell
    BY <1>1, <1>2
  <2>2. /\ highCells \in Seq(InternalCell)
        /\ Len(highCells) = IF m + 2 <= InternalMax + 1
                              THEN (InternalMax + 1) - (m + 2) + 1 ELSE 0
        /\ \A i \in 1 .. (InternalMax + 1) - (m + 2) + 1 :
             highCells[i] = wide.cells[(m + 2) + i - 1]
    BY <2>1, SubSeqProperties, Z3T(20)
  <2> HIDE DEF highCells
  <2>3. (InternalMax + 1) - (m + 2) + 1 = InternalMax - m
    BY <1>1
  <2>4. \A i \in 1 .. InternalMax - m : (m + 2) + i - 1 = m + 1 + i
    BY <1>1
  <2> QED BY <2>2, <2>3, <2>4, <1>1
<1>5. m + 1 \in 1 .. InternalMax + 1
  BY <1>1
<1> HIDE DEF m, lowCells, highCells
<1>6. /\ LowNode(wide) = [wide EXCEPT !.root = FALSE, !.cells = lowCells,
                                      !.link = wide.cells[m + 1].child]
      /\ HighNode(wide) = [wide EXCEPT !.root = FALSE, !.cells = highCells]
      /\ Promoted(wide) = wide.cells[m + 1].key
  BY DEF LowNode, HighNode, Promoted, m, lowCells, highCells
<1>7. /\ wide.cells[m + 1].child \in PageNum /\ wide.cells[m + 1].child \in Kids(wide)
      /\ wide.cells[m + 1].key \in Keys \cup {0}
  BY <1>2, <1>5 DEF InternalCell
<1>8. /\ LowNode(wide) \in InternalNode /\ ~ LowNode(wide).root
      /\ LowNode(wide).parent = wide.parent
      /\ LowNode(wide).cells = lowCells /\ LowNode(wide).link = wide.cells[m + 1].child
  <2> DEFINE low == LowNode(wide)
  <2> HIDE DEF low
  <2>1. low = [wide EXCEPT !.root = FALSE, !.cells = lowCells,
                           !.link = wide.cells[m + 1].child]
    BY <1>6 DEF low
  <2>2. /\ low \in Internal /\ ~ low.root /\ low.parent = wide.parent
        /\ low.cells = lowCells /\ low.link = wide.cells[m + 1].child
    BY <2>1, <1>3, <1>7 DEF Internal
  <2>3. Len(low.cells) \in 1 .. InternalMax
    BY <2>2, <1>1, <1>3
  <2> QED BY <2>2, <2>3 DEF InternalNode, low
<1>9. /\ HighNode(wide) \in InternalNode /\ ~ HighNode(wide).root
      /\ HighNode(wide).parent = wide.parent
      /\ HighNode(wide).cells = highCells /\ HighNode(wide).link = wide.link
  <2> DEFINE high == HighNode(wide)
  <2> HIDE DEF high
  <2>1. high = [wide EXCEPT !.root = FALSE, !.cells = highCells]
    BY <1>6 DEF high
  <2>2. /\ high \in Internal /\ ~ high.root /\ high.parent = wide.parent
        /\ high.cells = highCells /\ high.link = wide.link
    BY <2>1, <1>4 DEF Internal
  <2>3. Len(high.cells) \in 1 .. InternalMax
    BY <2>2, <1>1, <1>4
  <2> QED BY <2>2, <2>3 DEF InternalNode, high
<1>10. Kids(LowNode(wide)) \subseteq Kids(wide)
  <2>1. \A i \in 1 .. m : lowCells[i].child \in Kids(wide)
    BY <1>1, <1>2, <1>3
  <2> QED BY <2>1, <1>3, <1>7, <1>8 DEF Kids
<1>11. Kids(HighNode(wide)) \subseteq Kids(wide)
  <2>1. \A i \in 1 .. InternalMax - m : highCells[i].child \in Kids(wide)
    <3> TAKE i \in 1 .. InternalMax - m
    <3>1. m + 1 + i \in 1 .. InternalMax + 1 /\ highCells[i] = wide.cells[m + 1 + i]
      BY <1>1, <1>4
    <3> QED BY <3>1, <1>2
  <2>2. wide.link \in Kids(wide)
    BY DEF Kids
  <2> QED BY <2>1, <2>2, <1>4, <1>9 DEF Kids
<1> QED BY <1>6, <1>7, <1>8, <1>9, <1>10, <1>11

-----------------------------------------------------------------------------
\* The keys of cells ascend, and none is there twice.
Ascends(cells) == \A i, j \in 1 .. Len(cells) : i < j => cells[i].key < cells[j].key

\* A key on its way to the i-th child of a node.
Between(node, i, k) ==
  /\ i > 1 => node.cells[i - 1].key <= k
  /\ i <= Len(node.cells) => k < node.cells[i].key

\* A set of indices that has every index below one of its own is counted by its
\* last element.
LEMMA PrefixCount ==
  ASSUME NEW n \in Nat, NEW T \in SUBSET (1 .. n),
         \A i \in T : \A j \in 1 .. i : j \in T
  PROVE  /\ Cardinality(T) \in 0 .. n
         /\ T = 1 .. Cardinality(T)
<1> DEFINE S == {i \in 1 .. n + 1 : i \notin T}
<1>1. S \in SUBSET Nat /\ n + 1 \in S
  OBVIOUS
<1>2. PICK c \in S : \A m \in S : c <= m
  BY <1>1, LeastNumber
<1>3. c \in 1 .. n + 1 /\ c \notin T
  BY <1>2
<1>4. T = 1 .. c - 1
  <2>1. ASSUME NEW i \in T PROVE i \in 1 .. c - 1
    <3>1. i < c
      BY <1>3
    <3> QED BY <3>1, <1>3
  <2>2. ASSUME NEW i \in 1 .. c - 1 PROVE i \in T
    <3>1. i \in 1 .. n + 1 /\ ~ (c <= i)
      BY <1>3
    <3> QED BY <3>1, <1>2
  <2> QED BY <2>1, <2>2
<1>5. Cardinality(1 .. c - 1) = c - 1
  <2>1. 1 \in Int /\ c - 1 \in Int /\ c - 1 >= 0
    BY <1>3
  <2> QED BY <2>1, FS_Interval
<1> QED BY <1>3, <1>4, <1>5

\* The keys and the children of an internal node.
LEMMA InternalFields ==
  ASSUME NEW node \in Internal
  PROVE  /\ node.cells \in Seq(InternalCell) /\ Len(node.cells) \in Nat
         /\ \A i \in 1 .. Len(node.cells) : node.cells[i].key \in Int
         /\ \A i \in 1 .. Len(node.cells) + 1 : Child(node, i) \in PageNum
         /\ \A c : c \in Kids(node) <=> \E i \in 1 .. Len(node.cells) + 1 : Child(node, i) = c
<1>1. node.cells \in Seq(InternalCell) /\ Len(node.cells) \in Nat /\ node.link \in PageNum
  BY LenProperties DEF Internal
<1>2. \A i \in 1 .. Len(node.cells) : node.cells[i] \in InternalCell
  BY <1>1, ElementOfSeq
<1>3. \A i \in 1 .. Len(node.cells) : node.cells[i].key \in Int
  <2> TAKE i \in 1 .. Len(node.cells)
  <2> DEFINE key == node.cells[i].key
  <2>1. key \in Keys \cup {0}
    BY <1>2 DEF InternalCell
  <2> HIDE DEF key
  <2>2. key \in Int
    BY <2>1, KeysAssumption
  <2> QED BY <2>2 DEF key
<1>4. \A i \in 1 .. Len(node.cells) + 1 : Child(node, i) \in PageNum
  BY <1>1, <1>2 DEF Child, InternalCell
<1>5. ASSUME NEW c
      PROVE  c \in Kids(node) <=> \E i \in 1 .. Len(node.cells) + 1 : Child(node, i) = c
  <2>1. ASSUME c \in Kids(node)
        PROVE  \E i \in 1 .. Len(node.cells) + 1 : Child(node, i) = c
    <3>1. CASE c = node.link
      <4>1. Len(node.cells) + 1 \in 1 .. Len(node.cells) + 1
        BY <1>1
      <4> QED BY <4>1, <3>1 DEF Child
    <3>2. CASE c # node.link
      <4>1. PICK i \in 1 .. Len(node.cells) : c = node.cells[i].child
        BY <2>1, <3>2 DEF Kids
      <4>2. i \in 1 .. Len(node.cells) + 1 /\ i # Len(node.cells) + 1
        BY <1>1
      <4> QED BY <4>1, <4>2 DEF Child
    <3> QED BY <3>1, <3>2
  <2>2. ASSUME NEW i \in 1 .. Len(node.cells) + 1, Child(node, i) = c
        PROVE  c \in Kids(node)
    <3>1. i = Len(node.cells) + 1 \/ i \in 1 .. Len(node.cells)
      BY <1>1
    <3> QED BY <3>1, <2>2 DEF Child, Kids
  <2> QED BY <2>1, <2>2
<1> QED BY <1>1, <1>3, <1>4, <1>5

\* A key goes to one child of a node only, and leaf_node_for_key takes it there.
LEMMA RouteExists ==
  ASSUME NEW node \in Internal, Ascends(node.cells), NEW k \in Int
  PROVE  \E i \in 1 .. Len(node.cells) + 1 :
           Between(node, i, k) /\ ChildFor(node, k) = Child(node, i)
<1> DEFINE n == Len(node.cells)
           T == {j \in 1 .. n : node.cells[j].key <= k}
           c == Cardinality(T)
<1>1. n \in Nat /\ \A i \in 1 .. n : node.cells[i].key \in Int
  BY InternalFields
<1>2. \A i \in T : \A j \in 1 .. i : j \in T
  <2> TAKE i \in T
  <2> TAKE j \in 1 .. i
  <2>1. j \in 1 .. n /\ (j = i \/ j < i)
    BY <1>1
  <2>2. node.cells[j].key <= node.cells[i].key
    BY <2>1, <1>1 DEF Ascends
  <2> QED BY <2>1, <2>2, <1>1
<1>3. c \in 0 .. n /\ T = 1 .. c
  <2>1. T \in SUBSET (1 .. n)
    OBVIOUS
  <2> HIDE DEF T, n
  <2> QED BY <2>1, <1>1, <1>2, PrefixCount
<1>4. ChildFor(node, k) = Child(node, 1 + c)
  BY DEF ChildFor
<1>5. Between(node, 1 + c, k)
  <2> HIDE DEF c
  <2>1. 1 + c > 1 => node.cells[(1 + c) - 1].key <= k
    <3> SUFFICES ASSUME c >= 1 PROVE node.cells[c].key <= k
      BY <1>1, <1>3
    <3> QED BY <1>1, <1>3
  <2>2. 1 + c <= n => k < node.cells[1 + c].key
    <3> SUFFICES ASSUME 1 + c <= n PROVE k < node.cells[1 + c].key
      OBVIOUS
    <3>1. 1 + c \in 1 .. n /\ 1 + c \notin T
      BY <1>1, <1>3
    <3> QED BY <3>1, <1>1
  <2> QED BY <2>1, <2>2 DEF Between
<1>6. 1 + c \in 1 .. n + 1
  <2> HIDE DEF c
  <2> QED BY <1>1, <1>3
<1> QED BY <1>4, <1>5, <1>6

LEMMA AscendsWeakly ==
  ASSUME NEW cells, Ascends(cells), \A i \in 1 .. Len(cells) : cells[i].key \in Int
  PROVE  \A a, b \in 1 .. Len(cells) : a <= b => cells[a].key <= cells[b].key
<1> TAKE a, b \in 1 .. Len(cells)
<1>1. CASE a < b
  <2>1. cells[a].key < cells[b].key
    BY <1>1 DEF Ascends
  <2> QED BY <2>1
<1>2. CASE a = b
  BY <1>2
<1>3. a <= b => a < b \/ a = b
  OBVIOUS
<1> QED BY <1>1, <1>2, <1>3

LEMMA RouteUnique ==
  ASSUME NEW node \in Internal, Ascends(node.cells), NEW k \in Int,
         NEW i \in 1 .. Len(node.cells) + 1, Between(node, i, k),
         NEW j \in 1 .. Len(node.cells) + 1, Between(node, j, k)
  PROVE  i = j
<1>1. Len(node.cells) \in Nat /\ \A a \in 1 .. Len(node.cells) : node.cells[a].key \in Int
  BY InternalFields
<1>2. \A a, b \in 1 .. Len(node.cells) : a <= b => node.cells[a].key <= node.cells[b].key
  BY <1>1, AscendsWeakly
<1>3. ASSUME NEW a \in 1 .. Len(node.cells) + 1, Between(node, a, k),
             NEW b \in 1 .. Len(node.cells) + 1, Between(node, b, k), a < b
      PROVE  FALSE
  <2>1. PICK c \in 1 .. Len(node.cells) : c = b - 1 /\ a <= c
    BY <1>1, <1>3
  <2>2. a \in 1 .. Len(node.cells) /\ b > 1
    BY <1>1, <1>3
  <2>3. k < node.cells[a].key /\ node.cells[c].key <= k
    BY <2>1, <2>2, <1>1, <1>3 DEF Between
  <2>4. node.cells[a].key <= node.cells[c].key
    BY <2>1, <2>2, <1>2
  <2> QED BY <2>2, <2>3, <2>4, <1>1
<1>4. i < j \/ j < i \/ i = j
  BY <1>1
<1> QED BY <1>3, <1>4

\* Where leaf_node_find and internal_node_find put a key between its neighbours.
LEMMA PositionIs ==
  ASSUME NEW cells, Len(cells) \in Nat, \A i \in 1 .. Len(cells) : cells[i].key \in Int,
         Ascends(cells), NEW k \in Int, NEW i \in 1 .. Len(cells) + 1,
         i > 1 => cells[i - 1].key < k, i <= Len(cells) => k <= cells[i].key
  PROVE  Position(cells, k) = i - 1
<1> DEFINE n == Len(cells)
           T == {j \in 1 .. n : cells[j].key < k}
<1>1. ASSUME NEW j \in 1 .. n PROVE j \in T <=> j \in 1 .. i - 1
  <2>1. CASE j < i
    <3>1. i - 1 \in 1 .. n /\ (j = i - 1 \/ j < i - 1) /\ i > 1
      BY <2>1
    <3>2. cells[j].key <= cells[i - 1].key
      BY <3>1 DEF Ascends
    <3>3. cells[i - 1].key < k
      BY <3>1
    <3>4. cells[j].key \in Int /\ cells[i - 1].key \in Int
      BY <3>1
    <3>5. cells[j].key < k
      BY <3>2, <3>3, <3>4
    <3> QED BY <3>5, <2>1
  <2>2. CASE ~ (j < i)
    <3>1. i \in 1 .. n /\ (j = i \/ i < j)
      BY <2>2
    <3>2. cells[i].key <= cells[j].key
      BY <3>1 DEF Ascends
    <3>3. k <= cells[i].key
      BY <3>1
    <3>4. cells[j].key \in Int /\ cells[i].key \in Int
      BY <3>1
    <3>5. ~ (cells[j].key < k)
      BY <3>2, <3>3, <3>4
    <3> QED BY <3>5, <2>2
  <2> QED BY <2>1, <2>2
<1>2. T = 1 .. i - 1
  <2>1. 1 .. i - 1 \subseteq 1 .. n
    OBVIOUS
  <2> QED BY <2>1, <1>1
<1>3. Cardinality(1 .. i - 1) = i - 1
  <2>1. 1 \in Int /\ i - 1 \in Int /\ i - 1 >= 0
    OBVIOUS
  <2> QED BY <2>1, FS_Interval
<1> QED BY <1>2, <1>3 DEF Position

\* What is on either side of the place where a key goes.
LEMMA PositionParts ==
  ASSUME NEW cells, Len(cells) \in Nat, Ascends(cells),
         \A i \in 1 .. Len(cells) : cells[i].key \in Int, NEW k \in Int
  PROVE  /\ Position(cells, k) \in 0 .. Len(cells)
         /\ \A j \in 1 .. Position(cells, k) : j \in 1 .. Len(cells) /\ cells[j].key < k
         /\ \A j \in Position(cells, k) + 1 .. Len(cells) :
              j \in 1 .. Len(cells) /\ k <= cells[j].key
<1> DEFINE n == Len(cells)
           T == {j \in 1 .. n : cells[j].key < k}
           c == Cardinality(T)
<1>1. \A i \in T : \A j \in 1 .. i : j \in T
  <2> TAKE i \in T
  <2> TAKE j \in 1 .. i
  <2>1. j \in 1 .. n /\ j <= i
    OBVIOUS
  <2>2. cells[j].key <= cells[i].key
    BY <2>1, AscendsWeakly
  <2>3. cells[j].key \in Int /\ cells[i].key \in Int
    BY <2>1
  <2> QED BY <2>1, <2>2, <2>3
<1>2. c \in 0 .. n /\ T = 1 .. c
  <2>1. T \in SUBSET (1 .. n) /\ n \in Nat
    OBVIOUS
  <2> HIDE DEF T, n
  <2> QED BY <2>1, <1>1, PrefixCount
<1>3. Position(cells, k) = c
  BY DEF Position
<1> HIDE DEF c
<1>4. \A j \in 1 .. c : j \in 1 .. n /\ cells[j].key < k
  BY <1>2
<1>5. \A j \in c + 1 .. n : j \in 1 .. n /\ k <= cells[j].key
  <2> TAKE j \in c + 1 .. n
  <2>1. j \in 1 .. n /\ j \notin T
    BY <1>2
  <2> QED BY <2>1
<1> QED BY <1>2, <1>3, <1>4, <1>5

\* A node with one more separator: its keys and its children, left to right.
LEMMA WithSeparatorCells ==
  ASSUME NEW node \in Internal,
         NEW up \in [key : Keys \cup {0}, left : PageNum, right : PageNum],
         NEW pos, pos = Position(node.cells, up.key)
  PROVE  LET wide == WithSeparator(node, up)
             n == Len(node.cells)
         IN  /\ wide \in Internal /\ Len(wide.cells) = n + 1
             /\ wide.root = node.root /\ wide.parent = node.parent
             /\ \A j \in 1 .. pos : wide.cells[j].key = node.cells[j].key
             /\ wide.cells[pos + 1].key = up.key
             /\ \A j \in pos + 2 .. n + 1 : wide.cells[j].key = node.cells[j - 1].key
             /\ \A j \in 1 .. pos : Child(wide, j) = Child(node, j)
             /\ Child(wide, pos + 1) = up.left
             /\ Child(wide, pos + 2) = up.right
             /\ \A j \in pos + 3 .. n + 2 : Child(wide, j) = Child(node, j - 1)
<1> DEFINE cell == [key |-> up.key, child |-> up.left]
           cells == InsertAt(node.cells, pos + 1, cell)
           wide == WithSeparator(node, up)
           n == Len(node.cells)
<1>1. node.cells \in Seq(InternalCell) /\ n \in Nat
  BY LenProperties DEF Internal
<1>2. pos \in 0 .. n /\ pos + 1 \in 1 .. n + 1
  BY <1>1, PositionInRange
<1>3. cell \in InternalCell /\ cell.child = up.left /\ cell.key = up.key
  BY DEF InternalCell
<1>4. /\ cells \in Seq(InternalCell) /\ Len(cells) = n + 1
      /\ \A j \in 1 .. pos : cells[j] = node.cells[j]
      /\ cells[pos + 1] = cell
      /\ \A j \in pos + 2 .. n + 1 : cells[j] = node.cells[j - 1]
  <2> DEFINE s == node.cells
             i == pos + 1
             more == InsertAt(s, i, cell)
  <2>1. s \in Seq(InternalCell) /\ i \in 1 .. Len(s) + 1 /\ cell \in InternalCell
    BY <1>1, <1>2, <1>3
  <2> HIDE DEF s, i, cell
  <2>2. /\ more \in Seq(InternalCell) /\ Len(more) = Len(s) + 1
        /\ \A j \in 1 .. i - 1 : more[j] = s[j]
        /\ more[i] = cell
        /\ \A j \in i + 1 .. Len(s) + 1 : more[j] = s[j - 1]
    BY <2>1, InsertAtProperties, SMTT(60)
  <2> HIDE DEF more
  <2>3. cells = more
    BY DEF more, s, i
  <2> HIDE DEF cells
  <2> QED BY <2>2, <2>3, <1>1, <1>2 DEF s, i
<1>5. CASE pos = n
  <2>1. wide = [node EXCEPT !.cells = cells, !.link = up.right]
    BY <1>5 DEF WithSeparator
  <2> HIDE DEF cells, wide, cell
  <2>2. wide \in Internal /\ wide.root = node.root /\ wide.parent = node.parent
        /\ wide.cells = cells /\ wide.link = up.right
    BY <2>1, <1>4 DEF Internal
  <2>3. \A j \in 1 .. pos : Child(wide, j) = Child(node, j)
    <3> TAKE j \in 1 .. pos
    <3>1. j # n + 1 /\ j # n + 2
      BY <1>1, <1>5
    <3> QED BY <3>1, <2>2, <1>1, <1>4 DEF Child
  <2>4. Child(wide, pos + 1) = up.left
    BY <2>2, <1>1, <1>3, <1>4, <1>5 DEF Child
  <2>5. Child(wide, pos + 2) = up.right
    BY <2>2, <1>1, <1>4, <1>5 DEF Child
  <2>6. \A j \in pos + 3 .. n + 2 : FALSE
    BY <1>1, <1>5
  <2>7. /\ wide.cells[pos + 1].key = up.key
        /\ \A j \in 1 .. pos : wide.cells[j].key = node.cells[j].key
        /\ \A j \in pos + 2 .. n + 1 : wide.cells[j].key = node.cells[j - 1].key
    BY <2>2, <1>3, <1>4
  <2> QED BY <2>2, <2>3, <2>4, <2>5, <2>6, <2>7, <1>4 DEF wide
<1>6. CASE pos # n
  <2> DEFINE new == [cells EXCEPT ![pos + 2].child = up.right]
             second == [cells[pos + 2] EXCEPT !.child = up.right]
  <2>1. wide = [node EXCEPT !.cells = new]
    BY <1>6 DEF WithSeparator
  <2>2. pos + 2 \in 1 .. n + 1 /\ pos + 2 \in 1 .. Len(cells) /\ pos \in Nat /\ pos < n
    <3> HIDE DEF cells
    <3> QED BY <1>1, <1>2, <1>4, <1>6
  <2>3. cells[pos + 2] \in InternalCell
    <3> HIDE DEF cells
    <3> QED BY <1>4, <2>2, ElementOfSeq
  <2>4. second \in InternalCell /\ second.child = up.right /\ second.key = cells[pos + 2].key
    <3> HIDE DEF cells
    <3> QED BY <2>3 DEF InternalCell
  <2>5. new = [cells EXCEPT ![pos + 2] = second]
    <3> HIDE DEF cells
    <3> QED OBVIOUS
  <2>6. /\ new \in Seq(InternalCell) /\ Len(new) = n + 1
        /\ \A j \in 1 .. n + 1 : new[j] = IF j = pos + 2 THEN second ELSE cells[j]
    <3> HIDE DEF cells, new, second
    <3> QED BY <1>4, <2>2, <2>4, <2>5, ExceptSeq
  <2> HIDE DEF cells, new, second, wide, cell
  <2>7. /\ wide \in Internal /\ wide.root = node.root /\ wide.parent = node.parent
        /\ wide.cells = new /\ wide.link = node.link
    BY <2>1, <2>6 DEF Internal
  <2>8. \A j \in 1 .. pos : new[j] = node.cells[j]
    <3> TAKE j \in 1 .. pos
    <3>1. j \in 1 .. n + 1 /\ j # pos + 2
      BY <2>2, <1>1
    <3> QED BY <3>1, <2>6, <1>4
  <2>9. new[pos + 1] = cell
    BY <2>2, <2>6, <1>1, <1>4
  <2>10. \A j \in pos + 3 .. n + 1 : new[j] = node.cells[j - 1]
    BY <2>2, <2>6, <1>1, <1>4
  <2>11. new[pos + 2].key = node.cells[pos + 1].key /\ new[pos + 2].child = up.right
    <3>1. cells[pos + 2] = node.cells[(pos + 2) - 1] /\ (pos + 2) - 1 = pos + 1
      BY <2>2, <1>4
    <3> QED BY <3>1, <2>2, <2>4, <2>6
  <2>12. \A j \in 1 .. pos : Child(wide, j) = Child(node, j)
    <3> TAKE j \in 1 .. pos
    <3>1. j # n + 1 /\ j # (n + 1) + 1
      BY <2>2, <1>1
    <3> QED BY <3>1, <2>6, <2>7, <2>8 DEF Child
  <2>13. Child(wide, pos + 1) = up.left /\ Child(wide, pos + 2) = up.right
    <3>1. pos + 1 # (n + 1) + 1 /\ pos + 2 # (n + 1) + 1
      BY <2>2, <1>1
    <3> QED BY <3>1, <2>6, <2>7, <2>9, <2>11, <1>3 DEF Child
  <2>14. \A j \in pos + 3 .. n + 2 : Child(wide, j) = Child(node, j - 1)
    <3> TAKE j \in pos + 3 .. n + 2
    <3>1. CASE j = n + 2
      <4>1. j = (n + 1) + 1 /\ j - 1 = n + 1
        BY <3>1, <1>1
      <4> QED BY <4>1, <2>6, <2>7 DEF Child
    <3>2. CASE j # n + 2
      <4>1. j \in pos + 3 .. n + 1 /\ j # (n + 1) + 1 /\ j - 1 # n + 1
        BY <3>2, <2>2, <1>1
      <4>2. new[j] = node.cells[j - 1]
        BY <4>1, <2>10
      <4> QED BY <4>1, <4>2, <2>6, <2>7 DEF Child
    <3> QED BY <3>1, <3>2
  <2>15. \A j \in pos + 2 .. n + 1 : new[j].key = node.cells[j - 1].key
    <3> TAKE j \in pos + 2 .. n + 1
    <3>1. CASE j = pos + 2
      <4>1. j - 1 = pos + 1
        BY <3>1, <2>2
      <4> QED BY <4>1, <3>1, <2>11
    <3>2. CASE j # pos + 2
      <4>1. j \in pos + 3 .. n + 1
        BY <3>2, <2>2, <1>1
      <4> QED BY <4>1, <2>10
    <3> QED BY <3>1, <3>2
  <2> QED BY <2>6, <2>7, <2>8, <2>9, <2>12, <2>13, <2>14, <2>15, <1>3 DEF wide
<1> QED BY <1>5, <1>6

\* The keys and the children of the halves of an over-full internal node.
LEMMA HalvesCells ==
  ASSUME NEW wide \in Internal, Len(wide.cells) = InternalMax + 1
  PROVE  LET low  == LowNode(wide)
             high == HighNode(wide)
             m    == InternalMid
         IN  /\ m \in 1 .. InternalMax - 1
             /\ low \in Internal /\ Len(low.cells) = m
             /\ high \in Internal /\ Len(high.cells) = InternalMax - m
             /\ ~ low.root /\ low.parent = wide.parent
             /\ ~ high.root /\ high.parent = wide.parent
             /\ \A j \in 1 .. m : low.cells[j].key = wide.cells[j].key
             /\ \A j \in 1 .. m + 1 : Child(low, j) = Child(wide, j)
             /\ \A j \in 1 .. InternalMax - m : high.cells[j].key = wide.cells[m + 1 + j].key
             /\ \A j \in 1 .. InternalMax - m + 1 : Child(high, j) = Child(wide, m + 1 + j)
             /\ Promoted(wide) = wide.cells[m + 1].key
<1> DEFINE m == InternalMid
           lowCells  == SubSeq(wide.cells, 1, m)
           highCells == SubSeq(wide.cells, m + 2, InternalMax + 1)
           low  == LowNode(wide)
           high == HighNode(wide)
<1>1. m \in 1 .. InternalMax - 1 /\ InternalMax \in Nat
  BY CapacityAssumption DEF InternalMid
<1>2. \A i \in 1 .. InternalMax + 1 : wide.cells[i] \in InternalCell
  BY ElementOfSeq DEF Internal
<1>3. /\ lowCells \in Seq(InternalCell) /\ Len(lowCells) = m
      /\ \A i \in 1 .. m : lowCells[i] = wide.cells[i]
  <2> HIDE DEF m
  <2>1. 1 \in Int /\ m \in Int /\ \A i \in 1 .. m : wide.cells[i] \in InternalCell
    BY <1>1, <1>2
  <2>2. \A i \in 1 .. m : 1 + i - 1 = i /\ i \in 1 .. m - 1 + 1
    BY <1>1
  <2> QED BY <2>1, <2>2, <1>1, SubSeqProperties
<1>4. /\ highCells \in Seq(InternalCell) /\ Len(highCells) = InternalMax - m
      /\ \A i \in 1 .. InternalMax - m : highCells[i] = wide.cells[m + 1 + i]
  <2> HIDE DEF m
  <2>1. /\ m + 2 \in Int /\ InternalMax + 1 \in Int
        /\ \A i \in m + 2 .. InternalMax + 1 : wide.cells[i] \in InternalCell
    BY <1>1, <1>2
  <2>2. /\ highCells \in Seq(InternalCell)
        /\ Len(highCells) = IF m + 2 <= InternalMax + 1
                              THEN (InternalMax + 1) - (m + 2) + 1 ELSE 0
        /\ \A i \in 1 .. (InternalMax + 1) - (m + 2) + 1 :
             highCells[i] = wide.cells[(m + 2) + i - 1]
    BY <2>1, SubSeqProperties, Z3T(20)
  <2> HIDE DEF highCells
  <2>3. (InternalMax + 1) - (m + 2) + 1 = InternalMax - m
    BY <1>1
  <2>4. \A i \in 1 .. InternalMax - m : (m + 2) + i - 1 = m + 1 + i
    BY <1>1
  <2> QED BY <2>2, <2>3, <2>4, <1>1
<1>5. m + 1 \in 1 .. InternalMax + 1 /\ wide.cells[m + 1].child \in PageNum
  <2>1. m + 1 \in 1 .. InternalMax + 1
    BY <1>1
  <2> QED BY <2>1, <1>2 DEF InternalCell
<1> HIDE DEF m, lowCells, highCells
<1>6. /\ low = [wide EXCEPT !.root = FALSE, !.cells = lowCells,
                            !.link = wide.cells[m + 1].child]
      /\ high = [wide EXCEPT !.root = FALSE, !.cells = highCells]
      /\ Promoted(wide) = wide.cells[m + 1].key
  BY DEF LowNode, HighNode, Promoted, m, lowCells, highCells
<1> HIDE DEF low, high
<1>7. /\ low \in Internal /\ ~ low.root /\ low.parent = wide.parent
      /\ low.cells = lowCells /\ low.link = wide.cells[m + 1].child
  BY <1>3, <1>5, <1>6 DEF Internal
<1>8. /\ high \in Internal /\ ~ high.root /\ high.parent = wide.parent
      /\ high.cells = highCells /\ high.link = wide.link
  BY <1>4, <1>6 DEF Internal
<1>9. \A j \in 1 .. m + 1 : Child(low, j) = Child(wide, j)
  <2> TAKE j \in 1 .. m + 1
  <2>1. j # (InternalMax + 1) + 1
    BY <1>1
  <2>2. Child(wide, j) = wide.cells[j].child
    BY <2>1 DEF Child
  <2>3. CASE j = m + 1
    BY <2>2, <2>3, <1>3, <1>7 DEF Child
  <2>4. CASE j # m + 1
    <3>1. j \in 1 .. m
      BY <2>4, <1>1
    <3> QED BY <3>1, <2>2, <2>4, <1>3, <1>7 DEF Child
  <2> QED BY <2>3, <2>4
<1>10. \A j \in 1 .. InternalMax - m + 1 : Child(high, j) = Child(wide, m + 1 + j)
  <2> TAKE j \in 1 .. InternalMax - m + 1
  <2>1. CASE j = InternalMax - m + 1
    <3>1. m + 1 + j = (InternalMax + 1) + 1
      BY <2>1, <1>1
    <3> QED BY <3>1, <2>1, <1>4, <1>8 DEF Child
  <2>2. CASE j # InternalMax - m + 1
    <3>1. j \in 1 .. InternalMax - m /\ m + 1 + j # (InternalMax + 1) + 1
      BY <2>2, <1>1
    <3>2. highCells[j] = wide.cells[m + 1 + j]
      BY <3>1, <1>4
    <3> QED BY <3>1, <3>2, <2>2, <1>4, <1>8 DEF Child
  <2> QED BY <2>1, <2>2
<1> QED BY <1>1, <1>3, <1>4, <1>6, <1>7, <1>8, <1>9, <1>10 DEF low, high, m

-----------------------------------------------------------------------------
\* The ascending rows of a leaf with one more.
Wider(wide, cells, row) ==
  /\ wide \in Seq(LeafCell) /\ Len(wide) = Len(cells) + 1 /\ Ascends(wide)
  /\ \A i \in 1 .. Len(wide) : wide[i] = row \/ \E j \in 1 .. Len(cells) : wide[i] = cells[j]
  /\ \E i \in 1 .. Len(wide) : wide[i] = row
  /\ \A j \in 1 .. Len(cells) : \E i \in 1 .. Len(wide) : wide[i] = cells[j]

\* A leaf with one more row: its cells are the old ones and the new one, and their
\* keys still ascend.
LEMMA WithRowCells ==
  ASSUME NEW cells \in Seq(LeafCell), NEW key \in Keys, NEW row \in Rows,
         Ascends(cells), ~ HasKey(cells, key)
  PROVE  Wider(WithRow(cells, key, row), cells, [key |-> key, row |-> row])
<1> DEFINE pos == Position(cells, key)
           cell == [key |-> key, row |-> row]
           wide == WithRow(cells, key, row)
           n == Len(cells)
<1>1. /\ n \in Nat /\ key \in Int
      /\ \A j \in 1 .. n : cells[j] \in LeafCell /\ cells[j].key \in Int
  <2>1. n \in Nat /\ \A j \in 1 .. n : cells[j] \in LeafCell
    BY LenProperties, ElementOfSeq
  <2>2. \A c \in LeafCell : c.key \in Keys
    BY DEF LeafCell
  <2> QED BY <2>1, <2>2, KeysAssumption
<1>2. /\ pos \in 0 .. n
      /\ \A j \in 1 .. pos : j \in 1 .. n /\ cells[j].key < key
      /\ \A j \in pos + 1 .. n : j \in 1 .. n /\ key <= cells[j].key
  BY <1>1, PositionParts
<1>3. cell \in LeafCell /\ cell.key = key
  BY DEF LeafCell
<1> HIDE DEF pos, cell
<1>4. /\ wide \in Seq(LeafCell) /\ Len(wide) = n + 1
      /\ \A j \in 1 .. pos : wide[j] = cells[j]
      /\ wide[pos + 1] = cell
      /\ \A j \in pos + 2 .. n + 1 : wide[j] = cells[j - 1]
  <2> DEFINE i == pos + 1
             more == InsertAt(cells, i, cell)
  <2>1. i \in 1 .. Len(cells) + 1
    BY <1>1, <1>2
  <2> HIDE DEF i
  <2>2. /\ more \in Seq(LeafCell) /\ Len(more) = Len(cells) + 1
        /\ \A j \in 1 .. i - 1 : more[j] = cells[j]
        /\ more[i] = cell
        /\ \A j \in i + 1 .. Len(cells) + 1 : more[j] = cells[j - 1]
    BY <2>1, <1>3, InsertAtProperties, SMTT(60)
  <2> HIDE DEF more
  <2>3. wide = more
    BY DEF WithRow, more, i, pos, cell
  <2> HIDE DEF wide
  <2> QED BY <2>2, <2>3, <1>1, <1>2 DEF i
<1> HIDE DEF wide
<1>5. ASSUME NEW j \in pos + 2 .. n + 1
      PROVE  j - 1 \in 1 .. n /\ wide[j] = cells[j - 1] /\ key < cells[j - 1].key
  <2>1. j - 1 \in pos + 1 .. n
    BY <1>1, <1>2
  <2>2. j - 1 \in 1 .. n /\ key <= cells[j - 1].key
    BY <2>1, <1>2
  <2>3. cells[j - 1].key # key
    BY <2>2 DEF HasKey
  <2>4. cells[j - 1].key \in Int
    BY <2>2, <1>1
  <2>5. key < cells[j - 1].key
    BY <2>2, <2>3, <2>4, <1>1
  <2> QED BY <2>2, <2>5, <1>4
<1>6. \A j \in 1 .. n + 1 : j \in 1 .. pos \/ j = pos + 1 \/ j \in pos + 2 .. n + 1
  BY <1>1, <1>2
<1>7. ASSUME NEW a \in 1 .. n + 1, NEW b \in 1 .. n + 1, a < b
      PROVE  wide[a].key < wide[b].key
  <2>1. CASE b \in 1 .. pos
    <3>1. a \in 1 .. pos
      BY <2>1, <1>7, <1>2
    <3> QED BY <3>1, <2>1, <1>2, <1>4, <1>7 DEF Ascends
  <2>2. CASE a \in 1 .. pos /\ b = pos + 1
    BY <2>2, <1>2, <1>3, <1>4
  <2>3. CASE a \in 1 .. pos /\ b \in pos + 2 .. n + 1
    <3>1. wide[a] = cells[a] /\ cells[a].key < key /\ a \in 1 .. n
      BY <2>3, <1>2, <1>4
    <3>2. wide[b] = cells[b - 1] /\ key < cells[b - 1].key /\ b - 1 \in 1 .. n
      BY <2>3, <1>5
    <3>3. \A x, y \in Int : x < key /\ key < y => x < y
      BY <1>1
    <3> QED BY <3>1, <3>2, <3>3, <1>1
  <2>4. CASE a = pos + 1 /\ b \in pos + 2 .. n + 1
    <3>1. wide[b] = cells[b - 1] /\ key < cells[b - 1].key
      BY <2>4, <1>5
    <3> QED BY <3>1, <2>4, <1>3, <1>4
  <2>5. CASE a \in pos + 2 .. n + 1
    <3>1. b \in pos + 2 .. n + 1
      BY <2>5, <1>7, <1>2
    <3>2. wide[a] = cells[a - 1] /\ wide[b] = cells[b - 1]
          /\ a - 1 \in 1 .. n /\ b - 1 \in 1 .. n /\ a - 1 < b - 1
      BY <2>5, <3>1, <1>5, <1>7
    <3> QED BY <3>2 DEF Ascends
  <2>6. \/ b \in 1 .. pos \/ a \in pos + 2 .. n + 1
        \/ a \in 1 .. pos /\ b = pos + 1
        \/ a \in 1 .. pos /\ b \in pos + 2 .. n + 1
        \/ a = pos + 1 /\ b \in pos + 2 .. n + 1
    BY <1>1, <1>2, <1>6, <1>7
  <2> QED BY <2>1, <2>2, <2>3, <2>4, <2>5, <2>6
<1>8. \A i \in 1 .. n + 1 : wide[i] = cell \/ \E j \in 1 .. n : wide[i] = cells[j]
  BY <1>2, <1>4, <1>5, <1>6
<1>9. pos + 1 \in 1 .. n + 1
  BY <1>1, <1>2
<1>10. \A j \in 1 .. n : \E i \in 1 .. n + 1 : wide[i] = cells[j]
  <2> TAKE j \in 1 .. n
  <2>1. CASE j \in 1 .. pos
    <3>1. j \in 1 .. n + 1
      BY <1>1
    <3> QED BY <3>1, <2>1, <1>4
  <2>2. CASE j \notin 1 .. pos
    <3>1. PICK i \in pos + 2 .. n + 1 : i = j + 1
      BY <2>2, <1>1, <1>2
    <3>2. i - 1 = j /\ i \in 1 .. n + 1
      BY <3>1, <1>1, <1>2
    <3> QED BY <3>2, <1>4
  <2> QED BY <2>1, <2>2
<1>11. Ascends(wide)
  BY <1>4, <1>7 DEF Ascends
<1>12. Wider(wide, cells, cell)
  BY <1>4, <1>8, <1>9, <1>10, <1>11 DEF Wider
<1> QED BY <1>12 DEF wide, cell

\* The cells of the halves of an over-full leaf.
LEMMA LeafHalvesCells ==
  ASSUME NEW wide \in Seq(LeafCell), Len(wide) = LeafMax + 1
  PROVE  /\ LeafMid \in 1 .. LeafMax
         /\ LowCells(wide) \in Seq(LeafCell) /\ Len(LowCells(wide)) = LeafMid
         /\ HighCells(wide) \in Seq(LeafCell) /\ Len(HighCells(wide)) = LeafMax + 1 - LeafMid
         /\ \A i \in 1 .. LeafMid : LowCells(wide)[i] = wide[i]
         /\ \A i \in 1 .. LeafMax + 1 - LeafMid : HighCells(wide)[i] = wide[LeafMid + i]
<1>1. LeafMid \in 1 .. LeafMax /\ LeafMax \in Nat
  BY CapacityAssumption DEF LeafMid
<1>2. \A i \in 1 .. LeafMax + 1 : wide[i] \in LeafCell
  BY ElementOfSeq
<1>3. /\ LowCells(wide) \in Seq(LeafCell) /\ Len(LowCells(wide)) = LeafMid
      /\ \A i \in 1 .. LeafMid : LowCells(wide)[i] = wide[i]
  <2>1. 1 \in Int /\ LeafMid \in Int /\ \A i \in 1 .. LeafMid : wide[i] \in LeafCell
    BY <1>1, <1>2
  <2>2. \A i \in 1 .. LeafMid : 1 + i - 1 = i /\ i \in 1 .. LeafMid - 1 + 1
    BY <1>1
  <2> QED BY <2>1, <2>2, <1>1, SubSeqProperties DEF LowCells
<1>4. /\ HighCells(wide) \in Seq(LeafCell) /\ Len(HighCells(wide)) = LeafMax + 1 - LeafMid
      /\ \A i \in 1 .. LeafMax + 1 - LeafMid : HighCells(wide)[i] = wide[LeafMid + i]
  <2> DEFINE m == LeafMid
             high == SubSeq(wide, m + 1, LeafMax + 1)
  <2>0. m \in 1 .. LeafMax
    BY <1>1
  <2> HIDE DEF m
  <2>1. /\ m + 1 \in Int /\ LeafMax + 1 \in Int
        /\ \A i \in m + 1 .. LeafMax + 1 : wide[i] \in LeafCell
    BY <1>1, <1>2, <2>0
  <2>2. /\ high \in Seq(LeafCell)
        /\ Len(high) = IF m + 1 <= LeafMax + 1 THEN (LeafMax + 1) - (m + 1) + 1 ELSE 0
        /\ \A i \in 1 .. (LeafMax + 1) - (m + 1) + 1 : high[i] = wide[(m + 1) + i - 1]
    BY <2>1, SubSeqProperties, Z3
  <2> HIDE DEF high
  <2>3. (LeafMax + 1) - (m + 1) + 1 = LeafMax + 1 - m
    BY <1>1, <2>0
  <2>4. \A i \in 1 .. LeafMax + 1 - m : (m + 1) + i - 1 = m + i
    BY <1>1, <2>0
  <2>5. HighCells(wide) = high
    BY DEF HighCells, high, m
  <2> QED BY <2>2, <2>3, <2>4, <2>5, <2>0, <1>1 DEF m
<1> QED BY <1>1, <1>3, <1>4

\* A leaf without its i-th row is in order, and has the other rows.
LEMMA RemoveAtCells ==
  ASSUME NEW cells \in Seq(LeafCell), Ascends(cells), NEW i \in 1 .. Len(cells)
  PROVE  LET less == RemoveAt(cells, i)
         IN  /\ less \in Seq(LeafCell) /\ Len(less) = Len(cells) - 1
             /\ \A j \in 1 .. Len(less) : less[j] = cells[IF j < i THEN j ELSE j + 1]
             /\ Ascends(less)
<1> DEFINE n == Len(cells)
           front == SubSeq(cells, 1, i - 1)
           back  == SubSeq(cells, i + 1, n)
           less == RemoveAt(cells, i)
<1>1. n \in Nat /\ \A j \in 1 .. n : cells[j] \in LeafCell
  BY LenProperties, ElementOfSeq
<1>2. less \in Seq(LeafCell) /\ Len(less) = n - 1
  BY RemoveAtProperties
<1>3. /\ front \in Seq(LeafCell) /\ Len(front) = i - 1
      /\ \A j \in 1 .. i - 1 : front[j] = cells[j]
  <2>1. 1 \in Int /\ i - 1 \in Int /\ \A j \in 1 .. i - 1 : cells[j] \in LeafCell
    BY <1>1
  <2>2. /\ front \in Seq(LeafCell)
        /\ Len(front) = IF 1 <= i - 1 THEN (i - 1) - 1 + 1 ELSE 0
        /\ \A j \in 1 .. (i - 1) - 1 + 1 : front[j] = cells[1 + j - 1]
    BY <2>1, SubSeqProperties, Z3
  <2> HIDE DEF front
  <2> QED BY <2>2, <1>1
<1>4. /\ back \in Seq(LeafCell) /\ Len(back) = n - i
      /\ \A j \in 1 .. n - i : back[j] = cells[i + j]
  <2>1. i + 1 \in Int /\ n \in Int /\ \A j \in i + 1 .. n : cells[j] \in LeafCell
    BY <1>1
  <2>2. /\ back \in Seq(LeafCell)
        /\ Len(back) = IF i + 1 <= n THEN n - (i + 1) + 1 ELSE 0
        /\ \A j \in 1 .. n - (i + 1) + 1 : back[j] = cells[(i + 1) + j - 1]
    BY <2>1, SubSeqProperties, Z3
  <2> HIDE DEF back
  <2>3. Len(back) = n - i
    BY <2>2, <1>1
  <2>4. \A j \in 1 .. n - i : j \in 1 .. n - (i + 1) + 1 /\ (i + 1) + j - 1 = i + j
    BY <1>1
  <2> QED BY <2>2, <2>3, <2>4
<1>5. less = front \o back
  BY DEF RemoveAt
<1> HIDE DEF front, back, less, n
<1>6. \A j \in 1 .. n - 1 : less[j] = IF j <= i - 1 THEN front[j] ELSE back[j - (i - 1)]
  <2>1. \A j \in 1 .. Len(front) + Len(back) :
          (front \o back)[j] = IF j <= Len(front) THEN front[j] ELSE back[j - Len(front)]
    BY <1>3, <1>4, ConcatProperties
  <2>2. Len(front) + Len(back) = n - 1
    BY <1>1, <1>3, <1>4 DEF n
  <2> QED BY <2>1, <2>2, <1>3, <1>5
<1>7. \A j \in 1 .. n - 1 : less[j] = cells[IF j < i THEN j ELSE j + 1]
  <2> TAKE j \in 1 .. n - 1
  <2>1. CASE j < i
    <3>1. j \in 1 .. i - 1 /\ j <= i - 1
      BY <2>1, <1>1 DEF n
    <3> QED BY <3>1, <2>1, <1>3, <1>6
  <2>2. CASE ~ (j < i)
    <3>1. PICK l \in 1 .. n - i : l = j - (i - 1)
      <4>1. j - (i - 1) \in 1 .. n - i
        BY <2>2, <1>1 DEF n
      <4> QED BY <4>1
    <3>2. i + l = j + 1 /\ ~ (j <= i - 1)
      BY <3>1, <2>2, <1>1 DEF n
    <3>3. less[j] = back[l] /\ back[l] = cells[i + l]
      BY <3>1, <3>2, <1>4, <1>6
    <3> QED BY <3>2, <3>3, <2>2
  <2> QED BY <2>1, <2>2
<1>8. Ascends(less)
  <2> SUFFICES ASSUME NEW a \in 1 .. n - 1, NEW b \in 1 .. n - 1, a < b
               PROVE  less[a].key < less[b].key
    BY <1>2 DEF Ascends
  <2>1. PICK c \in 1 .. n : c = IF a < i THEN a ELSE a + 1
    BY <1>1
  <2>2. PICK d \in 1 .. n : d = IF b < i THEN b ELSE b + 1
    BY <1>1
  <2>3. c < d
    BY <2>1, <2>2, <1>1 DEF n
  <2>4. less[a] = cells[c] /\ less[b] = cells[d]
    BY <2>1, <2>2, <1>7
  <2> QED BY <2>3, <2>4 DEF Ascends, n
<1> QED BY <1>2, <1>7, <1>8 DEF n, less

-----------------------------------------------------------------------------
\* What a statement carries.
LEMMA StatementFields ==
  ASSUME stmt \in Statements \cup {NoStmt}
  PROVE  /\ stmt.op \in {"insert", "select"} => stmt.key \in Keys
         /\ stmt.op \in {"insert", "update"} => stmt.row \in Rows
BY DEF Statements, NoStmt

LEMMA PagesAreNodePages == 1 .. MaxPages - 1 = NodePages /\ NodePages \subseteq PageNum
BY CapacityAssumption DEF NodePages, PageNum

\* An empty leaf is a leaf.
LEMMA EmptyLeaves ==
  /\ ZeroPage \in LeafNode
  /\ \A parent \in PageNum : NewLeaf(parent) \in LeafNode
<1>1. 0 \in PageNum
  BY CapacityAssumption DEF PageNum
<1>2. <<>> \in Seq(LeafCell) /\ Len(<<>>) <= LeafMax
  BY CapacityAssumption
<1>3. ZeroPage \in LeafNode
  BY <1>1, <1>2 DEF ZeroPage, LeafNode, Leaf
<1>4. \A parent \in PageNum : NewLeaf(parent) \in LeafNode
  BY <1>1, <1>2 DEF NewLeaf, ZeroPage, LeafNode, Leaf
<1> QED BY <1>3, <1>4

\* After CREATE TABLE the invariant holds.
LEMMA InitInv == Init => IInv
<1> SUFFICES ASSUME Init PROVE IInv
  OBVIOUS
<1>1. /\ filePages \in 2 .. MaxPages /\ numPages = filePages
      /\ mem = disk /\ dirty = {}
      /\ disk = [p \in NodePages |-> IF p < filePages THEN NewLeaf(0) ELSE ZeroPage]
  <2>1. PICK others \in 0 .. MaxOthers : filePages = 2 + others
    BY DEF Init
  <2> QED BY <2>1, BoundsAssumption, CapacityAssumption DEF Init
<1>2. disk \in [NodePages -> LeafNode \cup InternalNode]
  <2>1. 0 \in PageNum
    BY CapacityAssumption DEF PageNum
  <2> QED BY <1>1, <2>1, EmptyLeaves
<1>3. TypeOK
  <2>1. RootPage \in PageNum /\ NoSep \in [key : Keys \cup {0}, left : PageNum, right : PageNum]
    BY CapacityAssumption DEF RootPage, NoSep, PageNum
  <2>2. Reply("none", {}) \in [code : Codes, rows : SUBSET Rows]
    BY DEF Reply, Codes
  <2>3. 1 \in 1 .. MaxSessions
    BY BoundsAssumption
  <2> QED BY <1>1, <1>2, <2>1, <2>2, <2>3 DEF TypeOK, Init
<1>4. WellLinked(disk, filePages)
  <2>1. \A p \in 1 .. filePages - 1 : disk[p] = NewLeaf(0)
    <3> TAKE p \in 1 .. filePages - 1
    <3>1. p \in 1 .. MaxPages - 1 /\ p < filePages
      BY <1>1, CapacityAssumption
    <3> QED BY <1>1, <3>1, PagesAreNodePages
  <2>2. NewLeaf(0).type = "leaf" /\ NewLeaf(0).root /\ NewLeaf(0).link = 0
    BY DEF NewLeaf, ZeroPage
  <2> QED BY <2>1, <2>2 DEF WellLinked, LinkedAt
<1>5. FileInv /\ MemInv
  BY <1>1, <1>4 DEF FileInv, MemInv
<1>6. StepInv
  BY <1>1 DEF StepInv, Init, RootPage
<1>7. PointersLead
  BY <1>1, <1>4 DEF PointersLead, Init
<1> QED BY <1>3, <1>5, <1>6, <1>7 DEF IInv

-----------------------------------------------------------------------------
\* The typing of the pages, and of the control state.
PagesOK ==
  /\ mem \in [NodePages -> LeafNode \cup InternalNode]
  /\ disk \in [NodePages -> LeafNode \cup InternalNode]
  /\ dirty \subseteq NodePages
  /\ numPages \in 2 .. MaxPages
  /\ filePages \in 2 .. MaxPages
  /\ session \in 1 .. MaxSessions

ControlOK ==
  /\ pc \in {"idle", "descend", "separator", "first_leaf", "walk"}
  /\ stmt \in Statements \cup {NoStmt}
  /\ at \in PageNum
  /\ sep \in [key : Keys \cup {0}, left : PageNum, right : PageNum]
  /\ result \in [code : Codes, rows : SUBSET Rows]

LEMMA TypeOKParts == TypeOK <=> PagesOK /\ ControlOK
BY DEF TypeOK, PagesOK, ControlOK

\* A step that writes pages, and marks those it changes beyond their parent
\* pointers, keeps the pages in order.
LEMMA WriteInv ==
  ASSUME IInv, result.code # "error",
         NEW new, NEW marked, NEW pages, Write(new, marked, pages),
         new \in [NodePages -> LeafNode \cup InternalNode],
         pages \in numPages .. MaxPages,
         marked \subseteq 1 .. pages - 1,
         numPages .. pages - 1 \subseteq marked,
         \A p \in NodePages \ marked :
           [new[p] EXCEPT !.parent = 0] = [mem[p] EXCEPT !.parent = 0],
         \A p \in 1 .. numPages - 1 :
           mem[p].type = "internal" => new[p].type = "internal"
  PROVE  PagesOK' /\ FileInv' /\ MemInv'
<1>1. PagesOK /\ FileInv /\ MemInv
  BY TypeOKParts DEF IInv
<1>2. /\ mem' = new /\ dirty' = dirty \cup marked /\ numPages' = pages
      /\ disk' = disk /\ filePages' = filePages /\ session' = session
  BY DEF Write
<1>3. numPages \in Nat /\ pages \in Nat /\ filePages \in Nat /\ MaxPages \in Nat
  BY <1>1, CapacityAssumption DEF PagesOK
<1>4. marked \subseteq NodePages /\ dirty \subseteq 1 .. pages - 1
  BY <1>1, <1>3, PagesAreNodePages DEF FileInv
<1>5. PagesOK'
  BY <1>1, <1>2, <1>3, <1>4 DEF PagesOK
<1>6. FileInv'
  <2>1. filePages <= pages
    BY <1>1, <1>3 DEF FileInv
  <2>2. WellLinked(disk, filePages)'
    BY <1>1, <1>2 DEF FileInv, WellLinked, LinkedAt
  <2> QED BY <2>1, <2>2, <1>2, <1>4 DEF FileInv
<1>7. MemInv'
  <2>1. \A p \in 1 .. pages - 1 : p < filePages \/ p \in dirty \cup marked
    <3> TAKE p \in 1 .. pages - 1
    <3>1. p \in 1 .. numPages - 1 \/ p \in numPages .. pages - 1
      BY <1>3
    <3> QED BY <3>1, <1>1 DEF MemInv
  <2>2. \A p \in NodePages \ (dirty \cup marked) :
          [new[p] EXCEPT !.parent = 0] = [disk[p] EXCEPT !.parent = 0]
    BY <1>1 DEF MemInv
  <2>3. \A p \in 1 .. filePages - 1 : disk[p].type = "internal" => new[p].type = "internal"
    BY <1>1, <1>3 DEF MemInv, FileInv
  <2> QED BY <2>1, <2>2, <2>3, <1>2 DEF MemInv
<1> QED BY <1>5, <1>6, <1>7

\* A step that leaves the pages alone.
LEMMA SamePagesInv ==
  ASSUME IInv, UNCHANGED <<pager, session>>
  PROVE  PagesOK' /\ FileInv' /\ (MemInv => MemInv')
         /\ (WellLinked(mem, numPages) => WellLinked(mem, numPages)')
<1>1. PagesOK /\ FileInv
  BY TypeOKParts DEF IInv
<1>2. /\ mem' = mem /\ dirty' = dirty /\ numPages' = numPages
      /\ disk' = disk /\ filePages' = filePages /\ session' = session
  BY DEF pager
<1> QED BY <1>1, <1>2 DEF PagesOK, FileInv, MemInv, WellLinked, LinkedAt

LEMMA RootIsPage == \A count \in Int : count >= 2 => 1 \in 1 .. count - 1
OBVIOUS

\* The end of a statement.
LEMMA FinishControl ==
  ASSUME NEW code \in Codes, NEW rows \in SUBSET Rows, Finish(code, rows), PagesOK'
  PROVE  /\ ControlOK' /\ StepInv'
         /\ pc' = "idle" /\ result'.code = code
<1>1. /\ result' = Reply(code, rows) /\ pc' = "idle" /\ stmt' = NoStmt
      /\ at' = RootPage /\ sep' = NoSep
  BY DEF Finish
<1>2. RootPage \in PageNum /\ NoSep \in [key : Keys \cup {0}, left : PageNum, right : PageNum]
  BY CapacityAssumption DEF RootPage, NoSep, PageNum
<1>3. Reply(code, rows) \in [code : Codes, rows : SUBSET Rows] /\ Reply(code, rows).code = code
  BY DEF Reply
<1>4. RootPage \in 1 .. numPages' - 1
  <2>1. numPages' \in Int /\ numPages' >= 2
    BY CapacityAssumption DEF PagesOK
  <2>2. 1 \in 1 .. numPages' - 1
    BY <2>1, RootIsPage
  <2> QED BY <2>2 DEF RootPage
<1> QED BY <1>1, <1>2, <1>3, <1>4 DEF ControlOK, StepInv

\* The end of a statement that succeeded keeps the invariant if the pages are
\* in order; the end of one that ran out of pages keeps it in any case.
LEMMA FinishInv ==
  ASSUME NEW code \in Codes, NEW rows \in SUBSET Rows, Finish(code, rows),
         PagesOK', FileInv',
         code # "error" => MemInv' /\ WellLinked(mem, numPages)'
  PROVE  IInv'
<1>1. ControlOK' /\ StepInv' /\ pc' = "idle" /\ result'.code = code
  BY FinishControl
<1>2. TypeOK'
  BY <1>1 DEF TypeOK, PagesOK, ControlOK
<1>3. PointersLead'
  BY <1>1 DEF PointersLead
<1> QED BY <1>1, <1>2, <1>3 DEF IInv

-----------------------------------------------------------------------------
\* What the invariant says while a statement runs.
LEMMA StepFacts ==
  ASSUME IInv, pc # "idle"
  PROVE  /\ PagesOK /\ ControlOK /\ FileInv /\ MemInv /\ StepInv
         /\ WellLinked(mem, numPages) /\ result.code # "error"
         /\ at \in 1 .. numPages - 1 /\ at \in NodePages /\ at \in PageNum
         /\ numPages \in Nat /\ MaxPages \in Nat /\ numPages <= MaxPages
         /\ 1 .. numPages - 1 \subseteq NodePages
         /\ mem[at].type = "leaf" => mem[at] \in LeafNode
         /\ mem[at].type = "internal" => mem[at] \in InternalNode
         /\ pc = "separator" => mem[at].type = "internal"
         /\ pc = "walk" => mem[at].type = "leaf"
<1>1. PagesOK /\ ControlOK /\ FileInv /\ StepInv /\ PointersLead
  BY TypeOKParts DEF IInv
<1>2. result.code # "error"
  BY <1>1 DEF StepInv
<1>3. MemInv
  BY <1>2 DEF IInv
<1>4. numPages \in Nat /\ MaxPages \in Nat /\ numPages <= MaxPages
  BY <1>1, CapacityAssumption DEF PagesOK
<1>5. 1 .. numPages - 1 \subseteq NodePages
  BY <1>4, PagesAreNodePages
<1>6. at \in 1 .. numPages - 1 /\ at \in NodePages /\ at \in PageNum
  BY <1>1, <1>5, PagesAreNodePages DEF StepInv
<1>7. mem[at] \in LeafNode \cup InternalNode
  BY <1>1, <1>6 DEF PagesOK
<1>8. /\ mem[at].type = "leaf" => mem[at] \in LeafNode
      /\ mem[at].type = "internal" => mem[at] \in InternalNode
  BY <1>7 DEF LeafNode, InternalNode, Leaf, Internal
<1> QED BY <1>1, <1>2, <1>3, <1>4, <1>5, <1>6, <1>8 DEF PointersLead

\* The first count pages keep their types, the pages touched lead to pages in use, and
\* the others lead where they led before.
LinksKept(pages, count, new, more, touched) ==
  /\ count \in Nat /\ more \in Nat /\ count <= more /\ WellLinked(pages, count)
  /\ \A p \in 1 .. count - 1 :
       pages[p].type = "internal" => new[p].type = "internal"
  /\ \A p \in 1 .. count - 1 :
       pages[p].type = "leaf" /\ ~ pages[p].root => new[p].type = "leaf" /\ ~ new[p].root
  /\ \A p \in touched : LinkedAt(new, more, p)
  /\ \A p \in 1 .. more - 1 : p \notin touched =>
       /\ p < count
       /\ new[p].type = pages[p].type /\ new[p].root = pages[p].root
       /\ new[p].link = pages[p].link
       /\ new[p].type = "internal" => new[p].cells = pages[p].cells
       /\ \/ new[p].parent = pages[p].parent
          \/ /\ new[p].parent \in 1 .. more - 1
             /\ new[new[p].parent].type = "internal"

\* The links of pages that are not touched survive if the pages they lead to
\* keep their type.
LEMMA LinksSurvive ==
  ASSUME NEW pages, NEW count, NEW new, NEW more, NEW touched,
         LinksKept(pages, count, new, more, touched)
  PROVE  WellLinked(new, more)
<1> USE DEF LinksKept
<1> SUFFICES ASSUME NEW p \in 1 .. more - 1, p \notin touched
             PROVE  LinkedAt(new, more, p)
  BY DEF WellLinked
<1>1. p \in 1 .. count - 1 /\ LinkedAt(pages, count, p)
  BY DEF WellLinked
<1>2. new[p].type = "internal" => Kids(new[p]) \subseteq 1 .. more - 1
  <2>1. new[p].type = "internal" => Kids(new[p]) = Kids(pages[p])
    BY DEF Kids
  <2> QED BY <2>1, <1>1 DEF LinkedAt
<1>3. ~ new[p].root => /\ new[p].parent \in 1 .. more - 1
                      /\ new[new[p].parent].type = "internal"
  BY <1>1 DEF LinkedAt
<1>4. new[p].type = "leaf" /\ new[p].link # 0 =>
        /\ new[p].link \in 1 .. more - 1
        /\ new[new[p].link].type = "leaf" /\ ~ new[new[p].link].root
  BY <1>1 DEF LinkedAt
<1> QED BY <1>2, <1>3, <1>4 DEF LinkedAt

-----------------------------------------------------------------------------
LEMMA BeginInv ==
  ASSUME IInv, NEW s \in Statements, NEW step \in {"descend", "first_leaf"},
         Begin(s, step),
         step = "descend" => s.op \in {"insert", "select"},
         step = "first_leaf" => s.op \in {"delete", "update"}
  PROVE  IInv'
<1>1. /\ pc = "idle" /\ result.code # "error" /\ stmt' = s /\ pc' = step
      /\ at' = RootPage /\ result' = Reply("none", {}) /\ sep' = sep
      /\ UNCHANGED <<pager, session>>
  BY DEF Begin
<1>2. PagesOK /\ ControlOK /\ MemInv /\ WellLinked(mem, numPages)
  BY <1>1, TypeOKParts DEF IInv, PointersLead
<1>3. PagesOK' /\ FileInv' /\ MemInv' /\ WellLinked(mem, numPages)'
  BY <1>1, <1>2, SamePagesInv
<1>4. RootPage \in PageNum /\ RootPage \in 1 .. numPages' - 1
  <2>1. numPages' \in Int /\ numPages' >= 2
    BY <1>3, CapacityAssumption DEF PagesOK
  <2>2. 1 \in PageNum
    BY CapacityAssumption DEF PageNum
  <2>3. 1 \in 1 .. numPages' - 1
    BY <2>1, RootIsPage
  <2> QED BY <2>2, <2>3 DEF RootPage
<1>5. Reply("none", {}) \in [code : Codes, rows : SUBSET Rows]
      /\ Reply("none", {}).code # "error"
  BY DEF Reply, Codes
<1>6. ControlOK'
  BY <1>1, <1>2, <1>4, <1>5 DEF ControlOK
<1>7. StepInv'
  BY <1>1, <1>4, <1>5 DEF StepInv
<1>8. PointersLead'
  BY <1>1, <1>3 DEF PointersLead
<1>9. TypeOK'
  BY <1>3, <1>6 DEF TypeOK, PagesOK, ControlOK
<1> QED BY <1>3, <1>7, <1>8, <1>9 DEF IInv

LEMMA BeginsInv ==
  ASSUME IInv, BeginInsert \/ BeginSelect \/ BeginDelete \/ BeginUpdate
  PROVE  IInv'
<1>1. CASE BeginInsert
  <2>1. PICK k \in Keys, r \in Rows :
          Begin([op |-> "insert", key |-> k, row |-> r], "descend")
    BY <1>1 DEF BeginInsert
  <2>2. [op |-> "insert", key |-> k, row |-> r] \in Statements
    BY DEF Statements
  <2> QED BY <2>1, <2>2, BeginInv
<1>2. CASE BeginSelect
  <2>1. PICK k \in Keys : Begin([op |-> "select", key |-> k], "descend")
    BY <1>2 DEF BeginSelect
  <2>2. [op |-> "select", key |-> k] \in Statements
    BY DEF Statements
  <2> QED BY <2>1, <2>2, BeginInv
<1>3. CASE BeginDelete
  <2>1. PICK w \in Wheres : Begin([op |-> "delete", where |-> w], "first_leaf")
    BY <1>3 DEF BeginDelete
  <2>2. [op |-> "delete", where |-> w] \in Statements
    BY DEF Statements
  <2> QED BY <2>1, <2>2, BeginInv
<1>4. CASE BeginUpdate
  <2>1. PICK w \in Wheres, r \in Rows :
          Begin([op |-> "update", where |-> w, row |-> r], "first_leaf")
    BY <1>4 DEF BeginUpdate
  <2>2. [op |-> "update", where |-> w, row |-> r] \in Statements
    BY DEF Statements
  <2> QED BY <2>1, <2>2, BeginInv
<1> QED BY <1>1, <1>2, <1>3, <1>4

-----------------------------------------------------------------------------
\* A step to another page that writes none.
LEMMA MoveInv ==
  ASSUME IInv, pc # "idle", UNCHANGED <<pager, stmt, sep, result, session>>,
         at' \in 1 .. numPages - 1,
         \/ pc' = pc /\ pc # "separator" /\ (pc = "walk" => mem[at'].type = "leaf")
         \/ pc = "first_leaf" /\ pc' = "walk" /\ mem[at'].type = "leaf"
  PROVE  IInv'
<1>1. /\ PagesOK /\ ControlOK /\ FileInv /\ MemInv /\ StepInv
      /\ WellLinked(mem, numPages) /\ result.code # "error"
  BY StepFacts
<1>2. /\ stmt' = stmt /\ sep' = sep /\ result' = result
      /\ mem' = mem /\ numPages' = numPages /\ UNCHANGED <<pager, session>>
  BY DEF pager
<1>3. PagesOK' /\ FileInv' /\ MemInv' /\ WellLinked(mem, numPages)'
  BY <1>1, <1>2, SamePagesInv
<1>4. at' \in PageNum
  BY <1>1, StepFacts, PagesAreNodePages
<1>5. ControlOK'
  BY <1>1, <1>2, <1>4 DEF ControlOK
<1>6. StepInv'
  BY <1>1, <1>2 DEF StepInv
<1>7. PointersLead'
  BY <1>1, <1>2, <1>3 DEF PointersLead
<1>8. TypeOK'
  BY <1>3, <1>5 DEF TypeOK, PagesOK, ControlOK
<1> QED BY <1>3, <1>6, <1>7, <1>8 DEF IInv

LEMMA DescendInv == ASSUME IInv, Descend PROVE IInv'
<1>1. /\ pc = "descend" /\ mem[at].type = "internal" /\ pc' = pc
      /\ at' = ChildFor(mem[at], stmt.key)
      /\ UNCHANGED <<pager, stmt, sep, result, session>>
  BY DEF Descend
<1>2. /\ mem[at] \in Internal /\ at \in 1 .. numPages - 1
      /\ WellLinked(mem, numPages)
  BY <1>1, StepFacts DEF InternalNode
<1>3. at' \in Kids(mem[at]) /\ Kids(mem[at]) \subseteq 1 .. numPages - 1
  BY <1>1, <1>2, ChildForIsKid DEF WellLinked, LinkedAt
<1> QED BY <1>1, <1>3, MoveInv

LEMMA ToFirstLeafInv == ASSUME IInv, ToFirstLeaf PROVE IInv'
<1>1. pc = "first_leaf" /\ UNCHANGED <<pager, stmt, sep, result, session>>
  BY DEF ToFirstLeaf
<1>2. CASE mem[at].type = "internal" /\ at' = mem[at].cells[1].child /\ UNCHANGED pc
  <2>1. /\ mem[at] \in InternalNode /\ at \in 1 .. numPages - 1
        /\ WellLinked(mem, numPages)
    BY <1>1, <1>2, StepFacts
  <2>2. 1 \in 1 .. Len(mem[at].cells)
    <3>1. Len(mem[at].cells) \in 1 .. InternalMax
      BY <2>1 DEF InternalNode
    <3> QED BY <3>1, CapacityAssumption
  <2>3. at' \in Kids(mem[at]) /\ Kids(mem[at]) \subseteq 1 .. numPages - 1
    BY <1>2, <2>1, <2>2 DEF WellLinked, LinkedAt, Kids
  <2> QED BY <1>1, <1>2, <2>3, MoveInv
<1>3. CASE mem[at].type # "internal" /\ pc' = "walk" /\ UNCHANGED at
  <2>1. /\ at \in 1 .. numPages - 1 /\ mem[at] \in LeafNode \cup InternalNode
    BY <1>1, StepFacts DEF PagesOK
  <2>2. mem[at].type = "leaf"
    BY <2>1, <1>3 DEF LeafNode, InternalNode, Leaf, Internal
  <2> QED BY <1>1, <1>3, <2>1, <2>2, MoveInv
<1> QED BY <1>2, <1>3 DEF ToFirstLeaf

\* A statement that ends without a write.
LEMMA QuietFinishInv ==
  ASSUME IInv, pc # "idle", UNCHANGED <<pager, session>>,
         NEW code \in Codes, NEW rows \in SUBSET Rows, Finish(code, rows)
  PROVE  IInv'
<1>1. MemInv /\ WellLinked(mem, numPages)
  BY StepFacts
<1>2. PagesOK' /\ FileInv' /\ MemInv' /\ WellLinked(mem, numPages)'
  BY <1>1, SamePagesInv
<1> QED BY <1>2, FinishInv

LEMMA LookupInv == ASSUME IInv, Lookup PROVE IInv'
<1> DEFINE cells == mem[at].cells
           found == {cells[i].row : i \in {j \in 1 .. Len(cells) : cells[j].key = stmt.key}}
<1>1. /\ pc = "descend" /\ mem[at].type = "leaf" /\ Finish("success", found)
      /\ UNCHANGED <<pager, session>>
  BY DEF Lookup
<1>2. cells \in Seq(LeafCell)
  BY <1>1, StepFacts DEF LeafNode, Leaf
<1>3. \A i \in 1 .. Len(cells) : cells[i].row \in Rows
  <2> TAKE i \in 1 .. Len(cells)
  <2>1. cells[i] \in LeafCell
    BY <1>2, ElementOfSeq
  <2> QED BY <2>1 DEF LeafCell
<1>4. found \in SUBSET Rows
  BY <1>3
<1>5. "success" \in Codes
  BY DEF Codes
<1> HIDE DEF found
<1> QED BY <1>1, <1>4, <1>5, QuietFinishInv

LEMMA QuietInsertInv == ASSUME IInv, Duplicate \/ NoPageForLeaf PROVE IInv'
<1>1. pc = "descend" /\ UNCHANGED <<pager, session>>
  BY DEF Duplicate, NoPageForLeaf, AtInsertLeaf, AtFullLeaf
<1>2. PICK code \in Codes : Finish(code, {})
  BY DEF Duplicate, NoPageForLeaf, Codes
<1> QED BY <1>1, <1>2, QuietFinishInv

LEMMA DeleteNextInv == ASSUME IInv, DeleteNext PROVE IInv'
<1>1. pc = "walk" /\ NextLeaf /\ UNCHANGED <<pager, session>>
  BY DEF DeleteNext
<1>2. CASE mem[at].link # 0 /\ at' = mem[at].link /\ UNCHANGED <<pc, stmt, sep, result>>
  <2>1. /\ mem[at].type = "leaf" /\ at \in 1 .. numPages - 1
        /\ WellLinked(mem, numPages)
    BY <1>1, StepFacts
  <2>2. at' \in 1 .. numPages - 1 /\ mem[at'].type = "leaf"
    BY <1>2, <2>1 DEF WellLinked, LinkedAt
  <2> QED BY <1>1, <1>2, <2>2, MoveInv
<1>3. CASE Finish("success", {})
  <2>1. "success" \in Codes
    BY DEF Codes
  <2> QED BY <1>1, <1>3, <2>1, QuietFinishInv
<1> QED BY <1>1, <1>2, <1>3 DEF NextLeaf

-----------------------------------------------------------------------------
\* A leaf whose cells are replaced, and which is marked if they change.
LEMMA CellsInv ==
  ASSUME IInv, pc # "idle", mem[at].type = "leaf",
         NEW cells \in Seq(LeafCell), Len(cells) <= LeafMax,
         NEW marked \in SUBSET {at}, marked = {} => cells = mem[at].cells,
         Write([mem EXCEPT ![at].cells = cells], marked, numPages)
  PROVE  /\ PagesOK' /\ FileInv' /\ MemInv' /\ WellLinked(mem, numPages)'
         /\ mem' = [mem EXCEPT ![at].cells = cells] /\ numPages' = numPages
         /\ \A p \in 1 .. numPages - 1 : mem'[p].type = mem[p].type
<1> DEFINE new == [mem EXCEPT ![at].cells = cells]
<1>1. /\ PagesOK /\ WellLinked(mem, numPages) /\ result.code # "error"
      /\ at \in NodePages /\ at \in 1 .. numPages - 1 /\ numPages \in Nat
      /\ MaxPages \in Nat /\ numPages <= MaxPages
      /\ 1 .. numPages - 1 \subseteq NodePages
      /\ mem[at] \in LeafNode /\ mem \in [NodePages -> LeafNode \cup InternalNode]
  BY StepFacts DEF PagesOK
<1>2. /\ new \in [NodePages -> LeafNode \cup InternalNode]
      /\ \A p \in NodePages : p # at => new[p] = mem[p]
      /\ new[at] = [mem[at] EXCEPT !.cells = cells]
      /\ new[at].type = "leaf" /\ new[at].root = mem[at].root
      /\ new[at].link = mem[at].link /\ new[at].parent = mem[at].parent
  <2>1. [mem[at] EXCEPT !.cells = cells] \in LeafNode
    BY <1>1 DEF LeafNode, Leaf
  <2>2. /\ \A p \in NodePages : p # at => new[p] = mem[p]
        /\ new[at] = [mem[at] EXCEPT !.cells = cells]
        /\ new \in [NodePages -> LeafNode \cup InternalNode]
    BY <1>1, <2>1
  <2> QED BY <2>1, <2>2, <1>1 DEF LeafNode, Leaf
<1>3. \A p \in NodePages \ marked :
        [new[p] EXCEPT !.parent = 0] = [mem[p] EXCEPT !.parent = 0]
  <2>1. marked = {} => new[at] = mem[at]
    BY <1>1, <1>2 DEF LeafNode, Leaf
  <2> QED BY <1>2, <2>1
<1>4. \A p \in 1 .. numPages - 1 :
        /\ new[p].type = mem[p].type /\ new[p].root = mem[p].root
        /\ new[p].link = mem[p].link /\ new[p].parent = mem[p].parent
        /\ new[p].type = "internal" => new[p].cells = mem[p].cells
  BY <1>1, <1>2
<1>5. WellLinked(new, numPages)
  <2> DEFINE touched == {}
  <2> HIDE DEF new
  <2>1. /\ \A p \in 1 .. numPages - 1 :
             mem[p].type = "internal" => new[p].type = "internal"
        /\ \A p \in 1 .. numPages - 1 : mem[p].type = "leaf" /\ ~ mem[p].root =>
             new[p].type = "leaf" /\ ~ new[p].root
    BY <1>4
  <2>2. \A p \in touched : LinkedAt(new, numPages, p)
    OBVIOUS
  <2>3. \A p \in 1 .. numPages - 1 : p \notin touched =>
          /\ p < numPages
          /\ new[p].type = mem[p].type /\ new[p].root = mem[p].root
          /\ new[p].link = mem[p].link
          /\ new[p].type = "internal" => new[p].cells = mem[p].cells
          /\ \/ new[p].parent = mem[p].parent
             \/ /\ new[p].parent \in 1 .. numPages - 1
                /\ new[new[p].parent].type = "internal"
    BY <1>1, <1>4
  <2>4. numPages <= numPages
    BY <1>1
  <2> HIDE DEF touched
  <2>9. LinksKept(mem, numPages, new, numPages, touched)
    BY <1>1, <2>1, <2>2, <2>3, <2>4 DEF LinksKept
  <2> QED BY <2>9, LinksSurvive
<1>6. mem' = new /\ numPages' = numPages
  BY DEF Write
<1>7. PagesOK' /\ FileInv' /\ MemInv'
  <2>1. Write(new, marked, numPages)
    OBVIOUS
  <2> HIDE DEF new
  <2>2. /\ numPages \in numPages .. MaxPages /\ marked \subseteq 1 .. numPages - 1
        /\ numPages .. numPages - 1 \subseteq marked
    BY <1>1
  <2>3. \A p \in 1 .. numPages - 1 : mem[p].type = "internal" => new[p].type = "internal"
    BY <1>4
  <2> QED BY <2>1, <2>2, <2>3, <1>1, <1>2, <1>3, WriteInv
<1>8. WellLinked(mem, numPages)'
  BY <1>5, <1>6 DEF WellLinked, LinkedAt
<1> QED BY <1>4, <1>6, <1>7, <1>8

LEMMA InsertIntoLeafInv == ASSUME IInv, InsertIntoLeaf PROVE IInv'
<1> DEFINE wide == WithRow(mem[at].cells, stmt.key, stmt.row)
<1>1. /\ pc = "descend" /\ stmt.op = "insert" /\ mem[at].type = "leaf"
      /\ Len(mem[at].cells) < LeafMax
      /\ Write([mem EXCEPT ![at].cells = wide], {at}, numPages)
      /\ Finish("success", {})
  BY DEF InsertIntoLeaf, AtInsertLeaf
<1>2. mem[at].cells \in Seq(LeafCell) /\ stmt.key \in Keys /\ stmt.row \in Rows
  BY <1>1, StepFacts, StatementFields DEF LeafNode, Leaf, ControlOK
<1>3. wide \in Seq(LeafCell) /\ Len(wide) <= LeafMax
  <2>1. wide \in Seq(LeafCell) /\ Len(wide) = Len(mem[at].cells) + 1
    BY <1>2, WithRowProperties
  <2>2. Len(mem[at].cells) \in Nat
    BY <1>2, LenProperties
  <2> HIDE DEF wide
  <2> QED BY <2>1, <2>2, <1>1, CapacityAssumption
<1> HIDE DEF wide
<1>4. PagesOK' /\ FileInv' /\ MemInv' /\ WellLinked(mem, numPages)'
  BY <1>1, <1>3, CellsInv
<1> QED BY <1>1, <1>4, FinishInv DEF Codes

LEMMA DeleteRowInv == ASSUME IInv, DeleteRow PROVE IInv'
<1>1. PICK i \in Matches(mem[at].cells) :
        Write([mem EXCEPT ![at].cells = RemoveAt(@, i)], {at}, numPages)
  BY DEF DeleteRow
<1> DEFINE cells == RemoveAt(mem[at].cells, i)
<1>2. /\ pc = "walk" /\ UNCHANGED control
      /\ Write([mem EXCEPT ![at].cells = cells], {at}, numPages)
  BY <1>1 DEF DeleteRow
<1>3. /\ mem[at].type = "leaf" /\ mem[at].cells \in Seq(LeafCell)
      /\ Len(mem[at].cells) <= LeafMax /\ at \in 1 .. numPages - 1
      /\ ControlOK /\ StepInv /\ result.code # "error"
  BY <1>2, StepFacts DEF LeafNode, Leaf
<1>4. i \in 1 .. Len(mem[at].cells)
  BY <1>1 DEF Matches
<1>5. cells \in Seq(LeafCell) /\ Len(cells) <= LeafMax
  <2>1. cells \in Seq(LeafCell) /\ Len(cells) = Len(mem[at].cells) - 1
    BY <1>3, <1>4, RemoveAtProperties
  <2>2. Len(mem[at].cells) \in Nat
    BY <1>3, LenProperties
  <2> HIDE DEF cells
  <2> QED BY <2>1, <2>2, <1>3, CapacityAssumption
<1> HIDE DEF cells
<1>6. /\ PagesOK' /\ FileInv' /\ MemInv' /\ WellLinked(mem, numPages)'
      /\ numPages' = numPages
      /\ \A p \in 1 .. numPages - 1 : mem'[p].type = mem[p].type
  BY <1>2, <1>3, <1>5, CellsInv
<1>7. UNCHANGED <<pc, stmt, at, sep, result>>
  BY <1>2 DEF control
<1>8. ControlOK' /\ StepInv' /\ PointersLead'
  BY <1>2, <1>3, <1>6, <1>7 DEF ControlOK, StepInv, PointersLead
<1>9. TypeOK'
  BY <1>6, <1>8 DEF TypeOK, PagesOK, ControlOK
<1> QED BY <1>6, <1>8, <1>9 DEF IInv

LEMMA UpdateLeafInv == ASSUME IInv, UpdateLeaf PROVE IInv'
<1> DEFINE hits == Matches(mem[at].cells)
           cells == [i \in 1 .. Len(mem[at].cells) |->
                       IF i \in hits THEN [mem[at].cells[i] EXCEPT !.row = stmt.row]
                                     ELSE mem[at].cells[i]]
           marked == IF hits = {} THEN {} ELSE {at}
<1>1. /\ pc = "walk" /\ stmt.op = "update" /\ NextLeaf
      /\ Write([mem EXCEPT ![at].cells = cells], marked, numPages)
  BY DEF UpdateLeaf
<1>2. /\ mem[at].type = "leaf" /\ mem[at].cells \in Seq(LeafCell)
      /\ Len(mem[at].cells) <= LeafMax /\ at \in 1 .. numPages - 1
      /\ ControlOK /\ StepInv /\ result.code # "error" /\ WellLinked(mem, numPages)
      /\ stmt.row \in Rows
  BY <1>1, StepFacts, StatementFields DEF LeafNode, Leaf, ControlOK
<1>3. cells \in Seq(LeafCell) /\ Len(cells) = Len(mem[at].cells)
  <2>1. \A i \in 1 .. Len(mem[at].cells) : mem[at].cells[i] \in LeafCell
    BY <1>2, ElementOfSeq
  <2>2. \A i \in 1 .. Len(mem[at].cells) : cells[i] \in LeafCell
    BY <1>2, <2>1 DEF LeafCell
  <2>3. Len(mem[at].cells) \in Nat
    BY <1>2, LenProperties
  <2>4. cells \in [1 .. Len(mem[at].cells) -> LeafCell]
    BY <2>2
  <2> QED BY <2>3, <2>4
<1>4. marked = {} => cells = mem[at].cells
  <2>1. mem[at].cells = [i \in 1 .. Len(mem[at].cells) |-> mem[at].cells[i]]
    BY <1>2, LenProperties
  <2> QED BY <2>1
<1>5. marked \in SUBSET {at}
  OBVIOUS
<1> HIDE DEF cells, marked
<1>6. /\ PagesOK' /\ FileInv' /\ MemInv' /\ WellLinked(mem, numPages)'
      /\ numPages' = numPages
      /\ \A p \in 1 .. numPages - 1 : mem'[p].type = mem[p].type
  BY <1>1, <1>2, <1>3, <1>4, <1>5, CellsInv
<1>7. CASE mem[at].link # 0 /\ at' = mem[at].link /\ UNCHANGED <<pc, stmt, sep, result>>
  <2>1. at' \in 1 .. numPages - 1 /\ mem[at'].type = "leaf"
    BY <1>2, <1>7 DEF WellLinked, LinkedAt
  <2>2. at' \in PageNum
    BY <2>1, <1>1, StepFacts, PagesAreNodePages
  <2>3. ControlOK' /\ StepInv' /\ PointersLead'
    BY <1>1, <1>2, <1>6, <1>7, <2>1, <2>2 DEF ControlOK, StepInv, PointersLead
  <2>4. TypeOK'
    BY <1>6, <2>3 DEF TypeOK, PagesOK, ControlOK
  <2> QED BY <1>6, <2>3, <2>4 DEF IInv
<1>8. CASE Finish("success", {})
  BY <1>6, <1>8, FinishInv DEF Codes
<1> QED BY <1>1, <1>7, <1>8 DEF NextLeaf

-----------------------------------------------------------------------------
\* What split_leaf_node starts from: the halves and the new right leaf.
LEMMA FullLeafFacts ==
  ASSUME IInv, AtFullLeaf
  PROVE  LET wide  == WithRow(mem[at].cells, stmt.key, stmt.row)
             right == RightLeaf(wide)
         IN  /\ pc = "descend" /\ mem[at] \in LeafNode /\ mem[at].type = "leaf"
             /\ LowCells(wide) \in Seq(LeafCell) /\ Len(LowCells(wide)) <= LeafMax
             /\ HighCells(wide)[1].key \in Keys
             /\ right \in LeafNode /\ right.type = "leaf" /\ ~ right.root /\ right.link = 0
             /\ right.parent = IF mem[at].root THEN at ELSE mem[at].parent
             /\ ~ mem[at].root => /\ mem[at].parent \in 1 .. numPages - 1
                                  /\ mem[mem[at].parent].type = "internal"
<1> DEFINE wide  == WithRow(mem[at].cells, stmt.key, stmt.row)
           right == RightLeaf(wide)
           parent == IF mem[at].root THEN at ELSE mem[at].parent
<1>1. /\ pc = "descend" /\ stmt.op = "insert" /\ mem[at].type = "leaf"
      /\ Len(mem[at].cells) >= LeafMax
  BY DEF AtFullLeaf, AtInsertLeaf
<1>2. /\ mem[at] \in LeafNode /\ mem[at].cells \in Seq(LeafCell)
      /\ Len(mem[at].cells) <= LeafMax /\ mem[at].parent \in PageNum
      /\ mem[at].root \in BOOLEAN
      /\ at \in PageNum /\ at \in 1 .. numPages - 1 /\ WellLinked(mem, numPages)
      /\ stmt.key \in Keys /\ stmt.row \in Rows
  BY <1>1, StepFacts, StatementFields DEF LeafNode, Leaf, ControlOK
<1>3. wide \in Seq(LeafCell) /\ Len(wide) = LeafMax + 1
  <2>1. wide \in Seq(LeafCell) /\ Len(wide) = Len(mem[at].cells) + 1
    BY <1>2, WithRowProperties
  <2>2. Len(mem[at].cells) \in Nat
    BY <1>2, LenProperties
  <2>3. Len(mem[at].cells) = LeafMax
    BY <2>2, <1>1, <1>2, CapacityAssumption
  <2> QED BY <2>1, <2>3
<1> HIDE DEF wide
<1>4. /\ LowCells(wide) \in Seq(LeafCell) /\ Len(LowCells(wide)) \in 1 .. LeafMax
      /\ HighCells(wide) \in Seq(LeafCell) /\ Len(HighCells(wide)) \in 1 .. LeafMax
      /\ HighCells(wide)[1].key \in Keys
  BY <1>3, LeafHalves
<1>5. Len(LowCells(wide)) <= LeafMax /\ Len(HighCells(wide)) <= LeafMax
  BY <1>4, CapacityAssumption
<1>6. parent \in PageNum
  BY <1>2
<1>7. /\ right = [NewLeaf(parent) EXCEPT !.root = FALSE, !.cells = HighCells(wide)]
      /\ NewLeaf(parent) \in LeafNode
      /\ NewLeaf(parent).type = "leaf" /\ NewLeaf(parent).link = 0
      /\ NewLeaf(parent).parent = parent
  BY <1>6, EmptyLeaves DEF RightLeaf, NewLeaf, ZeroPage
<1> HIDE DEF parent, right
<1>8. /\ right \in LeafNode /\ right.type = "leaf" /\ ~ right.root /\ right.link = 0
      /\ right.parent = parent
  BY <1>4, <1>5, <1>7 DEF LeafNode, Leaf
<1>9. ~ mem[at].root => /\ mem[at].parent \in 1 .. numPages - 1
                        /\ mem[mem[at].parent].type = "internal"
  BY <1>2 DEF WellLinked, LinkedAt
<1> QED BY <1>1, <1>2, <1>4, <1>5, <1>8, <1>9 DEF wide, right, parent

LEMMA SplitRootLeafHalfwayInv == ASSUME IInv, SplitRootLeafHalfway PROVE IInv'
<1> DEFINE wide  == WithRow(mem[at].cells, stmt.key, stmt.row)
           node == RightLeaf(wide)
           new == [mem EXCEPT ![numPages] = node]
<1>1. /\ AtFullLeaf /\ numPages + 1 = MaxPages
      /\ Write(new, {numPages}, numPages + 1) /\ Finish("error", {})
  BY DEF SplitRootLeafHalfway
<1>2. node \in LeafNode /\ pc = "descend"
  BY <1>1, FullLeafFacts
<1>3. /\ mem \in [NodePages -> LeafNode \cup InternalNode] /\ result.code # "error"
      /\ numPages \in Nat /\ MaxPages \in Nat
      /\ 1 .. numPages - 1 \subseteq NodePages
  BY <1>2, StepFacts DEF PagesOK
<1> HIDE DEF node
<1>4. /\ new \in [NodePages -> LeafNode \cup InternalNode]
      /\ \A p \in NodePages : p # numPages => new[p] = mem[p]
  BY <1>2, <1>3
<1> HIDE DEF new
<1>5. /\ numPages + 1 \in numPages .. MaxPages
      /\ {numPages} \subseteq 1 .. numPages + 1 - 1
      /\ numPages .. numPages + 1 - 1 \subseteq {numPages}
  <2>1. numPages >= 2
    BY <1>2, StepFacts, CapacityAssumption DEF PagesOK
  <2> QED BY <2>1, <1>1, <1>3
<1>6. \A p \in NodePages \ {numPages} :
        [new[p] EXCEPT !.parent = 0] = [mem[p] EXCEPT !.parent = 0]
  BY <1>4
<1>7. \A p \in 1 .. numPages - 1 : mem[p].type = "internal" => new[p].type = "internal"
  <2>1. \A p \in 1 .. numPages - 1 : p \in NodePages /\ p # numPages
    BY <1>3
  <2> QED BY <2>1, <1>4
<1>8. PagesOK' /\ FileInv'
  <2> DEFINE marked == {numPages}
             more == numPages + 1
  <2>1. /\ Write(new, marked, more) /\ more \in numPages .. MaxPages
        /\ marked \subseteq 1 .. more - 1 /\ numPages .. more - 1 \subseteq marked
        /\ \A p \in NodePages \ marked :
             [new[p] EXCEPT !.parent = 0] = [mem[p] EXCEPT !.parent = 0]
    BY <1>1, <1>5, <1>6
  <2> HIDE DEF marked, more
  <2> QED BY <2>1, <1>3, <1>4, <1>7, WriteInv
<1> QED BY <1>1, <1>8, FinishInv DEF Codes

LEMMA SplitRootLeafInv == ASSUME IInv, SplitRootLeaf PROVE IInv'
<1> DEFINE wide  == WithRow(mem[at].cells, stmt.key, stmt.row)
           right == numPages
           left  == numPages + 1
           more  == numPages + 2
           up    == [key |-> HighCells(wide)[1].key, left |-> left, right |-> right]
           rightNode == RightLeaf(wide)
           leftNode  == [NewLeaf(at) EXCEPT !.root = FALSE, !.link = right,
                                            !.cells = LowCells(wide)]
           rootNode  == RootOver(mem[at], up)
           marked == {right, left, at}
           new == [mem EXCEPT ![right] = rightNode, ![left] = leftNode, ![at] = rootNode]
<1>1. /\ AtFullLeaf /\ mem[at].root /\ left < MaxPages
      /\ Finish("success", {})
  BY DEF SplitRootLeaf
<1>2. Write([mem EXCEPT ![right] = RightLeaf(wide),
                        ![left] = [NewLeaf(at) EXCEPT !.root = FALSE, !.link = right,
                                                      !.cells = LowCells(wide)],
                        ![at] = RootOver(@, up)],
            {right, left, at}, numPages + 2)
  BY DEF SplitRootLeaf
<1>3. /\ pc = "descend" /\ mem[at] \in LeafNode /\ mem[at].type = "leaf"
      /\ LowCells(wide) \in Seq(LeafCell) /\ Len(LowCells(wide)) <= LeafMax
      /\ up.key \in Keys
      /\ rightNode \in LeafNode /\ rightNode.type = "leaf" /\ ~ rightNode.root
      /\ rightNode.link = 0 /\ rightNode.parent = at
  BY <1>1, FullLeafFacts
<1>4. /\ mem \in [NodePages -> LeafNode \cup InternalNode] /\ result.code # "error"
      /\ numPages \in Nat /\ MaxPages \in Nat /\ numPages >= 2
      /\ 1 .. numPages - 1 \subseteq NodePages
      /\ at \in 1 .. numPages - 1 /\ at \in PageNum /\ WellLinked(mem, numPages)
  BY <1>3, StepFacts, CapacityAssumption DEF PagesOK
<1>5. /\ more \in Nat /\ more \in numPages .. MaxPages /\ numPages <= more
      /\ marked \subseteq 1 .. more - 1 /\ numPages .. more - 1 \subseteq marked
      /\ right \in 1 .. more - 1 /\ left \in 1 .. more - 1 /\ at \in 1 .. more - 1
      /\ right # left /\ right # at /\ left # at /\ right # 0 /\ left # 0 /\ at # 0
      /\ \A p \in 1 .. more - 1 : p \notin marked => p < numPages
      /\ \A p \in 1 .. numPages - 1 : p # right /\ p # left
  BY <1>1, <1>4
<1>6. right \in NodePages /\ left \in NodePages /\ at \in NodePages
      /\ right \in PageNum /\ left \in PageNum
  <2>1. 1 .. more - 1 \subseteq 1 .. MaxPages - 1
    BY <1>5, <1>4
  <2> QED BY <2>1, <1>5, PagesAreNodePages
<1> HIDE DEF right, left, more, wide
<1>7. /\ leftNode \in LeafNode /\ leftNode.type = "leaf" /\ ~ leftNode.root
      /\ leftNode.link = right /\ leftNode.parent = at
  <2>1. NewLeaf(at) \in LeafNode /\ NewLeaf(at).type = "leaf" /\ NewLeaf(at).parent = at
    BY <1>4, EmptyLeaves DEF NewLeaf, ZeroPage
  <2> QED BY <2>1, <1>3, <1>6 DEF LeafNode, Leaf
<1>8. /\ rootNode \in InternalNode /\ rootNode.type = "internal" /\ rootNode.root
      /\ Kids(rootNode) = {left, right}
  <2> DEFINE cell == [key |-> up.key, child |-> left]
  <2>1. cell \in InternalCell
    BY <1>3, <1>6 DEF InternalCell
  <2>2. /\ <<cell>> \in Seq(InternalCell) /\ Len(<<cell>>) = 1 /\ <<cell>>[1] = cell
        /\ 1 \in 1 .. InternalMax
    BY <2>1, CapacityAssumption
  <2>3. rootNode = [mem[at] EXCEPT !.type = "internal", !.root = TRUE, !.link = right,
                                   !.cells = <<cell>>]
    BY DEF RootOver
  <2> HIDE DEF cell
  <2>4. /\ rootNode \in Internal /\ rootNode.type = "internal" /\ rootNode.root
        /\ rootNode.link = right /\ rootNode.cells = <<cell>>
    BY <1>3, <1>6, <2>2, <2>3 DEF LeafNode, Leaf, Internal
  <2>5. Kids(rootNode) = {left, right}
    <3>1. cell.child = left
      BY DEF cell
    <3> HIDE DEF rootNode
    <3>2. Kids(rootNode) = {<<cell>>[i].child : i \in 1 .. Len(<<cell>>)} \cup {right}
      BY <2>4 DEF Kids
    <3>3. 1 .. Len(<<cell>>) = {1}
      BY <2>2
    <3> QED BY <3>1, <3>2, <3>3, <2>2
  <2> HIDE DEF rootNode
  <2>6. rootNode \in InternalNode
    BY <2>2, <2>4 DEF InternalNode
  <2> QED BY <2>4, <2>5, <2>6
<1> HIDE DEF leftNode, rightNode, rootNode
<1>9. /\ new \in [NodePages -> LeafNode \cup InternalNode]
      /\ new[right] = rightNode /\ new[left] = leftNode /\ new[at] = rootNode
      /\ \A p \in NodePages \ marked : new[p] = mem[p]
  BY <1>3, <1>4, <1>5, <1>6, <1>7, <1>8
<1>10. Write(new, marked, more)
  BY <1>2, <1>4, <1>5, <1>6 DEF more, rightNode, leftNode, rootNode
<1> HIDE DEF marked, new
<1>11. \A p \in 1 .. more - 1 : p \notin marked => p \in 1 .. numPages - 1 /\ new[p] = mem[p]
  BY <1>4, <1>5, <1>9
<1>12. \A p \in marked : LinkedAt(new, more, p)
  <2>1. LinkedAt(new, more, right)
    BY <1>3, <1>5, <1>8, <1>9 DEF LinkedAt
  <2>2. LinkedAt(new, more, left)
    BY <1>3, <1>5, <1>7, <1>8, <1>9 DEF LinkedAt
  <2>3. LinkedAt(new, more, at)
    BY <1>5, <1>8, <1>9 DEF LinkedAt
  <2> QED BY <2>1, <2>2, <2>3 DEF marked
<1>13. /\ \A p \in 1 .. numPages - 1 : mem[p].type = "internal" => new[p].type = "internal"
       /\ \A p \in 1 .. numPages - 1 : mem[p].type = "leaf" /\ ~ mem[p].root =>
            new[p].type = "leaf" /\ ~ new[p].root
  <2>1. \A p \in 1 .. numPages - 1 : p = at \/ new[p] = mem[p]
    BY <1>4, <1>5, <1>9 DEF marked
  <2> QED BY <2>1, <1>1, <1>3, <1>8, <1>9
<1>14. WellLinked(new, more)
  <2>1. \A p \in 1 .. more - 1 : p \notin marked =>
          /\ p < numPages
          /\ new[p].type = mem[p].type /\ new[p].root = mem[p].root
          /\ new[p].link = mem[p].link
          /\ new[p].type = "internal" => new[p].cells = mem[p].cells
          /\ \/ new[p].parent = mem[p].parent
             \/ /\ new[p].parent \in 1 .. more - 1
                /\ new[new[p].parent].type = "internal"
    BY <1>5, <1>11
  <2>2. numPages \in Nat /\ more \in Nat /\ numPages <= more /\ WellLinked(mem, numPages)
    BY <1>4, <1>5
  <2>9. LinksKept(mem, numPages, new, more, marked)
    BY <2>1, <2>2, <1>12, <1>13 DEF LinksKept
  <2> QED BY <2>9, LinksSurvive
<1>15. PagesOK' /\ FileInv' /\ MemInv'
  <2>1. \A p \in NodePages \ marked :
          [new[p] EXCEPT !.parent = 0] = [mem[p] EXCEPT !.parent = 0]
    BY <1>9
  <2> QED BY <2>1, <1>4, <1>5, <1>9, <1>10, <1>13, WriteInv
<1>16. WellLinked(mem, numPages)'
  <2>1. mem' = new /\ numPages' = more
    BY <1>10 DEF Write
  <2> QED BY <2>1, <1>14 DEF WellLinked, LinkedAt
<1> QED BY <1>1, <1>15, <1>16, FinishInv DEF Codes

-----------------------------------------------------------------------------
\* A separator that goes up to the next internal node.
LEMMA ToSeparatorInv ==
  ASSUME IInv, pc # "idle", stmt.op = "insert",
         PagesOK', FileInv', MemInv', WellLinked(mem, numPages)',
         NEW more \in Nat, numPages' = more, numPages <= more, more <= MaxPages,
         pc' = "separator", stmt' = stmt, result' = result,
         at' \in 1 .. numPages - 1, mem'[at'].type = "internal",
         sep'.key \in Keys \cup {0},
         sep' = [key |-> sep'.key, left |-> sep'.left, right |-> sep'.right],
         sep'.left \in 1 .. more - 1, sep'.right \in 1 .. more - 1
  PROVE  IInv'
<1>1. /\ ControlOK /\ result.code # "error" /\ numPages \in Nat /\ MaxPages \in Nat
  BY StepFacts
<1>2. at' \in 1 .. more - 1 /\ 1 .. more - 1 \subseteq 1 .. MaxPages - 1
  BY <1>1
<1>3. at' \in PageNum /\ sep'.left \in PageNum /\ sep'.right \in PageNum
  BY <1>2, PagesAreNodePages
<1>4. sep' \in [key : Keys \cup {0}, left : PageNum, right : PageNum]
  BY <1>3
<1>5. ControlOK'
  BY <1>1, <1>3, <1>4 DEF ControlOK
<1>6. StepInv'
  BY <1>1, <1>2 DEF StepInv
<1>7. PointersLead'
  BY <1>1 DEF PointersLead
<1>8. TypeOK'
  BY <1>5 DEF TypeOK, PagesOK, ControlOK
<1> QED BY <1>6, <1>7, <1>8 DEF IInv

LEMMA SplitLeafInv == ASSUME IInv, SplitLeaf PROVE IInv'
<1> DEFINE wide  == WithRow(mem[at].cells, stmt.key, stmt.row)
           right == numPages
           more  == numPages + 1
           key   == HighCells(wide)[1].key
           rightNode == [RightLeaf(wide) EXCEPT !.link = mem[at].link]
           leftNode  == [mem[at] EXCEPT !.cells = LowCells(wide), !.link = right]
           marked == {right, at}
           new == [mem EXCEPT ![right] = rightNode, ![at] = leftNode]
<1>1. /\ AtFullLeaf /\ ~ mem[at].root /\ numPages < MaxPages /\ stmt.op = "insert"
      /\ at' = mem[at].parent /\ pc' = "separator" /\ stmt' = stmt /\ result' = result
      /\ sep' = [key |-> key, left |-> at, right |-> right]
  BY DEF SplitLeaf, AtFullLeaf, AtInsertLeaf
<1>2. Write([mem EXCEPT ![right] = [RightLeaf(wide) EXCEPT !.link = mem[at].link],
                        ![at].cells = LowCells(wide), ![at].link = right],
            {right, at}, numPages + 1)
  BY DEF SplitLeaf
<1>3. /\ pc = "descend" /\ mem[at] \in LeafNode /\ mem[at].type = "leaf"
      /\ LowCells(wide) \in Seq(LeafCell) /\ Len(LowCells(wide)) <= LeafMax
      /\ key \in Keys
      /\ RightLeaf(wide) \in LeafNode /\ RightLeaf(wide).type = "leaf"
      /\ ~ RightLeaf(wide).root /\ RightLeaf(wide).parent = mem[at].parent
      /\ mem[at].parent \in 1 .. numPages - 1
      /\ mem[mem[at].parent].type = "internal"
  BY <1>1, FullLeafFacts
<1>4. /\ mem \in [NodePages -> LeafNode \cup InternalNode] /\ result.code # "error"
      /\ numPages \in Nat /\ MaxPages \in Nat /\ numPages >= 2
      /\ 1 .. numPages - 1 \subseteq NodePages
      /\ at \in 1 .. numPages - 1 /\ at \in PageNum /\ WellLinked(mem, numPages)
  BY <1>3, StepFacts, CapacityAssumption DEF PagesOK
<1>5. /\ more \in Nat /\ more \in numPages .. MaxPages /\ numPages <= more
      /\ more <= MaxPages
      /\ marked \subseteq 1 .. more - 1 /\ numPages .. more - 1 \subseteq marked
      /\ right \in 1 .. more - 1 /\ at \in 1 .. more - 1
      /\ right # at /\ right # 0 /\ at # 0
      /\ 1 .. numPages - 1 \subseteq 1 .. more - 1
      /\ \A p \in 1 .. more - 1 : p \notin marked => p < numPages
      /\ \A p \in 1 .. numPages - 1 : p # right
  BY <1>1, <1>4
<1>6. right \in NodePages /\ at \in NodePages /\ right \in PageNum
  <2>1. 1 .. more - 1 \subseteq 1 .. MaxPages - 1
    BY <1>5, <1>4
  <2> QED BY <2>1, <1>5, PagesAreNodePages
<1> HIDE DEF right, more, wide, key
<1>7. /\ leftNode \in LeafNode /\ leftNode.type = "leaf" /\ ~ leftNode.root
      /\ leftNode.link = right /\ leftNode.parent = mem[at].parent
  BY <1>1, <1>3, <1>6 DEF LeafNode, Leaf
<1>8. /\ rightNode \in LeafNode /\ rightNode.type = "leaf" /\ ~ rightNode.root
      /\ rightNode.link = mem[at].link /\ rightNode.parent = mem[at].parent
  <2>1. mem[at].link \in PageNum
    BY <1>3 DEF LeafNode, Leaf
  <2> QED BY <2>1, <1>3 DEF LeafNode, Leaf
<1> HIDE DEF leftNode, rightNode
<1>9. /\ new \in [NodePages -> LeafNode \cup InternalNode]
      /\ new[right] = rightNode /\ new[at] = leftNode
      /\ \A p \in NodePages \ marked : new[p] = mem[p]
  BY <1>4, <1>5, <1>6, <1>7, <1>8
<1>10. Write(new, marked, more)
  BY <1>2, <1>4, <1>5, <1>6 DEF more, rightNode, leftNode
<1> HIDE DEF marked, new
<1>11. \A p \in 1 .. more - 1 : p \notin marked => p \in 1 .. numPages - 1 /\ new[p] = mem[p]
  BY <1>4, <1>5, <1>9
<1>12. /\ \A p \in 1 .. numPages - 1 : mem[p].type = "internal" => new[p].type = "internal"
       /\ \A p \in 1 .. numPages - 1 : mem[p].type = "leaf" /\ ~ mem[p].root =>
            new[p].type = "leaf" /\ ~ new[p].root
  <2>1. \A p \in 1 .. numPages - 1 : p = at \/ new[p] = mem[p]
    BY <1>4, <1>5, <1>9 DEF marked
  <2> QED BY <2>1, <1>1, <1>3, <1>7, <1>9
<1>13. /\ mem[at].parent \in 1 .. more - 1 /\ new[mem[at].parent].type = "internal"
  BY <1>3, <1>5, <1>12
<1>14. \A p \in marked : LinkedAt(new, more, p)
  <2>1. LinkedAt(mem, numPages, at)
    BY <1>4 DEF WellLinked
  <2>2. mem[at].link # 0 => /\ mem[at].link \in 1 .. numPages - 1
                            /\ new[mem[at].link].type = "leaf"
                            /\ ~ new[mem[at].link].root
    BY <2>1, <1>3, <1>12 DEF LinkedAt
  <2>3. LinkedAt(new, more, right)
    BY <2>2, <1>5, <1>8, <1>9, <1>13 DEF LinkedAt
  <2>4. LinkedAt(new, more, at)
    BY <1>5, <1>7, <1>8, <1>9, <1>13 DEF LinkedAt
  <2> QED BY <2>3, <2>4 DEF marked
<1>15. WellLinked(new, more)
  <2>1. \A p \in 1 .. more - 1 : p \notin marked =>
          /\ p < numPages
          /\ new[p].type = mem[p].type /\ new[p].root = mem[p].root
          /\ new[p].link = mem[p].link
          /\ new[p].type = "internal" => new[p].cells = mem[p].cells
          /\ \/ new[p].parent = mem[p].parent
             \/ /\ new[p].parent \in 1 .. more - 1
                /\ new[new[p].parent].type = "internal"
    BY <1>5, <1>11
  <2>2. numPages \in Nat /\ more \in Nat /\ numPages <= more /\ WellLinked(mem, numPages)
    BY <1>4, <1>5
  <2>9. LinksKept(mem, numPages, new, more, marked)
    BY <2>1, <2>2, <1>12, <1>14 DEF LinksKept
  <2> QED BY <2>9, LinksSurvive
<1>16. PagesOK' /\ FileInv' /\ MemInv'
  <2>1. \A p \in NodePages \ marked :
          [new[p] EXCEPT !.parent = 0] = [mem[p] EXCEPT !.parent = 0]
    BY <1>9
  <2> QED BY <2>1, <1>4, <1>5, <1>9, <1>10, <1>12, WriteInv
<1>17. mem' = new /\ numPages' = more
  BY <1>10 DEF Write
<1>18. WellLinked(mem, numPages)'
  BY <1>15, <1>17 DEF WellLinked, LinkedAt
<1>19. /\ sep'.key \in Keys \cup {0}
       /\ sep' = [key |-> sep'.key, left |-> sep'.left, right |-> sep'.right]
       /\ sep'.left \in 1 .. more - 1 /\ sep'.right \in 1 .. more - 1
  BY <1>1, <1>3, <1>5
<1>20. at' \in 1 .. numPages - 1 /\ mem'[at'].type = "internal"
  BY <1>1, <1>3, <1>13, <1>17
<1>21. pc # "idle"
  BY <1>3
<1> QED BY <1>1, <1>5, <1>16, <1>17, <1>18, <1>19, <1>20, <1>21, ToSeparatorInv

-----------------------------------------------------------------------------
\* An internal node is replaced: internal_node_insert, or the memset of a split.
LEMMA NodeInv ==
  ASSUME IInv, pc = "separator",
         NEW node \in InternalNode, Kids(node) \subseteq 1 .. numPages - 1,
         node.root = mem[at].root, node.parent = mem[at].parent,
         Write([mem EXCEPT ![at] = node], {at}, numPages)
  PROVE  PagesOK' /\ FileInv' /\ MemInv' /\ WellLinked(mem, numPages)'
<1> DEFINE new == [mem EXCEPT ![at] = node]
           marked == {at}
<1>1. /\ mem \in [NodePages -> LeafNode \cup InternalNode] /\ result.code # "error"
      /\ numPages \in Nat /\ MaxPages \in Nat /\ numPages <= MaxPages
      /\ 1 .. numPages - 1 \subseteq NodePages
      /\ at \in 1 .. numPages - 1 /\ at \in NodePages /\ WellLinked(mem, numPages)
      /\ mem[at].type = "internal"
  BY StepFacts DEF PagesOK
<1>2. node.type = "internal"
  BY DEF InternalNode, Internal
<1>3. /\ new \in [NodePages -> LeafNode \cup InternalNode]
      /\ new[at] = node /\ \A p \in NodePages \ marked : new[p] = mem[p]
  BY <1>1
<1>4. Write(new, marked, numPages)
  OBVIOUS
<1> HIDE DEF new
<1>5. /\ \A p \in 1 .. numPages - 1 : mem[p].type = "internal" => new[p].type = "internal"
      /\ \A p \in 1 .. numPages - 1 : mem[p].type = "leaf" /\ ~ mem[p].root =>
           new[p].type = "leaf" /\ ~ new[p].root
  BY <1>1, <1>2, <1>3
<1>6. \A p \in marked : LinkedAt(new, numPages, p)
  <2>1. LinkedAt(mem, numPages, at)
    BY <1>1 DEF WellLinked
  <2> QED BY <2>1, <1>2, <1>3, <1>5 DEF LinkedAt
<1>7. /\ numPages \in numPages .. MaxPages /\ marked \subseteq 1 .. numPages - 1
      /\ numPages .. numPages - 1 \subseteq marked
  BY <1>1
<1> HIDE DEF marked
<1>8. WellLinked(new, numPages)
  <2>1. \A p \in 1 .. numPages - 1 : p \notin marked =>
          /\ p < numPages
          /\ new[p].type = mem[p].type /\ new[p].root = mem[p].root
          /\ new[p].link = mem[p].link
          /\ new[p].type = "internal" => new[p].cells = mem[p].cells
          /\ \/ new[p].parent = mem[p].parent
             \/ /\ new[p].parent \in 1 .. numPages - 1
                /\ new[new[p].parent].type = "internal"
    BY <1>1, <1>3
  <2>2. numPages \in Nat /\ numPages <= numPages /\ WellLinked(mem, numPages)
    BY <1>1
  <2>9. LinksKept(mem, numPages, new, numPages, marked)
    BY <2>1, <2>2, <1>5, <1>6 DEF LinksKept
  <2> QED BY <2>9, LinksSurvive
<1>9. PagesOK' /\ FileInv' /\ MemInv'
  <2>1. \A p \in NodePages \ marked :
          [new[p] EXCEPT !.parent = 0] = [mem[p] EXCEPT !.parent = 0]
    BY <1>3
  <2> QED BY <2>1, <1>1, <1>3, <1>4, <1>5, <1>7, WriteInv
<1>10. mem' = new /\ numPages' = numPages
  BY <1>4 DEF Write
<1> QED BY <1>8, <1>9, <1>10 DEF WellLinked, LinkedAt

\* The node a separator goes to, with the separator in.
LEMMA SeparatorFacts ==
  ASSUME IInv, pc = "separator"
  PROVE  LET wide == WithSeparator(mem[at], sep)
         IN  /\ mem[at] \in InternalNode /\ mem[at].type = "internal"
             /\ stmt.op = "insert"
             /\ Len(mem[at].cells) \in Nat /\ Len(mem[at].cells) <= InternalMax
             /\ wide \in Internal /\ Len(wide.cells) = Len(mem[at].cells) + 1
             /\ wide.root = mem[at].root /\ wide.parent = mem[at].parent
             /\ Kids(wide) \subseteq 1 .. numPages - 1
<1> DEFINE wide == WithSeparator(mem[at], sep)
<1>1. /\ mem[at] \in InternalNode /\ mem[at].type = "internal" /\ stmt.op = "insert"
      /\ at \in 1 .. numPages - 1 /\ WellLinked(mem, numPages)
      /\ sep \in [key : Keys \cup {0}, left : PageNum, right : PageNum]
      /\ {sep.left, sep.right} \subseteq 1 .. numPages - 1
  BY StepFacts DEF StepInv, ControlOK
<1>2. /\ mem[at] \in Internal /\ Len(mem[at].cells) \in Nat
      /\ Len(mem[at].cells) <= InternalMax
  BY <1>1, CapacityAssumption DEF InternalNode
<1>3. /\ wide \in Internal /\ Len(wide.cells) = Len(mem[at].cells) + 1
      /\ wide.root = mem[at].root /\ wide.parent = mem[at].parent
      /\ Kids(wide) \subseteq Kids(mem[at]) \cup {sep.left, sep.right}
  BY <1>1, <1>2, WithSeparatorProperties
<1>4. Kids(mem[at]) \subseteq 1 .. numPages - 1
  BY <1>1 DEF WellLinked, LinkedAt
<1> HIDE DEF wide
<1>5. Kids(wide) \subseteq 1 .. numPages - 1
  BY <1>1, <1>3, <1>4
<1> QED BY <1>1, <1>2, <1>3, <1>5 DEF wide

LEMMA InsertSeparatorInv == ASSUME IInv, InsertSeparator PROVE IInv'
<1> DEFINE wide == WithSeparator(mem[at], sep)
<1>1. /\ pc = "separator" /\ Len(mem[at].cells) < InternalMax
      /\ Write([mem EXCEPT ![at] = wide], {at}, numPages)
      /\ Finish("success", {})
  BY DEF InsertSeparator
<1>2. /\ Len(mem[at].cells) \in Nat
      /\ wide \in Internal /\ Len(wide.cells) = Len(mem[at].cells) + 1
      /\ wide.root = mem[at].root /\ wide.parent = mem[at].parent
      /\ Kids(wide) \subseteq 1 .. numPages - 1
  BY <1>1, SeparatorFacts
<1> HIDE DEF wide
<1>3. Len(wide.cells) \in 1 .. InternalMax
  BY <1>1, <1>2, CapacityAssumption
<1>4. wide \in InternalNode
  BY <1>2, <1>3 DEF InternalNode
<1>5. PagesOK' /\ FileInv' /\ MemInv' /\ WellLinked(mem, numPages)'
  BY <1>1, <1>2, <1>4, NodeInv
<1> QED BY <1>1, <1>5, FinishInv DEF Codes

\* Both failing node splits leave pages that the invariant can do without.
LEMMA NoPagesForRootNodeInv == ASSUME IInv, NoPagesForRootNode PROVE IInv'
<1>1. /\ pc = "separator" /\ numPages' = MaxPages /\ Finish("error", {})
      /\ UNCHANGED <<mem, dirty, disk, filePages, session>>
  BY DEF NoPagesForRootNode, AtFullNode
<1>2. PagesOK /\ FileInv
  BY <1>1, StepFacts
<1>3. /\ numPages \in Nat /\ MaxPages \in Nat /\ numPages <= MaxPages
      /\ filePages \in Nat /\ filePages <= numPages
      /\ MaxPages \in 2 .. MaxPages /\ filePages <= MaxPages
      /\ 1 .. numPages - 1 \subseteq 1 .. MaxPages - 1
  BY <1>1, <1>2, StepFacts, CapacityAssumption DEF PagesOK, FileInv
<1>4. PagesOK'
  BY <1>1, <1>2, <1>3 DEF PagesOK
<1>5. FileInv'
  BY <1>1, <1>2, <1>3 DEF FileInv, WellLinked, LinkedAt
<1> QED BY <1>1, <1>4, <1>5, FinishInv DEF Codes

LEMMA NoPageForNodeInv == ASSUME IInv, NoPageForNode PROVE IInv'
<1> DEFINE node == Wiped(mem[at])
           cells == [i \in 1 .. Len(mem[at].cells) |-> [key |-> 0, child |-> 0]]
<1>1. /\ pc = "separator" /\ mem' = [mem EXCEPT ![at] = node] /\ Finish("error", {})
      /\ UNCHANGED <<dirty, numPages, disk, filePages, session>>
  BY DEF NoPageForNode, AtFullNode
<1>2. /\ PagesOK /\ FileInv /\ at \in NodePages /\ mem[at] \in InternalNode
  BY <1>1, StepFacts
<1>3. cells \in Seq(InternalCell) /\ Len(cells) = Len(mem[at].cells)
  <2>1. [key |-> 0, child |-> 0] \in InternalCell
    BY CapacityAssumption DEF InternalCell, PageNum
  <2>2. Len(mem[at].cells) \in Nat
    BY <1>2, LenProperties DEF InternalNode, Internal
  <2>3. cells \in [1 .. Len(mem[at].cells) -> InternalCell]
    BY <2>1
  <2> QED BY <2>2, <2>3
<1>4. node = [mem[at] EXCEPT !.cells = cells]
  BY DEF Wiped
<1> HIDE DEF cells, node
<1>5. node \in InternalNode
  BY <1>2, <1>3, <1>4 DEF InternalNode, Internal
<1>6. PagesOK'
  BY <1>1, <1>2, <1>5 DEF PagesOK
<1>7. FileInv'
  BY <1>1, <1>2 DEF FileInv, WellLinked, LinkedAt
<1> QED BY <1>1, <1>6, <1>7, FinishInv DEF Codes

-----------------------------------------------------------------------------
\* What split_internal_node starts from: both halves fit a node.
LEMMA FullNodeFacts ==
  ASSUME IInv, AtFullNode
  PROVE  LET wide == WithSeparator(mem[at], sep)
             low  == LowNode(wide)
             high == HighNode(wide)
         IN  /\ pc = "separator" /\ stmt.op = "insert"
             /\ mem[at] \in InternalNode /\ mem[at].type = "internal"
             /\ low \in InternalNode /\ low.type = "internal" /\ ~ low.root
             /\ high \in InternalNode /\ high.type = "internal" /\ ~ high.root
             /\ low.parent = mem[at].parent /\ high.parent = mem[at].parent
             /\ Kids(low) \subseteq 1 .. numPages - 1
             /\ Kids(high) \subseteq 1 .. numPages - 1
             /\ Promoted(wide) \in Keys \cup {0}
             /\ ~ mem[at].root => /\ mem[at].parent \in 1 .. numPages - 1
                                  /\ mem[mem[at].parent].type = "internal"
<1> DEFINE wide == WithSeparator(mem[at], sep)
           low  == LowNode(wide)
           high == HighNode(wide)
<1>1. pc = "separator" /\ Len(mem[at].cells) >= InternalMax
  BY DEF AtFullNode
<1>2. /\ mem[at] \in InternalNode /\ mem[at].type = "internal" /\ stmt.op = "insert"
      /\ Len(mem[at].cells) \in Nat /\ Len(mem[at].cells) <= InternalMax
      /\ wide \in Internal /\ Len(wide.cells) = Len(mem[at].cells) + 1
      /\ wide.root = mem[at].root /\ wide.parent = mem[at].parent
      /\ Kids(wide) \subseteq 1 .. numPages - 1
  BY <1>1, SeparatorFacts
<1> HIDE DEF wide
<1>3. Len(wide.cells) = InternalMax + 1
  BY <1>1, <1>2, CapacityAssumption
<1>4. /\ low \in InternalNode /\ ~ low.root /\ low.parent = wide.parent
      /\ high \in InternalNode /\ ~ high.root /\ high.parent = wide.parent
      /\ Kids(low) \subseteq Kids(wide) /\ Kids(high) \subseteq Kids(wide)
      /\ Promoted(wide) \in Keys \cup {0}
  BY <1>2, <1>3, InternalHalves
<1> HIDE DEF low, high
<1>5. low.type = "internal" /\ high.type = "internal"
  BY <1>4 DEF InternalNode, Internal
<1>6. ~ mem[at].root => /\ mem[at].parent \in 1 .. numPages - 1
                        /\ mem[mem[at].parent].type = "internal"
  <2>1. LinkedAt(mem, numPages, at)
    BY <1>1, StepFacts DEF WellLinked
  <2> QED BY <2>1 DEF LinkedAt
<1>7. /\ Kids(low) \subseteq 1 .. numPages - 1 /\ Kids(high) \subseteq 1 .. numPages - 1
      /\ low.parent = mem[at].parent /\ high.parent = mem[at].parent
  BY <1>2, <1>4
<1> QED BY <1>1, <1>2, <1>4, <1>5, <1>6, <1>7 DEF wide, low, high

\* Adopted children change in nothing but their parent.
LEMMA AdoptProperties ==
  ASSUME NEW pages \in [NodePages -> LeafNode \cup InternalNode],
         NEW kids, NEW parent \in PageNum
  PROVE  /\ Adopt(pages, kids, parent) \in [NodePages -> LeafNode \cup InternalNode]
         /\ \A p \in NodePages :
              LET node == Adopt(pages, kids, parent)[p]
              IN  /\ node.type = pages[p].type /\ node.root = pages[p].root
                  /\ node.link = pages[p].link /\ node.cells = pages[p].cells
                  /\ node.parent \in {pages[p].parent, parent}
                  /\ [node EXCEPT !.parent = 0] = [pages[p] EXCEPT !.parent = 0]
<1> DEFINE new == Adopt(pages, kids, parent)
<1>1. ASSUME NEW p \in NodePages
      PROVE  /\ new[p] \in LeafNode \cup InternalNode
             /\ new[p].type = pages[p].type /\ new[p].root = pages[p].root
             /\ new[p].link = pages[p].link /\ new[p].cells = pages[p].cells
             /\ new[p].parent \in {pages[p].parent, parent}
             /\ [new[p] EXCEPT !.parent = 0] = [pages[p] EXCEPT !.parent = 0]
  <2>1. new[p] = pages[p] \/ new[p] = [pages[p] EXCEPT !.parent = parent]
    BY DEF Adopt
  <2>2. pages[p] \in LeafNode \/ pages[p] \in InternalNode
    OBVIOUS
  <2> HIDE DEF new
  <2>3. CASE new[p] = pages[p]
    BY <2>3
  <2>4. CASE new[p] = [pages[p] EXCEPT !.parent = parent]
    <3>1. CASE pages[p] \in LeafNode
      BY <2>4, <3>1 DEF LeafNode, Leaf
    <3>2. CASE pages[p] \in InternalNode
      BY <2>4, <3>2 DEF InternalNode, Internal
    <3> QED BY <2>2, <3>1, <3>2
  <2> QED BY <2>1, <2>3, <2>4
<1>2. new = [p \in NodePages |-> new[p]]
  BY DEF Adopt
<1> HIDE DEF new
<1>3. new \in [NodePages -> LeafNode \cup InternalNode]
  BY <1>1, <1>2
<1> QED BY <1>1, <1>3 DEF new

LEMMA SplitNodeInv == ASSUME IInv, SplitNode PROVE IInv'
<1> DEFINE wide  == WithSeparator(mem[at], sep)
           low   == LowNode(wide)
           high  == HighNode(wide)
           key   == Promoted(wide)
           right == numPages
           more  == numPages + 1
           adopted == Adopt(mem, Kids(high), right)
           marked  == {at, right}
           new == [adopted EXCEPT ![at] = low, ![right] = high]
<1>1. /\ AtFullNode /\ ~ mem[at].root /\ numPages < MaxPages
      /\ at' = mem[at].parent /\ pc' = pc /\ stmt' = stmt /\ result' = result
      /\ sep' = [key |-> key, left |-> at, right |-> right]
      /\ Write(new, marked, more)
  BY DEF SplitNode
<1>2. /\ pc = "separator" /\ stmt.op = "insert"
      /\ mem[at] \in InternalNode /\ mem[at].type = "internal"
      /\ low \in InternalNode /\ low.type = "internal" /\ ~ low.root
      /\ high \in InternalNode /\ high.type = "internal" /\ ~ high.root
      /\ low.parent = mem[at].parent /\ high.parent = mem[at].parent
      /\ Kids(low) \subseteq 1 .. numPages - 1
      /\ Kids(high) \subseteq 1 .. numPages - 1
      /\ key \in Keys \cup {0}
      /\ mem[at].parent \in 1 .. numPages - 1
      /\ mem[mem[at].parent].type = "internal"
  BY <1>1, FullNodeFacts
<1>3. /\ mem \in [NodePages -> LeafNode \cup InternalNode] /\ result.code # "error"
      /\ numPages \in Nat /\ MaxPages \in Nat /\ numPages >= 2
      /\ 1 .. numPages - 1 \subseteq NodePages
      /\ at \in 1 .. numPages - 1 /\ at \in PageNum /\ WellLinked(mem, numPages)
  BY <1>2, StepFacts, CapacityAssumption DEF PagesOK
<1>4. /\ more \in Nat /\ more \in numPages .. MaxPages /\ numPages <= more
      /\ more <= MaxPages
      /\ marked \subseteq 1 .. more - 1 /\ numPages .. more - 1 \subseteq marked
      /\ right \in 1 .. more - 1 /\ at \in 1 .. more - 1
      /\ right # at /\ right # 0 /\ at # 0
      /\ 1 .. numPages - 1 \subseteq 1 .. more - 1
      /\ \A p \in 1 .. more - 1 : p \notin marked => p < numPages
      /\ \A p \in 1 .. numPages - 1 : p # right
  BY <1>1, <1>3
<1>5. right \in NodePages /\ at \in NodePages /\ right \in PageNum
  <2>1. 1 .. more - 1 \subseteq 1 .. MaxPages - 1
    BY <1>3, <1>4
  <2> QED BY <2>1, <1>4, PagesAreNodePages
<1> HIDE DEF right, more, wide, key, low, high
<1>6. /\ adopted \in [NodePages -> LeafNode \cup InternalNode]
      /\ \A p \in NodePages :
           /\ adopted[p].type = mem[p].type /\ adopted[p].root = mem[p].root
           /\ adopted[p].link = mem[p].link /\ adopted[p].cells = mem[p].cells
           /\ adopted[p].parent \in {mem[p].parent, right}
           /\ [adopted[p] EXCEPT !.parent = 0] = [mem[p] EXCEPT !.parent = 0]
  BY <1>3, <1>5, AdoptProperties
<1> HIDE DEF adopted
<1>7. /\ new \in [NodePages -> LeafNode \cup InternalNode]
      /\ new[at] = low /\ new[right] = high
      /\ \A p \in NodePages \ marked : new[p] = adopted[p]
  BY <1>2, <1>4, <1>5, <1>6
<1> HIDE DEF marked, new
<1>8. \A p \in 1 .. more - 1 : p \notin marked =>
        p \in 1 .. numPages - 1 /\ p \in NodePages /\ new[p] = adopted[p]
  BY <1>3, <1>4, <1>7
<1>9. /\ \A p \in 1 .. numPages - 1 : mem[p].type = "internal" => new[p].type = "internal"
      /\ \A p \in 1 .. numPages - 1 : mem[p].type = "leaf" /\ ~ mem[p].root =>
           new[p].type = "leaf" /\ ~ new[p].root
  <2>1. \A p \in 1 .. numPages - 1 : p = at \/ (new[p] = adopted[p] /\ p \in NodePages)
    BY <1>3, <1>4, <1>7 DEF marked
  <2> QED BY <2>1, <1>2, <1>6, <1>7, ZenonT(60)
<1>10. mem[at].parent \in 1 .. more - 1 /\ new[mem[at].parent].type = "internal"
  BY <1>2, <1>4, <1>9
<1>11. \A p \in marked : LinkedAt(new, more, p)
  <2>1. Kids(low) \subseteq 1 .. more - 1 /\ Kids(high) \subseteq 1 .. more - 1
    BY <1>2, <1>4
  <2> QED BY <2>1, <1>2, <1>7, <1>10 DEF LinkedAt, marked
<1>12. WellLinked(new, more)
  <2>1. right \in 1 .. more - 1 /\ new[right].type = "internal"
    BY <1>2, <1>4, <1>7
  <2>2. ASSUME NEW p \in 1 .. more - 1, p \notin marked
        PROVE  /\ p < numPages
               /\ new[p].type = mem[p].type /\ new[p].root = mem[p].root
               /\ new[p].link = mem[p].link
               /\ new[p].type = "internal" => new[p].cells = mem[p].cells
               /\ \/ new[p].parent = mem[p].parent
                  \/ /\ new[p].parent \in 1 .. more - 1
                     /\ new[new[p].parent].type = "internal"
    BY <2>1, <2>2, <1>4, <1>6, <1>8, ZenonT(60)
  <2>3. numPages \in Nat /\ more \in Nat /\ numPages <= more /\ WellLinked(mem, numPages)
    BY <1>3, <1>4
  <2>9. LinksKept(mem, numPages, new, more, marked)
    BY <2>2, <2>3, <1>9, <1>11 DEF LinksKept
  <2> QED BY <2>9, LinksSurvive
<1>13. PagesOK' /\ FileInv' /\ MemInv'
  <2>1. \A p \in NodePages \ marked :
          [new[p] EXCEPT !.parent = 0] = [mem[p] EXCEPT !.parent = 0]
    BY <1>6, <1>7
  <2> QED BY <2>1, <1>1, <1>3, <1>4, <1>7, <1>9, WriteInv
<1>14. mem' = new /\ numPages' = more
  BY <1>1 DEF Write
<1>15. WellLinked(mem, numPages)'
  BY <1>12, <1>14 DEF WellLinked, LinkedAt
<1>16. /\ sep'.key \in Keys \cup {0}
       /\ sep' = [key |-> sep'.key, left |-> sep'.left, right |-> sep'.right]
       /\ sep'.left \in 1 .. more - 1 /\ sep'.right \in 1 .. more - 1
  BY <1>1, <1>2, <1>4
<1>17. /\ at' \in 1 .. numPages - 1 /\ mem'[at'].type = "internal"
       /\ pc # "idle" /\ pc' = "separator"
  BY <1>1, <1>2, <1>10, <1>14
<1> QED BY <1>1, <1>2, <1>4, <1>13, <1>14, <1>15, <1>16, <1>17, ToSeparatorInv

LEMMA SplitRootNodeInv == ASSUME IInv, SplitRootNode PROVE IInv'
<1> DEFINE wide  == WithSeparator(mem[at], sep)
           low   == LowNode(wide)
           high  == HighNode(wide)
           left  == numPages
           right == numPages + 1
           more  == numPages + 2
           up    == [key |-> Promoted(wide), left |-> left, right |-> right]
           leftNode  == [low EXCEPT !.parent = at]
           rightNode == [high EXCEPT !.parent = at]
           rootNode  == RootOver(mem[at], up)
           once  == Adopt(mem, Kids(low), left)
           twice == Adopt(once, Kids(high), right)
           marked == {left, right, at}
           new == [twice EXCEPT ![left] = leftNode, ![right] = rightNode, ![at] = rootNode]
<1>1. /\ AtFullNode /\ mem[at].root /\ right < MaxPages
      /\ Write(new, marked, more) /\ Finish("success", {})
  BY DEF SplitRootNode
<1>2. /\ pc = "separator" /\ mem[at] \in InternalNode /\ mem[at].type = "internal"
      /\ low \in InternalNode /\ low.type = "internal"
      /\ high \in InternalNode /\ high.type = "internal"
      /\ Kids(low) \subseteq 1 .. numPages - 1
      /\ Kids(high) \subseteq 1 .. numPages - 1
      /\ up.key \in Keys \cup {0}
  BY <1>1, FullNodeFacts
<1>3. /\ mem \in [NodePages -> LeafNode \cup InternalNode] /\ result.code # "error"
      /\ numPages \in Nat /\ MaxPages \in Nat /\ numPages >= 2
      /\ 1 .. numPages - 1 \subseteq NodePages
      /\ at \in 1 .. numPages - 1 /\ at \in PageNum /\ WellLinked(mem, numPages)
  BY <1>2, StepFacts, CapacityAssumption DEF PagesOK
<1>4. /\ more \in Nat /\ more \in numPages .. MaxPages /\ numPages <= more
      /\ marked \subseteq 1 .. more - 1 /\ numPages .. more - 1 \subseteq marked
      /\ right \in 1 .. more - 1 /\ left \in 1 .. more - 1 /\ at \in 1 .. more - 1
      /\ right # left /\ right # at /\ left # at
      /\ 1 .. numPages - 1 \subseteq 1 .. more - 1
      /\ \A p \in 1 .. more - 1 : p \notin marked => p < numPages
      /\ \A p \in 1 .. numPages - 1 : p # right /\ p # left
  BY <1>1, <1>3
<1>5. /\ right \in NodePages /\ left \in NodePages /\ at \in NodePages
      /\ right \in PageNum /\ left \in PageNum
  <2>1. 1 .. more - 1 \subseteq 1 .. MaxPages - 1
    BY <1>3, <1>4
  <2> QED BY <2>1, <1>4, PagesAreNodePages
<1> HIDE DEF right, left, more, wide, low, high
<1>6. /\ leftNode \in InternalNode /\ leftNode.type = "internal" /\ leftNode.parent = at
      /\ rightNode \in InternalNode /\ rightNode.type = "internal" /\ rightNode.parent = at
      /\ Kids(leftNode) = Kids(low) /\ Kids(rightNode) = Kids(high)
      /\ leftNode.root = low.root /\ rightNode.root = high.root
  <2>1. ASSUME NEW node \in InternalNode
        PROVE  LET moved == [node EXCEPT !.parent = at]
               IN  /\ moved \in InternalNode /\ moved.type = "internal" /\ moved.parent = at
                   /\ moved.cells = node.cells /\ moved.link = node.link
                   /\ moved.root = node.root
    BY <1>3 DEF InternalNode, Internal
  <2>2. /\ leftNode.cells = low.cells /\ leftNode.link = low.link
        /\ rightNode.cells = high.cells /\ rightNode.link = high.link
    BY <2>1, <1>2
  <2>3. Kids(leftNode) = Kids(low) /\ Kids(rightNode) = Kids(high)
    <3> HIDE DEF leftNode, rightNode
    <3> QED BY <2>2 DEF Kids
  <2> QED BY <2>1, <2>3, <1>2
<1>7. /\ rootNode \in InternalNode /\ rootNode.type = "internal" /\ rootNode.root
      /\ Kids(rootNode) = {left, right}
  <2> DEFINE cell == [key |-> up.key, child |-> left]
  <2>1. cell \in InternalCell
    BY <1>2, <1>5 DEF InternalCell
  <2>2. /\ <<cell>> \in Seq(InternalCell) /\ Len(<<cell>>) = 1 /\ <<cell>>[1] = cell
        /\ 1 \in 1 .. InternalMax
    BY <2>1, CapacityAssumption
  <2>3. rootNode = [mem[at] EXCEPT !.type = "internal", !.root = TRUE, !.link = right,
                                   !.cells = <<cell>>]
    BY DEF RootOver
  <2> HIDE DEF cell
  <2>4. /\ rootNode \in Internal /\ rootNode.type = "internal" /\ rootNode.root
        /\ rootNode.link = right /\ rootNode.cells = <<cell>>
    BY <1>2, <1>5, <2>2, <2>3 DEF InternalNode, Internal
  <2>5. Kids(rootNode) = {left, right}
    <3>1. cell.child = left
      BY DEF cell
    <3> HIDE DEF rootNode
    <3>2. Kids(rootNode) = {<<cell>>[i].child : i \in 1 .. Len(<<cell>>)} \cup {right}
      BY <2>4 DEF Kids
    <3>3. 1 .. Len(<<cell>>) = {1}
      BY <2>2
    <3> QED BY <3>1, <3>2, <3>3, <2>2
  <2> HIDE DEF rootNode
  <2>6. rootNode \in InternalNode
    BY <2>2, <2>4 DEF InternalNode
  <2> QED BY <2>4, <2>5, <2>6
<1> HIDE DEF leftNode, rightNode, rootNode
<1>8. /\ once \in [NodePages -> LeafNode \cup InternalNode]
      /\ \A p \in NodePages :
           /\ once[p].type = mem[p].type /\ once[p].root = mem[p].root
           /\ once[p].link = mem[p].link /\ once[p].cells = mem[p].cells
           /\ once[p].parent \in {mem[p].parent, left}
           /\ [once[p] EXCEPT !.parent = 0] = [mem[p] EXCEPT !.parent = 0]
  BY <1>3, <1>5, AdoptProperties
<1> HIDE DEF once
<1>9. /\ twice \in [NodePages -> LeafNode \cup InternalNode]
      /\ \A p \in NodePages :
           /\ twice[p].type = once[p].type /\ twice[p].root = once[p].root
           /\ twice[p].link = once[p].link /\ twice[p].cells = once[p].cells
           /\ twice[p].parent \in {once[p].parent, right}
           /\ [twice[p] EXCEPT !.parent = 0] = [once[p] EXCEPT !.parent = 0]
  BY <1>8, <1>5, AdoptProperties
<1> HIDE DEF twice
<1>10. \A p \in NodePages :
         /\ twice[p].type = mem[p].type /\ twice[p].root = mem[p].root
         /\ twice[p].link = mem[p].link /\ twice[p].cells = mem[p].cells
         /\ twice[p].parent \in {mem[p].parent, left, right}
         /\ [twice[p] EXCEPT !.parent = 0] = [mem[p] EXCEPT !.parent = 0]
  BY <1>8, <1>9
<1>11. /\ new \in [NodePages -> LeafNode \cup InternalNode]
       /\ new[left] = leftNode /\ new[right] = rightNode /\ new[at] = rootNode
       /\ \A p \in NodePages \ marked : new[p] = twice[p]
  BY <1>4, <1>5, <1>6, <1>7, <1>9
<1> HIDE DEF marked, new
<1>12. \A p \in 1 .. more - 1 : p \notin marked =>
         p \in 1 .. numPages - 1 /\ p \in NodePages /\ new[p] = twice[p]
  BY <1>3, <1>4, <1>11
<1>13. /\ \A p \in 1 .. numPages - 1 : mem[p].type = "internal" => new[p].type = "internal"
       /\ \A p \in 1 .. numPages - 1 : mem[p].type = "leaf" /\ ~ mem[p].root =>
            new[p].type = "leaf" /\ ~ new[p].root
  <2>1. \A p \in 1 .. numPages - 1 : p = at \/ (new[p] = twice[p] /\ p \in NodePages)
    BY <1>3, <1>4, <1>11 DEF marked
  <2>2. \A p \in 1 .. numPages - 1 :
          p = at \/ (new[p].type = mem[p].type /\ new[p].root = mem[p].root)
    BY <2>1, <1>10
  <2>3. new[at].type = "internal" /\ mem[at].type = "internal"
    BY <1>2, <1>7, <1>11
  <2> HIDE DEF up
  <2> QED BY <2>2, <2>3
<1>14. \A p \in marked : LinkedAt(new, more, p)
  <2>1. Kids(low) \subseteq 1 .. more - 1 /\ Kids(high) \subseteq 1 .. more - 1
    BY <1>2, <1>4
  <2> QED BY <2>1, <1>4, <1>6, <1>7, <1>11 DEF LinkedAt, marked
<1>15. WellLinked(new, more)
  <2>1. /\ left \in 1 .. more - 1 /\ new[left].type = "internal"
        /\ right \in 1 .. more - 1 /\ new[right].type = "internal"
    BY <1>4, <1>6, <1>11
  <2>2. ASSUME NEW p \in 1 .. more - 1, p \notin marked
        PROVE  /\ p < numPages
               /\ new[p].type = mem[p].type /\ new[p].root = mem[p].root
               /\ new[p].link = mem[p].link
               /\ new[p].type = "internal" => new[p].cells = mem[p].cells
               /\ \/ new[p].parent = mem[p].parent
                  \/ /\ new[p].parent \in 1 .. more - 1
                     /\ new[new[p].parent].type = "internal"
    BY <2>1, <2>2, <1>4, <1>10, <1>12, ZenonT(60)
  <2>3. numPages \in Nat /\ more \in Nat /\ numPages <= more /\ WellLinked(mem, numPages)
    BY <1>3, <1>4
  <2>9. LinksKept(mem, numPages, new, more, marked)
    BY <2>2, <2>3, <1>13, <1>14 DEF LinksKept
  <2> QED BY <2>9, LinksSurvive
<1>16. PagesOK' /\ FileInv' /\ MemInv'
  <2>1. \A p \in NodePages \ marked :
          [new[p] EXCEPT !.parent = 0] = [mem[p] EXCEPT !.parent = 0]
    BY <1>10, <1>11
  <2> QED BY <2>1, <1>1, <1>3, <1>4, <1>11, <1>13, WriteInv
<1>17. WellLinked(mem, numPages)'
  <2>1. mem' = new /\ numPages' = more
    BY <1>1 DEF Write
  <2> QED BY <2>1, <1>15 DEF WellLinked, LinkedAt
<1> QED BY <1>1, <1>16, <1>17, FinishInv DEF Codes

-----------------------------------------------------------------------------
\* pager_close writes as many pages as the program has allocated.
LEMMA AllPagesAreFlushed ==
  ASSUME PagesOK, FileInv, MemInv
  PROVE  FlushedPages = numPages
<1> DEFINE S == {filePages} \cup {p + 1 : p \in dirty}
<1>1. /\ numPages \in Nat /\ numPages >= 2 /\ filePages \in Nat /\ filePages <= numPages
      /\ dirty \subseteq 1 .. numPages - 1
  BY CapacityAssumption DEF PagesOK, FileInv
<1>2. numPages \in S
  <2>1. numPages - 1 \in 1 .. numPages - 1
    BY <1>1
  <2>2. CASE numPages - 1 < filePages
    BY <2>2, <1>1
  <2>3. CASE numPages - 1 \in dirty
    <3>1. numPages = (numPages - 1) + 1
      BY <1>1
    <3> QED BY <2>3, <3>1
  <2> QED BY <2>1, <2>2, <2>3 DEF MemInv
<1>3. \A n \in S : n \in Nat /\ n <= numPages
  BY <1>1
<1>4. FlushedPages = CHOOSE x \in S : \A y \in S : x >= y
  BY DEF FlushedPages, Max
<1> HIDE DEF S
<1>5. \A y \in S : numPages >= y
  BY <1>1, <1>3
<1>6. \A x \in S : (\A y \in S : x >= y) => x = numPages
  BY <1>1, <1>2, <1>3
<1> QED BY <1>2, <1>4, <1>5, <1>6

\* Nodes that differ in nothing but their parent.
LEMMA SameButParent ==
  ASSUME NEW a \in LeafNode \cup InternalNode, NEW b \in LeafNode \cup InternalNode,
         [a EXCEPT !.parent = 0] = [b EXCEPT !.parent = 0]
  PROVE  a.type = b.type /\ a.root = b.root /\ a.link = b.link /\ a.cells = b.cells
<1> DEFINE a0 == [a EXCEPT !.parent = 0]
           b0 == [b EXCEPT !.parent = 0]
<1>1. /\ a0.type = a.type /\ a0.root = a.root /\ a0.link = a.link /\ a0.cells = a.cells
  BY DEF LeafNode, Leaf, InternalNode, Internal
<1>2. /\ b0.type = b.type /\ b0.root = b.root /\ b0.link = b.link /\ b0.cells = b.cells
  BY DEF LeafNode, Leaf, InternalNode, Internal
<1>3. a0 = b0
  OBVIOUS
<1> HIDE DEF a0, b0
<1> QED BY <1>1, <1>2, <1>3

LEMMA RestartInv == ASSUME IInv, Restart PROVE IInv'
<1>1. /\ pc = "idle" /\ result.code # "error" /\ session < MaxSessions
      /\ session' = session + 1 /\ dirty' = {}
      /\ disk' = Flushed /\ mem' = Flushed
      /\ filePages' = FlushedPages /\ numPages' = FlushedPages
      /\ UNCHANGED <<pc, stmt, at, sep, result>>
  BY DEF Restart, control
<1>2. /\ PagesOK /\ ControlOK /\ FileInv /\ MemInv /\ StepInv /\ WellLinked(mem, numPages)
  BY <1>1, TypeOKParts DEF IInv, PointersLead
<1>3. filePages' = numPages /\ numPages' = numPages
  BY <1>1, <1>2, AllPagesAreFlushed
<1>4. /\ mem \in [NodePages -> LeafNode \cup InternalNode]
      /\ disk \in [NodePages -> LeafNode \cup InternalNode]
      /\ numPages \in Nat /\ filePages \in Nat /\ filePages <= numPages
      /\ 1 .. filePages - 1 \subseteq 1 .. numPages - 1
      /\ 1 .. numPages - 1 \subseteq NodePages
  <2>1. /\ numPages \in Nat /\ filePages \in Nat /\ MaxPages \in Nat
        /\ filePages <= numPages /\ numPages <= MaxPages
    BY <1>2, CapacityAssumption DEF PagesOK, FileInv
  <2> QED BY <2>1, <1>2, PagesAreNodePages DEF PagesOK
<1>5. /\ Flushed \in [NodePages -> LeafNode \cup InternalNode]
      /\ \A p \in NodePages : Flushed[p] = IF p \in dirty THEN mem[p] ELSE disk[p]
  BY <1>4 DEF Flushed
<1>6. \A p \in NodePages :
        /\ Flushed[p].type = mem[p].type /\ Flushed[p].root = mem[p].root
        /\ Flushed[p].link = mem[p].link /\ Flushed[p].cells = mem[p].cells
  <2> TAKE p \in NodePages
  <2>1. CASE p \in dirty
    BY <2>1, <1>5
  <2>2. CASE p \notin dirty
    <3>1. [mem[p] EXCEPT !.parent = 0] = [disk[p] EXCEPT !.parent = 0]
      BY <2>2, <1>2 DEF MemInv
    <3>2. mem[p] \in LeafNode \cup InternalNode /\ disk[p] \in LeafNode \cup InternalNode
      BY <1>4
    <3> QED BY <2>2, <3>1, <3>2, <1>5, SameButParent
  <2> QED BY <2>1, <2>2
<1>7. WellLinked(Flushed, numPages)
  <2> SUFFICES ASSUME NEW p \in 1 .. numPages - 1
               PROVE  LinkedAt(Flushed, numPages, p)
    BY DEF WellLinked
  <2>1. LinkedAt(mem, numPages, p) /\ p \in NodePages
    BY <1>2, <1>4 DEF WellLinked
  <2>2. Flushed[p].type = "internal" => Kids(Flushed[p]) \subseteq 1 .. numPages - 1
    <3>1. Kids(Flushed[p]) = Kids(mem[p])
      BY <2>1, <1>6 DEF Kids
    <3> QED BY <3>1, <2>1, <1>6 DEF LinkedAt
  <2>3. ~ Flushed[p].root => /\ Flushed[p].parent \in 1 .. numPages - 1
                            /\ Flushed[Flushed[p].parent].type = "internal"
    <3>1. CASE p \in dirty
      BY <3>1, <2>1, <1>4, <1>5, <1>6 DEF LinkedAt
    <3>2. CASE p \notin dirty
      <4>1. p \in 1 .. filePages - 1
        BY <3>2, <1>2, <1>4 DEF MemInv
      <4>2. LinkedAt(disk, filePages, p) /\ Flushed[p] = disk[p]
        BY <3>2, <4>1, <2>1, <1>2, <1>5 DEF FileInv, WellLinked
      <4>3. ~ disk[p].root => /\ disk[p].parent \in 1 .. filePages - 1
                              /\ mem[disk[p].parent].type = "internal"
        BY <4>2, <1>2 DEF LinkedAt, MemInv
      <4> QED BY <4>2, <4>3, <1>4, <1>6
    <3> QED BY <3>1, <3>2
  <2>4. Flushed[p].type = "leaf" /\ Flushed[p].link # 0 =>
          /\ Flushed[p].link \in 1 .. numPages - 1
          /\ Flushed[Flushed[p].link].type = "leaf" /\ ~ Flushed[Flushed[p].link].root
    BY <2>1, <1>4, <1>6 DEF LinkedAt
  <2> QED BY <2>2, <2>3, <2>4 DEF LinkedAt
<1>8. PagesOK'
  <2>1. session' \in 1 .. MaxSessions
    BY <1>1, <1>2, BoundsAssumption DEF PagesOK
  <2> QED BY <2>1, <1>1, <1>2, <1>3, <1>5 DEF PagesOK
<1>9. WellLinked(mem, numPages)' /\ WellLinked(disk, filePages)'
  BY <1>1, <1>3, <1>7 DEF WellLinked, LinkedAt
<1>10. FileInv' /\ MemInv'
  <2>1. FileInv'
    BY <1>1, <1>3, <1>4, <1>9 DEF FileInv
  <2>2. \A p \in 1 .. numPages - 1 : p < numPages
    BY <1>4
  <2>3. MemInv'
    BY <1>1, <1>3, <2>2 DEF MemInv
  <2> QED BY <2>1, <2>3
<1>11. ControlOK' /\ StepInv' /\ PointersLead'
  BY <1>1, <1>2, <1>3, <1>9 DEF ControlOK, StepInv, PointersLead
<1>12. TypeOK'
  BY <1>8, <1>11 DEF TypeOK, PagesOK, ControlOK
<1> QED BY <1>10, <1>11, <1>12 DEF IInv

LEMMA CrashInv == ASSUME IInv, Crash PROVE IInv'
<1>1. /\ session < MaxSessions /\ session' = session + 1 /\ dirty' = {}
      /\ mem' = disk /\ disk' = disk /\ numPages' = filePages /\ filePages' = filePages
      /\ Finish("none", {})
  BY DEF Crash
<1>2. PagesOK /\ FileInv
  BY TypeOKParts DEF IInv
<1>3. PagesOK'
  <2>1. session' \in 1 .. MaxSessions
    BY <1>1, <1>2, BoundsAssumption DEF PagesOK
  <2> QED BY <2>1, <1>1, <1>2 DEF PagesOK
<1>4. WellLinked(mem, numPages)' /\ WellLinked(disk, filePages)'
  BY <1>1, <1>2 DEF FileInv, WellLinked, LinkedAt
<1>5. FileInv' /\ MemInv'
  <2>1. filePages \in Nat
    BY <1>2, CapacityAssumption DEF PagesOK
  <2>2. filePages <= filePages /\ \A p \in 1 .. filePages - 1 : p < filePages
    BY <2>1
  <2>3. FileInv'
    BY <1>1, <1>4, <2>2 DEF FileInv
  <2>4. MemInv'
    BY <1>1, <2>2 DEF MemInv
  <2> QED BY <2>3, <2>4
<1> QED BY <1>1, <1>3, <1>4, <1>5, FinishInv DEF Codes

-----------------------------------------------------------------------------
\* Every step keeps the invariant.
LEMMA NextInv == IInv /\ [Next]_vars => IInv'
<1> SUFFICES ASSUME IInv, [Next]_vars PROVE IInv'
  OBVIOUS
<1>1. CASE BeginInsert \/ BeginSelect \/ BeginDelete \/ BeginUpdate
  BY <1>1, BeginsInv
<1>2. CASE Descend \/ Lookup \/ Duplicate \/ InsertIntoLeaf
  BY <1>2, DescendInv, LookupInv, QuietInsertInv, InsertIntoLeafInv
<1>3. CASE SplitRootLeaf \/ SplitRootLeafHalfway \/ NoPageForLeaf \/ SplitLeaf
  BY <1>3, SplitRootLeafInv, SplitRootLeafHalfwayInv, QuietInsertInv, SplitLeafInv
<1>4. CASE InsertSeparator \/ SplitRootNode \/ NoPagesForRootNode \/ SplitNode \/ NoPageForNode
  BY <1>4, InsertSeparatorInv, SplitRootNodeInv, NoPagesForRootNodeInv, SplitNodeInv,
     NoPageForNodeInv
<1>5. CASE ToFirstLeaf \/ DeleteRow \/ DeleteNext \/ UpdateLeaf
  BY <1>5, ToFirstLeafInv, DeleteRowInv, DeleteNextInv, UpdateLeafInv
<1>6. CASE Restart \/ Crash
  BY <1>6, RestartInv, CrashInv
<1>7. CASE UNCHANGED vars
  BY <1>7 DEF vars, pager, control, IInv, TypeOK, FileInv, MemInv, StepInv, PointersLead,
     WellLinked, LinkedAt
<1> QED BY <1>1, <1>2, <1>3, <1>4, <1>5, <1>6, <1>7 DEF Next, Step

\* The inductive invariant holds of every tree: of any keys and rows, any node
\* capacities, any number of pages, sessions and statements.
THEOREM InvariantHolds == Spec => []IInv
BY InitInv, NextInv, PTL DEF Spec

\* No node ever holds more cells than fit its page, however leaves and internal
\* nodes are filled and split, and an internal node always has a first cell.
THEOREM TypeCorrect == Spec => []TypeOK
<1>1. IInv => TypeOK
  BY DEF IInv
<1> QED BY <1>1, InvariantHolds, PTL

\* Every child, parent and next-leaf pointer that btree.c and table.c follow leads
\* to an allocated page of the right type, stale parent pointers included.
THEOREM PointersCorrect == Spec => []PointersLead
<1>1. IInv => PointersLead
  BY DEF IInv
<1> QED BY <1>1, InvariantHolds, PTL


-----------------------------------------------------------------------------
\* Between two statements a page that is not marked is as the file has it, but for its
\* parent pointer.
THEOREM ChangesMarked == Spec => []ChangesAreMarked
<1>1. IInv => ChangesAreMarked
  BY DEF IInv, MemInv, ChangesAreMarked, Settled
<1> QED BY <1>1, InvariantHolds, PTL

-----------------------------------------------------------------------------
\* The tree uses its pages as module PageFile allows: whatever the pager guarantees, it
\* guarantees to the tree.

LEMMA InitUses == Init => File!Init
BY DEF Init, File!Init

\* A step that neither closes the file nor opens it.
LEMMA UseStep ==
  ASSUME IInv', numPages \in Nat, numPages' \in Nat, numPages <= numPages',
         dirty \subseteq dirty', UNCHANGED <<disk, filePages>>,
         \A p \in NodePages : p >= numPages' => mem'[p] = mem[p]
  PROVE  File!Use
<1>1. \A p \in dirty' : p < numPages'
  <2>1. dirty' \subseteq 1 .. numPages' - 1
    BY DEF IInv, FileInv
  <2>2. \A count \in Nat : \A p \in 1 .. count - 1 : p < count
    OBVIOUS
  <2> QED BY <2>1, <2>2
<1> QED BY <1>1 DEF File!Use

\* Where a running statement's pages end.
LEMMA Ends ==
  ASSUME IInv
  PROVE  /\ numPages \in Nat /\ MaxPages \in Nat
         /\ mem \in [NodePages -> LeafNode \cup InternalNode]
         /\ disk \in [NodePages -> LeafNode \cup InternalNode]
         /\ at \in Nat /\ at < numPages
<1>1. PagesOK /\ at \in 1 .. numPages - 1
  BY TypeOKParts DEF IInv, StepInv
<1>2. numPages \in Nat /\ MaxPages \in Nat
  BY <1>1, CapacityAssumption DEF PagesOK
<1>3. at \in Nat /\ at < numPages
  BY <1>1, <1>2
<1> QED BY <1>1, <1>2, <1>3 DEF PagesOK

\* The step of an INSERT that takes no new page, of a DELETE or of an UPDATE.
LEMMA SameEndUses ==
  ASSUME IInv, IInv', InsertIntoLeaf \/ InsertSeparator \/ DeleteRow \/ UpdateLeaf
                      \/ NoPageForNode \/ NoPagesForRootNode
  PROVE  File!Use
<1>1. /\ numPages \in Nat /\ MaxPages \in Nat /\ at \in Nat /\ at < numPages
      /\ mem \in [NodePages -> LeafNode \cup InternalNode]
  BY Ends
<1>2. numPages' \in Nat /\ numPages <= numPages'
  <2>1. numPages <= MaxPages
    BY CapacityAssumption DEF IInv, TypeOK
  <2> QED BY <2>1, <1>1 DEF InsertIntoLeaf, InsertSeparator, DeleteRow, UpdateLeaf,
                            NoPageForNode, NoPagesForRootNode, Write
<1>3. \A p \in NodePages : p # at => mem'[p] = mem[p]
  <2>1. PICK node : mem' = [mem EXCEPT ![at] = node] \/ mem' = mem
    BY DEF InsertIntoLeaf, InsertSeparator, DeleteRow, UpdateLeaf,
           NoPageForNode, NoPagesForRootNode, Write
  <2> QED BY <2>1, <1>1
<1>4. \A p \in NodePages : p >= numPages' => p # at
  BY <1>1, <1>2 DEF NodePages, PageNum
<1>5. dirty \subseteq dirty' /\ UNCHANGED <<disk, filePages>>
  BY DEF InsertIntoLeaf, InsertSeparator, DeleteRow, UpdateLeaf,
         NoPageForNode, NoPagesForRootNode, Write
<1> QED BY <1>1, <1>2, <1>3, <1>4, <1>5, UseStep

\* A split writes the pages it takes into use, and pages in use before.
LEMMA SplitUses ==
  ASSUME IInv, IInv', SplitRootLeaf \/ SplitRootLeafHalfway \/ SplitLeaf
                      \/ SplitRootNode \/ SplitNode
  PROVE  File!Use
<1>1. /\ numPages \in Nat /\ MaxPages \in Nat /\ at \in Nat /\ at < numPages
      /\ mem \in [NodePages -> LeafNode \cup InternalNode]
  BY Ends
<1>2. dirty \subseteq dirty' /\ UNCHANGED <<disk, filePages>>
  BY DEF SplitRootLeaf, SplitRootLeafHalfway, SplitLeaf, SplitRootNode, SplitNode, Write
<1>3. CASE SplitRootLeaf
  <2>1. /\ numPages' = numPages + 2
        /\ \E a, b, c : mem' = [mem EXCEPT ![numPages] = a, ![numPages + 1] = b, ![at] = c]
    BY <1>3 DEF SplitRootLeaf, Write
  <2>2. \A p \in NodePages : p >= numPages' =>
          p # at /\ p # numPages /\ p # numPages + 1
    BY <2>1, <1>1 DEF NodePages, PageNum
  <2>3. \A p \in NodePages : p >= numPages' => mem'[p] = mem[p]
    BY <2>1, <2>2, <1>1
  <2> QED BY <2>1, <2>3, <1>1, <1>2, UseStep
<1>4. CASE SplitRootLeafHalfway \/ SplitLeaf
  <2>1. /\ numPages' = numPages + 1
        /\ \E a, b : mem' = [mem EXCEPT ![numPages] = a, ![at] = b]
                     \/ mem' = [mem EXCEPT ![numPages] = a]
    BY <1>4 DEF SplitRootLeafHalfway, SplitLeaf, Write
  <2>2. \A p \in NodePages : p >= numPages' => p # at /\ p # numPages
    BY <2>1, <1>1 DEF NodePages, PageNum
  <2>3. \A p \in NodePages : p >= numPages' => mem'[p] = mem[p]
    BY <2>1, <2>2, <1>1
  <2> QED BY <2>1, <2>3, <1>1, <1>2, UseStep
<1>5. CASE SplitRootNode
  <2> DEFINE low  == LowNode(WithSeparator(mem[at], sep))
             high == HighNode(WithSeparator(mem[at], sep))
             once == Adopt(mem, Kids(low), numPages)
             twice == Adopt(once, Kids(high), numPages + 1)
  <2>1. /\ numPages' = numPages + 2
        /\ \E a, b, c : mem' = [twice EXCEPT ![numPages] = a, ![numPages + 1] = b, ![at] = c]
    BY <1>5 DEF SplitRootNode, Write
  <2>2. \A p \in Kids(low) \cup Kids(high) : p < numPages
    <3>1. AtFullNode
      BY <1>5 DEF SplitRootNode
    <3>2. Kids(low) \subseteq 1 .. numPages - 1 /\ Kids(high) \subseteq 1 .. numPages - 1
      BY <3>1, FullNodeFacts
    <3> HIDE DEF low, high
    <3> QED BY <3>2, <1>1
  <2>3. \A p \in NodePages : p >= numPages' =>
          p # at /\ p # numPages /\ p # numPages + 1 /\ p \notin Kids(low) \cup Kids(high)
    <3> HIDE DEF low, high
    <3> QED BY <2>1, <2>2, <1>1 DEF NodePages, PageNum
  <2>4. \A p \in NodePages : p \notin Kids(low) \cup Kids(high) => twice[p] = mem[p]
    <3> HIDE DEF low, high
    <3> QED BY DEF Adopt
  <2>5. twice = [p \in NodePages |-> twice[p]]
    BY DEF Adopt
  <2> HIDE DEF low, high, once, twice
  <2>6. \A p \in NodePages : p >= numPages' => mem'[p] = mem[p]
    BY <2>1, <2>3, <2>4, <2>5
  <2>7. numPages' \in Nat /\ numPages <= numPages'
    BY <2>1, <1>1
  <2> QED BY <2>6, <2>7, <1>1, <1>2, UseStep
<1>6. CASE SplitNode
  <2> DEFINE high == HighNode(WithSeparator(mem[at], sep))
             adopted == Adopt(mem, Kids(high), numPages)
  <2>1. /\ numPages' = numPages + 1
        /\ \E a, b : mem' = [adopted EXCEPT ![at] = a, ![numPages] = b]
    BY <1>6 DEF SplitNode, Write
  <2>2. \A p \in Kids(high) : p < numPages
    <3>1. AtFullNode
      BY <1>6 DEF SplitNode
    <3>2. Kids(high) \subseteq 1 .. numPages - 1
      BY <3>1, FullNodeFacts
    <3> HIDE DEF high
    <3> QED BY <3>2, <1>1
  <2>3. \A p \in NodePages : p >= numPages' =>
          p # at /\ p # numPages /\ p \notin Kids(high)
    <3> HIDE DEF high
    <3> QED BY <2>1, <2>2, <1>1 DEF NodePages, PageNum
  <2>4. \A p \in NodePages : p \notin Kids(high) => adopted[p] = mem[p]
    <3> HIDE DEF high
    <3> QED BY DEF Adopt
  <2>5. adopted = [p \in NodePages |-> adopted[p]]
    BY DEF Adopt
  <2> HIDE DEF high, adopted
  <2>6. \A p \in NodePages : p >= numPages' => mem'[p] = mem[p]
    BY <2>1, <2>3, <2>4, <2>5
  <2>7. numPages' \in Nat /\ numPages <= numPages'
    BY <2>1, <1>1
  <2> QED BY <2>6, <2>7, <1>1, <1>2, UseStep
<1> QED BY <1>3, <1>4, <1>5, <1>6

LEMMA RestartCloses == ASSUME Restart PROVE File!Close
<1>1. /\ disk' = [p \in NodePages |-> IF p \in dirty THEN mem[p] ELSE disk[p]]
      /\ mem' = disk' /\ dirty' = {}
      /\ filePages' = Max({filePages} \cup {p + 1 : p \in dirty}) /\ numPages' = filePages'
  BY DEF Restart, Flushed, FlushedPages
<1>2. dirty \ {} = dirty
  OBVIOUS
<1>3. File!OpenAfter(dirty)
  BY <1>1 DEF File!OpenAfter, File!Max, Max
<1>4. {} \in File!Losses
  BY DEF File!Losses
<1> QED BY <1>2, <1>3, <1>4 DEF File!Close

LEMMA CrashCrashes == ASSUME IInv, Crash PROVE File!Crash
<1>1. /\ disk' = disk /\ mem' = disk /\ dirty' = {}
      /\ filePages' = filePages /\ numPages' = filePages
  BY DEF Crash
<1>2. /\ disk = [p \in NodePages |-> disk[p]] /\ filePages \in Int
      /\ dirty \subseteq Nat
  BY Ends, CapacityAssumption DEF IInv, TypeOK, NodePages, PageNum
<1>3. {p \in dirty \ {} : p < 0} = {}
  BY <1>2
<1>4. Max({filePages} \cup {p + 1 : p \in {}}) = filePages
  <2>1. {filePages} \cup {p + 1 : p \in {}} = {filePages}
    OBVIOUS
  <2> QED BY <2>1, <1>2 DEF Max
<1>5. File!OpenAfter({})
  BY <1>1, <1>2, <1>4 DEF File!OpenAfter, File!Max, Max
<1>6. {} \in File!Losses /\ 0 \in {0} \cup {p + 1 : p \in NodePages}
  BY DEF File!Losses
<1> QED BY <1>3, <1>5, <1>6 DEF File!Crash

LEMMA NextUses == IInv /\ IInv' /\ [Next]_vars => [File!Next]_File!vars
<1> SUFFICES ASSUME IInv, IInv', [Next]_vars PROVE [File!Next]_File!vars
  OBVIOUS
<1>1. CASE BeginInsert \/ BeginSelect \/ BeginDelete \/ BeginUpdate
  BY <1>1 DEF BeginInsert, BeginSelect, BeginDelete, BeginUpdate, Begin, pager, File!vars
<1>2. CASE Descend \/ Lookup \/ Duplicate \/ NoPageForLeaf \/ ToFirstLeaf \/ DeleteNext
  BY <1>2 DEF Descend, Lookup, Duplicate, NoPageForLeaf, ToFirstLeaf, DeleteNext,
              pager, File!vars
<1>3. CASE InsertIntoLeaf \/ InsertSeparator \/ DeleteRow \/ UpdateLeaf
           \/ NoPageForNode \/ NoPagesForRootNode
  BY <1>3, SameEndUses DEF File!Next
<1>4. CASE SplitRootLeaf \/ SplitRootLeafHalfway \/ SplitLeaf \/ SplitRootNode \/ SplitNode
  BY <1>4, SplitUses DEF File!Next
<1>5. CASE Restart
  BY <1>5, RestartCloses DEF File!Next
<1>6. CASE Crash
  BY <1>6, CrashCrashes DEF File!Next
<1>7. CASE UNCHANGED vars
  BY <1>7 DEF vars, pager, File!vars
<1> QED BY <1>1, <1>2, <1>3, <1>4, <1>5, <1>6, <1>7 DEF Next, Step

\* The tree is a correct user of the pager, for any number of pages: it writes to
\* pages in use only, and sees after a restart or a crash what was saved.
THEOREM TreeUsesPageFile == Spec => UsesPageFile
<1>1. IInv /\ IInv' /\ [Next]_vars => [File!Next]_File!vars
  BY NextUses
<1> QED BY <1>1, InitUses, InvariantHolds, PTL DEF Spec, UsesPageFile, File!Spec
=============================================================================
