------------------------------ MODULE NodeFind ------------------------------
(***************************************************************************)
(* The binary search of leaf_node_find and internal_node_find              *)
(* (src/src/btree.c), a comparison a step.  Module Node takes its result   *)
(* from a definition, Position; here the loop is shown to compute it, for  *)
(* nodes of any length.                                                    *)
(***************************************************************************)
EXTENDS Node, TLAPS, FiniteSetTheorems, SequenceTheorems

CONSTANT Longest  \* bound: the cells of a node

ASSUME LongestAssumption == Longest \in Nat

VARIABLES cells, key, low, high, pc

vars == <<cells, key, low, high, pc>>

\* The keys of a node ascend, and none is there twice.
Ascending(seq) == \A i, j \in 1 .. Len(seq) : i < j => seq[i].key < seq[j].key

Init ==
  /\ \E n \in 0 .. Longest : cells \in [1 .. n -> [key : Keys]]
  /\ Ascending(cells)
  /\ key \in Keys
  /\ low = 0 /\ high = Len(cells)
  /\ pc = "search"

Mid == low + (high - low) \div 2
\* Cells are numbered from 0.
KeyAt(i) == cells[i + 1].key

\* The key is in the node.
Hit ==
  /\ pc = "search" /\ low < high
  /\ KeyAt(Mid) = key
  /\ low' = Mid
  /\ pc' = "done"
  /\ UNCHANGED <<cells, key, high>>

\* Mutant: the search goes on at the cell it has just compared.
UpperFromMid ==
  /\ pc = "search" /\ low < high
  /\ KeyAt(Mid) < key
  /\ low' = Mid
  /\ UNCHANGED <<cells, key, high, pc>>

\* The key can only be above mid.
Upper ==
  /\ pc = "search" /\ low < high
  /\ KeyAt(Mid) < key
  /\ low' = Mid + 1
  /\ UNCHANGED <<cells, key, high, pc>>

\* Mutant: the cell in the middle is left out.
LowerPastMid ==
  /\ pc = "search" /\ low < high
  /\ KeyAt(Mid) > key
  /\ high' = IF Mid = low THEN low ELSE Mid - 1
  /\ UNCHANGED <<cells, key, low, pc>>

\* The key can only be at mid or below it.
Lower ==
  /\ pc = "search" /\ low < high
  /\ KeyAt(Mid) > key
  /\ high' = Mid
  /\ UNCHANGED <<cells, key, low, pc>>

\* The key is not in the node.
Miss ==
  /\ pc = "search" /\ low >= high
  /\ pc' = "done"
  /\ UNCHANGED <<cells, key, low, high>>

Next == Hit \/ Upper \/ Lower \/ Miss

Spec == Init /\ [][Next]_vars

-----------------------------------------------------------------------------
\* The search returns the index of the first key that is not below the one
\* looked for: where it is, or where it has to go (leaf_node_find's "insertion
\* point").
FindsThePosition == pc = "done" => low = Position(cells, key)

\* What is left of the node always holds the answer, and no cell outside the
\* node is ever compared.
SearchInv ==
  /\ cells \in Seq([key : Keys]) /\ Ascending(cells)
  /\ key \in Keys
  /\ low \in 0 .. Len(cells) /\ high \in 0 .. Len(cells)
  /\ pc \in {"search", "done"}
  /\ low <= high
  /\ \A i \in 1 .. low : cells[i].key < key
  /\ \A i \in high + 1 .. Len(cells) : cells[i].key >= key
  /\ pc = "done" => low = high \/ KeyAt(low) = key

\* Each comparison that does not end the search leaves at most half of the cells
\* to search: a node is searched in as many comparisons as its length has bits.
SearchHalves == [][pc' = "search" => 2 * (high' - low') <= high - low]_vars
-----------------------------------------------------------------------------
\* The middle of a non-empty range lies in it.
LEMMA MidInRange ==
  ASSUME NEW lo \in Nat, NEW hi \in Nat, lo < hi
  PROVE  lo + (hi - lo) \div 2 \in lo .. hi - 1
OBVIOUS

\* What the steps of the loop rely on.
LEMMA SearchFacts ==
  ASSUME SearchInv
  PROVE  /\ Len(cells) \in Nat /\ low \in Nat /\ high \in Nat
         /\ high <= Len(cells) /\ low <= high
         /\ \A i \in 1 .. Len(cells) : cells[i].key \in Int
         /\ key \in Int
         /\ low < high => Mid \in Nat /\ low <= Mid /\ Mid < high
<1>1. Len(cells) \in Nat /\ low \in Nat /\ high \in Nat /\ high <= Len(cells) /\ low <= high
  BY LenProperties DEF SearchInv
<1>2. \A i \in 1 .. Len(cells) : cells[i].key \in Int
  <2> TAKE i \in 1 .. Len(cells)
  <2>1. cells[i] \in [key : Keys]
    BY ElementOfSeq DEF SearchInv
  <2> QED BY <2>1, KeysAssumption
<1>3. key \in Int
  BY KeysAssumption DEF SearchInv
<1>4. low < high => Mid \in low .. high - 1
  BY <1>1, MidInRange DEF Mid
<1> QED BY <1>1, <1>2, <1>3, <1>4

LEMMA InitSearch == Init => SearchInv
<1> SUFFICES ASSUME Init PROVE SearchInv
  OBVIOUS
<1>1. PICK n \in 0 .. Longest : cells \in [1 .. n -> [key : Keys]]
  BY DEF Init
<1>2. n \in Nat /\ cells \in Seq([key : Keys]) /\ Len(cells) = n
  <2> DEFINE Cells == [key : Keys]
  <2>1. n \in Nat /\ cells \in [1 .. n -> Cells]
    BY <1>1, LongestAssumption
  <2> HIDE DEF Cells
  <2>2. cells \in Seq(Cells)
    BY <2>1, SeqDef
  <2>3. DOMAIN cells = 1 .. n
    BY <2>1
  <2>4. Len(cells) = n
    BY <2>1, <2>2, <2>3, LenProperties
  <2> QED BY <2>1, <2>2, <2>4 DEF Cells
<1> QED BY <1>2 DEF Init, SearchInv

\* In an ascending node, what is known of one cell is known of all on its side.
LEMMA SearchStep == SearchInv /\ [Next]_vars => SearchInv'
<1> SUFFICES ASSUME SearchInv, [Next]_vars PROVE SearchInv'
  OBVIOUS
<1>1. /\ Len(cells) \in Nat /\ low \in Nat /\ high \in Nat
      /\ high <= Len(cells) /\ low <= high
      /\ \A i \in 1 .. Len(cells) : cells[i].key \in Int
      /\ key \in Int
      /\ low < high => Mid \in Nat /\ low <= Mid /\ Mid < high
  BY SearchFacts
<1>2. \A i, j \in 1 .. Len(cells) : i < j => cells[i].key < cells[j].key
  BY DEF SearchInv, Ascending
<1>3. CASE Hit
  <2>1. /\ low < high /\ KeyAt(Mid) = key /\ low' = Mid /\ pc' = "done"
        /\ cells' = cells /\ key' = key /\ high' = high
    BY <1>3 DEF Hit
  <2> DEFINE m == Mid
  <2>2. m \in Nat /\ m + 1 \in 1 .. Len(cells) /\ cells[m + 1].key = key /\ m <= high
    BY <1>1, <2>1 DEF KeyAt
  <2>3. low' = m
    BY <2>1
  <2> HIDE DEF m
  <2>4. \A i \in 1 .. m : cells[i].key < key
    BY <1>1, <1>2, <2>2
  <2>5. m \in 0 .. Len(cells)
    BY <2>2, <1>1
  <2>6. KeyAt(low)' = key
    BY <2>1, <2>2, <2>3 DEF KeyAt
  <2> QED BY <2>1, <2>2, <2>3, <2>4, <2>5, <2>6 DEF SearchInv, Ascending
<1>4. CASE Upper
  <2>1. /\ low < high /\ KeyAt(Mid) < key /\ low' = Mid + 1 /\ pc' = pc /\ pc = "search"
        /\ cells' = cells /\ key' = key /\ high' = high
    BY <1>4 DEF Upper
  <2> DEFINE m == Mid + 1
  <2>2. m \in 1 .. Len(cells) /\ cells[m].key < key /\ m <= high /\ m \in Nat
    BY <1>1, <2>1 DEF KeyAt
  <2>3. low' = m
    BY <2>1
  <2> HIDE DEF m
  <2>4. \A i \in 1 .. m : cells[i].key < key
    BY <1>1, <1>2, <2>2
  <2>5. m \in 0 .. Len(cells)
    BY <2>2, <1>1
  <2> QED BY <2>1, <2>2, <2>3, <2>4, <2>5 DEF SearchInv, Ascending
<1>5. CASE Lower
  <2>1. /\ low < high /\ KeyAt(Mid) > key /\ high' = Mid /\ pc' = pc /\ pc = "search"
        /\ cells' = cells /\ key' = key /\ low' = low
    BY <1>5 DEF Lower
  <2> DEFINE m == Mid
  <2>2. m + 1 \in 1 .. Len(cells) /\ cells[m + 1].key > key /\ low <= m /\ m \in Nat
    BY <1>1, <2>1 DEF KeyAt
  <2>3. high' = m
    BY <2>1
  <2> HIDE DEF m
  <2>4. \A i \in m + 1 .. Len(cells) : cells[i].key >= key
    BY <1>1, <1>2, <2>2, SMTT(20)
  <2>5. m \in 0 .. Len(cells)
    BY <2>2, <1>1
  <2> QED BY <2>1, <2>2, <2>3, <2>4, <2>5 DEF SearchInv, Ascending
<1>6. CASE Miss
  <2>1. /\ low >= high /\ pc' = "done" /\ cells' = cells /\ key' = key
        /\ low' = low /\ high' = high
    BY <1>6 DEF Miss
  <2>2. low = high
    BY <2>1, <1>1
  <2> QED BY <2>1, <2>2 DEF SearchInv, Ascending
<1>7. CASE UNCHANGED vars
  BY <1>7 DEF vars, SearchInv, Ascending, KeyAt
<1> QED BY <1>3, <1>4, <1>5, <1>6, <1>7 DEF Next

\* At every comparison what is left of the node holds the answer, and the cell
\* that is compared is one of the node's, for any keys and any length.
THEOREM SearchInvHolds == Spec => []SearchInv
BY InitSearch, SearchStep, PTL DEF Spec

\* The cells below the index that the search ends at are those with a smaller
\* key, and there are as many of them as the index says.
LEMMA PositionFound == SearchInv => FindsThePosition
<1> SUFFICES ASSUME SearchInv, pc = "done" PROVE low = Position(cells, key)
  BY DEF FindsThePosition
<1>1. /\ Len(cells) \in Nat /\ low \in Nat /\ high \in Nat
      /\ high <= Len(cells) /\ low <= high
      /\ \A i \in 1 .. Len(cells) : cells[i].key \in Int
      /\ key \in Int
  BY SearchFacts
<1>2. \A i, j \in 1 .. Len(cells) : i < j => cells[i].key < cells[j].key
  BY DEF SearchInv, Ascending
<1>3. \A i \in 1 .. low : cells[i].key < key
  BY DEF SearchInv
<1>4. \A i \in low + 1 .. Len(cells) : cells[i].key >= key
  <2>1. CASE low = high
    BY <2>1 DEF SearchInv
  <2>2. CASE low < high /\ KeyAt(low) = key
    <3>1. low + 1 \in 1 .. Len(cells) /\ cells[low + 1].key = key
      BY <2>2, <1>1 DEF KeyAt
    <3> QED BY <3>1, <1>1, <1>2
  <2>3. low = high \/ (low < high /\ KeyAt(low) = key)
    BY <1>1 DEF SearchInv
  <2> QED BY <2>1, <2>2, <2>3
<1>5. {i \in 1 .. Len(cells) : cells[i].key < key} = 1 .. low
  <2>1. ASSUME NEW i \in 1 .. Len(cells)
        PROVE  cells[i].key < key <=> i \in 1 .. low
    <3>1. i \in 1 .. low \/ i \in low + 1 .. Len(cells)
      BY <1>1
    <3> QED BY <3>1, <1>1, <1>3, <1>4
  <2>2. 1 .. low \subseteq 1 .. Len(cells)
    BY <1>1
  <2> QED BY <2>1, <2>2
<1>6. Cardinality(1 .. low) = low
  BY <1>1, FS_Interval
<1> QED BY <1>5, <1>6 DEF Position

\* leaf_node_find and internal_node_find return the index of the first key that
\* is not below the one looked for, in any node whose keys ascend.
THEOREM SearchIsCorrect == Spec => []FindsThePosition
BY SearchInvHolds, PositionFound, PTL

\* The range is at least halved with every comparison, in a node of any length.
THEOREM SearchIsShort == Spec => SearchHalves
<1>1. SearchInv /\ [Next]_vars
        => [pc' = "search" => 2 * (high' - low') <= high - low]_vars
  <2> SUFFICES ASSUME SearchInv, Next, pc' = "search"
               PROVE  2 * (high' - low') <= high - low
    BY DEF vars
  <2>1. low \in Nat /\ high \in Nat
    BY SearchFacts
  <2>2. CASE Upper
    BY <2>1, <2>2 DEF Upper, Mid
  <2>3. CASE Lower
    BY <2>1, <2>3 DEF Lower, Mid
  <2>4. CASE Hit \/ Miss
    BY <2>4 DEF Hit, Miss
  <2> QED BY <2>2, <2>3, <2>4 DEF Next
<1> QED BY <1>1, SearchInvHolds, PTL DEF Spec, SearchHalves
=============================================================================
