----------------------------- MODULE TreeProofs -----------------------------
(***************************************************************************)
(* Proofs about the shape of the tree of module BTree: it is a balanced    *)
(* search tree, whose leaves are chained in the order of their keys.       *)
(*                                                                         *)
(* The definitions of the properties are recursive; the invariant they     *)
(* follow from is not.  It says that there are a set T of pages, the pages *)
(* of the tree, a set own[p] of integers for each, the keys whose lookup   *)
(* comes by page p, and a height h[p], such that each page alone is in     *)
(* order.                                                                  *)
(***************************************************************************)
EXTENDS BTreeProofs

-----------------------------------------------------------------------------
\* The separators of an internal node part the keys among its children.
Routed(node, own, p) ==
  /\ Len(node.cells) >= 1
  /\ Ascends(node.cells)
  /\ \A i \in 1 .. Len(node.cells) : node.cells[i].key \in own[p]
  /\ node.cells[1].key - 1 \in own[p]
  /\ \A i \in 1 .. Len(node.cells) + 1 : \A k \in Int :
       k \in own[Child(node, i)] <=> k \in own[p] /\ Between(node, i, k)

\* The children of an internal node are nodes of the tree, one level below it, that
\* point back at it.
Parented(m, T, h, p) ==
  \A i \in 1 .. Len(m[p].cells) + 1 :
    LET c == Child(m[p], i)
    IN  c \in T /\ c # RootPage /\ m[c].parent = p /\ h[p] = h[c] + 1

\* The rows of a leaf, and the leaf that follows it.
Filled(node, own, p) ==
  /\ Ascends(node.cells)
  /\ \A i \in 1 .. Len(node.cells) : node.cells[i].key \in own[p]

Chained(m, T, own, p) ==
  IF m[p].link = 0 THEN \A k \in own[p] : k + 1 \in own[p]
  ELSE /\ m[p].link \in T /\ m[m[p].link].type = "leaf"
       /\ \E k \in own[p] : k + 1 \in own[m[p].link] \ own[p]

\* A page that is not the root has a place in its parent.
Rooted(m, T, p) ==
  IF p = RootPage THEN m[p].root
  ELSE /\ ~ m[p].root /\ m[p].parent \in T /\ m[m[p].parent].type = "internal"
       /\ \E i \in 1 .. Len(m[m[p].parent].cells) + 1 : Child(m[m[p].parent], i) = p

Convex(S) == \A a, c \in S : \A b \in Int : a <= b /\ b <= c => b \in S

PageOK(m, T, own, h, p) ==
  /\ own[p] # {} /\ Convex(own[p])
  /\ h[p] <= h[RootPage]
  /\ Rooted(m, T, p)
  /\ m[p].type = "leaf" => h[p] = 1 /\ Filled(m[p], own, p) /\ Chained(m, T, own, p)
  /\ m[p].type = "internal" => Routed(m[p], own, p) /\ Parented(m, T, h, p)

Typed(m, count, T, own, h) ==
  /\ T \subseteq 1 .. count - 1 /\ T \subseteq NodePages /\ RootPage \in T
  /\ m \in [NodePages -> Leaf \cup Internal]
  /\ own \in [NodePages -> SUBSET Int] /\ own[RootPage] = Int
  /\ h \in [NodePages -> Nat]

\* Pages of one height share no key.
Disjoint(T, own, h) ==
  \A p, q \in T : \A k \in Int : h[p] = h[q] /\ k \in own[p] /\ k \in own[q] => p = q

\* The roots of other tables, and the pages that no table has.
Empty(node) == node.type = "leaf" /\ node.cells = <<>> /\ node.link = 0

\* The pages T are a search tree.
SearchTree(m, count, T, own, h) ==
  /\ Typed(m, count, T, own, h)
  /\ \A p \in NodePages \ T : Empty(m[p])
  /\ Disjoint(T, own, h)
  /\ \A p \in T : PageOK(m, T, own, h, p)

-----------------------------------------------------------------------------
LEMMA PageTypes ==
  ASSUME NEW m \in [NodePages -> Leaf \cup Internal], NEW p \in NodePages
  PROVE  /\ m[p].type = "leaf" <=> m[p] \in Leaf
         /\ m[p].type = "internal" <=> m[p] \in Internal
         /\ m[p].type \in {"leaf", "internal"}
BY DEF Leaf, Internal

\* leaf_node_for_key takes a key that a page owns to a child that owns it.
LEMMA RouteDown ==
  ASSUME NEW m, NEW count, NEW T, NEW own, NEW h, SearchTree(m, count, T, own, h),
         NEW p \in T, m[p].type = "internal", NEW k \in own[p]
  PROVE  LET c == ChildFor(m[p], k)
         IN  c \in T /\ c # RootPage /\ k \in own[c] /\ h[p] = h[c] + 1 /\ m[c].parent = p
<1>1. Typed(m, count, T, own, h) /\ PageOK(m, T, own, h, p)
  BY DEF SearchTree
<1>2. m[p] \in Internal /\ k \in Int
  BY <1>1, PageTypes DEF Typed
<1>3. Routed(m[p], own, p) /\ Parented(m, T, h, p)
  BY <1>1 DEF PageOK
<1>4. PICK i \in 1 .. Len(m[p].cells) + 1 :
        Between(m[p], i, k) /\ ChildFor(m[p], k) = Child(m[p], i)
  BY <1>2, <1>3, RouteExists DEF Routed
<1>5. k \in own[Child(m[p], i)]
  BY <1>2, <1>3, <1>4 DEF Routed
<1> QED BY <1>3, <1>4, <1>5 DEF Parented

\* A child has one place in its parent.
LEMMA ChildOnce ==
  ASSUME NEW node \in Internal, NEW own, NEW p, Routed(node, own, p),
         NEW i \in 1 .. Len(node.cells) + 1, NEW j \in 1 .. Len(node.cells) + 1,
         Child(node, i) = Child(node, j),
         NEW k \in Int, k \in own[Child(node, i)]
  PROVE  i = j
<1>1. Between(node, i, k) /\ Between(node, j, k) /\ Ascends(node.cells)
  BY DEF Routed
<1> QED BY <1>1, RouteUnique

-----------------------------------------------------------------------------
\* Child i of the internal node p, x, is split at key s: own2 has the keys of the
\* halves, x and r.
ChildSplit(node, own, own2, p, i, x, r, s) ==
  /\ Routed(node, own, p) /\ own2[p] = own[p] /\ own[p] \subseteq Int
  /\ i \in 1 .. Len(node.cells) + 1 /\ x = Child(node, i)
  /\ s \in own[x] /\ s - 1 \in own[x]
  /\ \A k \in Int : k \in own2[x] <=> k \in own[x] /\ k < s
  /\ \A k \in Int : k \in own2[r] <=> k \in own[x] /\ s <= k
  /\ \A j \in 1 .. Len(node.cells) + 1 :
       j # i => own2[Child(node, j)] = own[Child(node, j)]

\* The separator then parts the keys of x among the halves.
ChildParted(node, wide, own2, p, i, r) ==
  /\ wide \in Internal /\ wide.root = node.root /\ wide.parent = node.parent
  /\ Routed(wide, own2, p)
  /\ Len(wide.cells) = Len(node.cells) + 1
  /\ \A j \in 1 .. i : Child(wide, j) = Child(node, j)
  /\ Child(wide, i + 1) = r
  /\ \A j \in i + 2 .. Len(node.cells) + 2 : Child(wide, j) = Child(node, j - 1)

LEMMA SeparatorRouted ==
  ASSUME NEW node \in Internal, NEW p, NEW own, NEW own2, NEW i,
         NEW x \in PageNum, NEW r \in PageNum, NEW s \in Keys \cup {0},
         ChildSplit(node, own, own2, p, i, x, r, s)
  PROVE  ChildParted(node, WithSeparator(node, [key |-> s, left |-> x, right |-> r]), own2, p, i, r)
<1> DEFINE n == Len(node.cells)
           sp == [key |-> s, left |-> x, right |-> r]
           wide == WithSeparator(node, sp)
<1>0. /\ Routed(node, own, p) /\ own2[p] = own[p] /\ own[p] \subseteq Int
      /\ i \in 1 .. n + 1 /\ x = Child(node, i)
      /\ s \in own[x] /\ s - 1 \in own[x]
      /\ \A k \in Int : k \in own2[x] <=> k \in own[x] /\ k < s
      /\ \A k \in Int : k \in own2[r] <=> k \in own[x] /\ s <= k
      /\ \A j \in 1 .. n + 1 : j # i => own2[Child(node, j)] = own[Child(node, j)]
  BY DEF ChildSplit
<1>1. /\ node.cells \in Seq(InternalCell) /\ n \in Nat /\ s \in Int
      /\ \A j \in 1 .. n : node.cells[j].key \in Int
  <2>1. s \in Int
    BY KeysAssumption
  <2>2. /\ node.cells \in Seq(InternalCell) /\ n \in Nat
        /\ \A j \in 1 .. n : node.cells[j].key \in Int
    BY InternalFields
  <2> QED BY <2>1, <2>2
<1> USE <1>0
<1>2. /\ Ascends(node.cells) /\ n >= 1
      /\ \A j \in 1 .. n : node.cells[j].key \in own[p]
      /\ node.cells[1].key - 1 \in own[p]
      /\ \A j \in 1 .. n + 1 : \A k \in Int :
           k \in own[Child(node, j)] <=> k \in own[p] /\ Between(node, j, k)
  BY DEF Routed
<1>3. Between(node, i, s) /\ Between(node, i, s - 1) /\ s \in own[p] /\ s - 1 \in own[p]
  BY <1>1, <1>2
<1>4. (i > 1 => node.cells[i - 1].key < s) /\ (i <= n => s < node.cells[i].key)
  <2>1. i > 1 => node.cells[i - 1].key < s
    <3> SUFFICES ASSUME i > 1 PROVE node.cells[i - 1].key < s
      OBVIOUS
    <3>1. PICK j \in 1 .. n : j = i - 1
      BY <1>1
    <3>2. node.cells[j].key <= s - 1 /\ node.cells[j].key \in Int
      BY <3>1, <1>1, <1>3 DEF Between
    <3>3. node.cells[j].key < s
      BY <3>2, <1>1
    <3> QED BY <3>1, <3>3
  <2>2. i <= n => s < node.cells[i].key
    BY <1>3 DEF Between
  <2> QED BY <2>1, <2>2
<1>5. Position(node.cells, s) = i - 1
  <2>1. i <= n => s <= node.cells[i].key
    <3> SUFFICES ASSUME i <= n PROVE s <= node.cells[i].key
      OBVIOUS
    <3>1. i \in 1 .. n
      BY <1>1
    <3> QED BY <3>1, <1>1, <1>4
  <2> QED BY <2>1, <1>1, <1>2, <1>4, PositionIs
<1>6. sp \in [key : Keys \cup {0}, left : PageNum, right : PageNum]
      /\ sp.key = s /\ sp.left = x /\ sp.right = r
  OBVIOUS
<1> HIDE DEF sp
<1>7. /\ wide \in Internal /\ Len(wide.cells) = n + 1
      /\ wide.root = node.root /\ wide.parent = node.parent
      /\ \A j \in 1 .. i - 1 : wide.cells[j].key = node.cells[j].key
      /\ wide.cells[i].key = s
      /\ \A j \in i + 1 .. n + 1 : wide.cells[j].key = node.cells[j - 1].key
      /\ \A j \in 1 .. i - 1 : Child(wide, j) = Child(node, j)
      /\ Child(wide, i) = x
      /\ Child(wide, i + 1) = r
      /\ \A j \in i + 2 .. n + 2 : Child(wide, j) = Child(node, j - 1)
  <2> DEFINE pos == Position(node.cells, sp.key)
  <2>1. pos = i - 1
    BY <1>5, <1>6
  <2>2. /\ wide \in Internal /\ Len(wide.cells) = n + 1
        /\ wide.root = node.root /\ wide.parent = node.parent
        /\ \A j \in 1 .. pos : wide.cells[j].key = node.cells[j].key
        /\ wide.cells[pos + 1].key = sp.key
        /\ \A j \in pos + 2 .. n + 1 : wide.cells[j].key = node.cells[j - 1].key
        /\ \A j \in 1 .. pos : Child(wide, j) = Child(node, j)
        /\ Child(wide, pos + 1) = sp.left
        /\ Child(wide, pos + 2) = sp.right
        /\ \A j \in pos + 3 .. n + 2 : Child(wide, j) = Child(node, j - 1)
    BY <1>6, WithSeparatorCells
  <2>3. pos + 1 = i /\ pos + 2 = i + 1 /\ pos + 3 = i + 2
    BY <2>1, <1>1
  <2> HIDE DEF pos, wide
  <2> QED BY <2>1, <2>2, <2>3, <1>6
<1> HIDE DEF wide
<1>8. \A j \in 1 .. n + 1 : j \in 1 .. i - 1 \/ j = i \/ j \in i + 1 .. n + 1
  BY <1>1
<1>9. ASSUME NEW j \in i + 1 .. n + 1
      PROVE  j - 1 \in 1 .. n /\ wide.cells[j].key = node.cells[j - 1].key
             /\ s < node.cells[j - 1].key
  <2>1. PICK l \in 1 .. n : l = j - 1 /\ i <= l
    BY <1>1
  <2>2. i \in 1 .. n /\ s < node.cells[i].key
    BY <2>1, <1>1, <1>4
  <2>3. node.cells[i].key <= node.cells[l].key
    BY <2>1, <2>2, <1>1, <1>2, AscendsWeakly
  <2>4. \A a, b \in Int : s < a /\ a <= b => s < b
    BY <1>1
  <2>5. s < node.cells[l].key
    BY <2>1, <2>2, <2>3, <2>4, <1>1
  <2> QED BY <2>1, <2>5, <1>7
<1>10. ASSUME NEW j \in 1 .. i - 1
       PROVE  j \in 1 .. n /\ wide.cells[j].key = node.cells[j].key
              /\ node.cells[j].key < s
  <2>1. PICK l \in 1 .. n : l = i - 1 /\ j <= l
    BY <1>1
  <2>2. node.cells[l].key < s
    BY <2>1, <1>4
  <2>3. j \in 1 .. n /\ node.cells[j].key <= node.cells[l].key
    <3>1. j \in 1 .. n
      BY <1>1
    <3>2. \A a, b \in 1 .. n : a <= b => node.cells[a].key <= node.cells[b].key
      BY <1>1, <1>2, AscendsWeakly
    <3> QED BY <3>1, <3>2, <2>1
  <2>4. \A a, b \in Int : a <= b /\ b < s => a < s
    BY <1>1
  <2>5. node.cells[j].key < s
    BY <2>1, <2>2, <2>3, <2>4, <1>1
  <2> QED BY <2>3, <2>5, <1>7
<1>11. Ascends(wide.cells)
  <2> SUFFICES ASSUME NEW a \in 1 .. n + 1, NEW b \in 1 .. n + 1, a < b
               PROVE  wide.cells[a].key < wide.cells[b].key
    BY <1>7 DEF Ascends
  <2>1. CASE b \in 1 .. i - 1
    <3>1. a \in 1 .. i - 1
      BY <2>1
    <3> QED BY <3>1, <2>1, <1>2, <1>10 DEF Ascends
  <2>2. CASE a \in 1 .. i - 1 /\ b = i
    BY <2>2, <1>7, <1>10
  <2>3. CASE a \in 1 .. i - 1 /\ b \in i + 1 .. n + 1
    <3>1. \A y, z \in Int : y < s /\ s < z => y < z
      BY <1>1
    <3> QED BY <3>1, <2>3, <1>1, <1>9, <1>10
  <2>4. CASE a = i /\ b \in i + 1 .. n + 1
    BY <2>4, <1>7, <1>9
  <2>5. CASE a \in i + 1 .. n + 1
    <3>1. b \in i + 1 .. n + 1 /\ a - 1 < b - 1
      BY <2>5, <1>1
    <3>2. node.cells[a - 1].key < node.cells[b - 1].key
      BY <3>1, <2>5, <1>2, <1>9 DEF Ascends
    <3> QED BY <3>1, <3>2, <2>5, <1>9
  <2>6. \/ b \in 1 .. i - 1 \/ a \in i + 1 .. n + 1
        \/ a \in 1 .. i - 1 /\ b = i
        \/ a \in 1 .. i - 1 /\ b \in i + 1 .. n + 1
        \/ a = i /\ b \in i + 1 .. n + 1
    BY <1>1, <1>8
  <2> QED BY <2>1, <2>2, <2>3, <2>4, <2>5, <2>6
<1>12. \A j \in 1 .. n + 1 : wide.cells[j].key \in own2[p]
  <2> TAKE j \in 1 .. n + 1
  <2>1. CASE j \in 1 .. i - 1
    BY <2>1, <1>2, <1>10
  <2>2. CASE j = i
    BY <2>2, <1>3, <1>7
  <2>3. CASE j \in i + 1 .. n + 1
    BY <2>3, <1>2, <1>9
  <2> QED BY <2>1, <2>2, <2>3, <1>1, <1>8
<1>13. wide.cells[1].key - 1 \in own2[p]
  <2>1. CASE i = 1
    BY <2>1, <1>3, <1>7
  <2>2. CASE i # 1
    <3>1. 1 \in 1 .. i - 1
      BY <2>2
    <3> QED BY <3>1, <1>2, <1>7
  <2> QED BY <2>1, <2>2
<1>14. ASSUME NEW j \in 1 .. n + 2, NEW k \in Int
       PROVE  k \in own2[Child(wide, j)] <=> k \in own2[p] /\ Between(wide, j, k)
  <2>1. CASE j \in 1 .. i - 1
    <3>1. j \in 1 .. n /\ j \in 1 .. n + 1 /\ j # i /\ (j > 1 => j - 1 \in 1 .. i - 1)
      BY <2>1, <1>1
    <3>2. Child(wide, j) = Child(node, j) /\ own2[Child(node, j)] = own[Child(node, j)]
      BY <3>1, <2>1, <1>7
    <3>3. Between(wide, j, k) <=> Between(node, j, k)
      <4>1. wide.cells[j].key = node.cells[j].key
        BY <2>1, <1>7
      <4>2. j > 1 => wide.cells[j - 1].key = node.cells[j - 1].key
        BY <3>1, <1>7
      <4>3. j <= n /\ j <= n + 1
        BY <3>1, <1>1
      <4> QED BY <4>1, <4>2, <4>3, <1>7 DEF Between
    <3> QED BY <3>1, <3>2, <3>3, <1>2
  <2>2. CASE j = i
    <3>1. i > 1 => wide.cells[i - 1].key = node.cells[i - 1].key
      <4> SUFFICES ASSUME i > 1 PROVE wide.cells[i - 1].key = node.cells[i - 1].key
        OBVIOUS
      <4>1. i - 1 \in 1 .. i - 1
        OBVIOUS
      <4> QED BY <4>1, <1>7
    <3>2. i <= n + 1
      BY <1>1
    <3>3. i <= n => (k < s => k < node.cells[i].key)
      <4> SUFFICES ASSUME i <= n, k < s PROVE k < node.cells[i].key
        OBVIOUS
      <4>1. i \in 1 .. n
        BY <1>1
      <4> QED BY <4>1, <1>1, <1>4
    <3>4. Between(wide, i, k) <=> Between(node, i, k) /\ k < s
      BY <3>1, <3>2, <3>3, <1>7 DEF Between
    <3>5. k \in own2[x] <=> k \in own[x] /\ k < s
      OBVIOUS
    <3> QED BY <2>2, <3>4, <3>5, <1>2, <1>7
  <2>3. CASE j = i + 1
    <3>1. i + 1 <= n + 1 => wide.cells[i + 1].key = node.cells[i].key /\ i <= n
      <4> SUFFICES ASSUME i + 1 <= n + 1
                   PROVE wide.cells[i + 1].key = node.cells[i].key /\ i <= n
        OBVIOUS
      <4>1. i + 1 \in i + 1 .. n + 1 /\ (i + 1) - 1 = i
        BY <1>1
      <4> QED BY <4>1, <1>7, <1>1
    <3>2. i <= n => i + 1 <= n + 1
      BY <1>1
    <3>3. i > 1 => (s <= k => node.cells[i - 1].key <= k)
      <4> SUFFICES ASSUME i > 1, s <= k PROVE node.cells[i - 1].key <= k
        OBVIOUS
      <4>1. PICK l \in 1 .. n : l = i - 1
        BY <1>1
      <4>2. node.cells[l].key < s /\ node.cells[l].key \in Int
        BY <4>1, <1>1, <1>4
      <4>3. node.cells[l].key <= k
        BY <4>2, <1>1
      <4> QED BY <4>1, <4>3
    <3>4. Between(wide, i + 1, k) <=> Between(node, i, k) /\ s <= k
      <4>1. (i + 1) - 1 = i /\ i + 1 > 1
        OBVIOUS
      <4>2. Between(wide, i + 1, k) <=>
              /\ wide.cells[i].key <= k
              /\ i + 1 <= n + 1 => k < wide.cells[i + 1].key
        BY <4>1, <1>7 DEF Between
      <4> QED BY <4>2, <3>1, <3>2, <3>3, <1>7 DEF Between
    <3>5. k \in own2[r] <=> k \in own[x] /\ s <= k
      OBVIOUS
    <3> QED BY <2>3, <3>4, <3>5, <1>2, <1>7
  <2>4. CASE j \in i + 2 .. n + 2
    <3>1. PICK l \in 1 .. n + 1 : l = j - 1 /\ l # i /\ l > 1 /\ l - 1 \in i .. n
                                   /\ l \in i + 1 .. n + 1
      BY <2>4, <1>1, SMTT(20)
    <3>2. Child(wide, j) = Child(node, l) /\ own2[Child(node, l)] = own[Child(node, l)]
      BY <3>1, <2>4, <1>7
    <3>3. wide.cells[j - 1].key = node.cells[l - 1].key
      BY <3>1, <1>7
    <3>4. j <= n + 1 => wide.cells[j].key = node.cells[l].key /\ l <= n
      <4> SUFFICES ASSUME j <= n + 1 PROVE wide.cells[j].key = node.cells[l].key /\ l <= n
        OBVIOUS
      <4>1. j \in i + 1 .. n + 1
        BY <2>4, <1>1
      <4> QED BY <4>1, <3>1, <1>7, <1>1
    <3>5. (l <= n => j <= n + 1) /\ j > 1
      BY <3>1, <2>4, <1>1
    <3>6. Between(wide, j, k) <=> Between(node, l, k)
      BY <3>1, <3>3, <3>4, <3>5, <1>7 DEF Between
    <3> QED BY <3>1, <3>2, <3>6, <1>2
  <2>5. j \in 1 .. i - 1 \/ j = i \/ j = i + 1 \/ j \in i + 2 .. n + 2
    BY <1>1
  <2> QED BY <2>1, <2>2, <2>3, <2>4, <2>5
<1>15. Routed(wide, own2, p)
  <2>1. n + 1 >= 1 /\ (n + 1) + 1 = n + 2
    BY <1>1
  <2> QED BY <2>1, <1>7, <1>11, <1>12, <1>13, <1>14 DEF Routed
<1>16. \A j \in 1 .. i : Child(wide, j) = Child(node, j)
  <2> TAKE j \in 1 .. i
  <2>1. j \in 1 .. i - 1 \/ j = i
    OBVIOUS
  <2> QED BY <2>1, <1>7
<1> QED BY <1>7, <1>15, <1>16 DEF wide, sp, ChildParted

-----------------------------------------------------------------------------
\* The rows of leaves are replaced by others that belong there.
LEMMA LeavesRewritten ==
  ASSUME NEW m, NEW m2 \in [NodePages -> Leaf \cup Internal], NEW count, NEW T, NEW own, NEW h,
         SearchTree(m, count, T, own, h),
         \A p \in NodePages :
           \/ m2[p] = m[p]
           \/ /\ p \in T /\ m[p].type = "leaf" /\ m2[p].type = "leaf"
              /\ m2[p].root = m[p].root /\ m2[p].parent = m[p].parent /\ m2[p].link = m[p].link
              /\ Filled(m2[p], own, p)
  PROVE  SearchTree(m2, count, T, own, h)
<1>1. Typed(m, count, T, own, h) /\ T \subseteq NodePages
  BY DEF SearchTree, Typed
<1>2. Typed(m2, count, T, own, h)
  BY <1>1 DEF Typed
<1>3. \A p \in NodePages : /\ m2[p].type = m[p].type /\ m2[p].root = m[p].root
                           /\ m2[p].parent = m[p].parent /\ m2[p].link = m[p].link
                           /\ m[p].type # "leaf" \/ p \notin T => m2[p] = m[p]
  OBVIOUS
<1>4. \A p \in NodePages \ T : Empty(m2[p])
  BY <1>3 DEF SearchTree
<1>5. ASSUME NEW p \in T PROVE PageOK(m2, T, own, h, p)
  <2>1. PageOK(m, T, own, h, p) /\ p \in NodePages
    BY <1>1 DEF SearchTree
  <2>2. Rooted(m2, T, p)
    <3>1. CASE p = RootPage
      BY <3>1, <2>1, <1>3 DEF PageOK, Rooted
    <3>2. CASE p # RootPage
      <4>1. m[p].parent \in NodePages /\ m2[m[p].parent] = m[m[p].parent]
        BY <3>2, <2>1, <1>1, <1>3 DEF PageOK, Rooted
      <4> QED BY <3>2, <4>1, <2>1, <1>3 DEF PageOK, Rooted
    <3> QED BY <3>1, <3>2
  <2>3. m[p].type = "leaf" => Filled(m2[p], own, p)
    BY <2>1 DEF PageOK
  <2>4. m[p].type = "leaf" => Chained(m2, T, own, p)
    BY <2>1, <1>1, <1>3 DEF PageOK, Chained
  <2>5. m[p].type = "internal" => Routed(m2[p], own, p) /\ Parented(m2, T, h, p)
    BY <2>1, <1>1, <1>3 DEF PageOK, Parented
  <2> QED BY <2>1, <2>2, <2>3, <2>4, <2>5, <1>3 DEF PageOK
<1> QED BY <1>2, <1>4, <1>5 DEF SearchTree

-----------------------------------------------------------------------------
\* A page x below the root is split at key s: r is the new right half.
SplitKeys(own, own2, x, r, s) ==
  /\ own2 \in [NodePages -> SUBSET Int]
  /\ \A k \in Int : k \in own2[x] <=> k \in own[x] /\ k < s
  /\ \A k \in Int : k \in own2[r] <=> k \in own[x] /\ s <= k
  /\ \A p \in NodePages \ {x, r} : own2[p] = own[p]

\* The children of a split node are children of its halves.
Rehomed(m, m2, T, x, l, r) ==
  \A c \in T \ {RootPage} : m[c].parent = x =>
    \E q \in {l, r} :
      m2[c].parent = q /\ \E i \in 1 .. Len(m2[q].cells) + 1 : Child(m2[q], i) = c

LEMMA SplitConvex ==
  ASSUME NEW own, NEW own2, NEW x \in NodePages, NEW r \in NodePages, NEW s \in Int,
         own \in [NodePages -> SUBSET Int],
         SplitKeys(own, own2, x, r, s), Convex(own[x]), s \in own[x], s - 1 \in own[x]
  PROVE  /\ own2[x] # {} /\ Convex(own2[x]) /\ own2[r] # {} /\ Convex(own2[r])
<1>1. s - 1 \in own2[x] /\ s \in own2[r]
  BY DEF SplitKeys
<1>2. own2[x] \subseteq Int /\ own2[r] \subseteq Int /\ own[x] \subseteq Int
  BY DEF SplitKeys
<1>3. Convex(own2[x])
  <2> SUFFICES ASSUME NEW a \in own2[x], NEW c \in own2[x], NEW b \in Int, a <= b, b <= c
               PROVE  b \in own2[x]
    BY DEF Convex
  <2>1. a \in Int /\ c \in Int /\ a \in own[x] /\ c \in own[x] /\ c < s
    BY <1>2 DEF SplitKeys
  <2>2. b \in own[x] /\ b < s
    BY <2>1 DEF Convex
  <2> QED BY <2>2 DEF SplitKeys
<1>4. Convex(own2[r])
  <2> SUFFICES ASSUME NEW a \in own2[r], NEW c \in own2[r], NEW b \in Int, a <= b, b <= c
               PROVE  b \in own2[r]
    BY DEF Convex
  <2>1. a \in Int /\ c \in Int /\ a \in own[x] /\ c \in own[x] /\ s <= a
    BY <1>2 DEF SplitKeys
  <2>2. b \in own[x] /\ s <= b
    BY <2>1 DEF Convex
  <2> QED BY <2>2 DEF SplitKeys
<1> QED BY <1>1, <1>3, <1>4

\* A leaf whose links are as they were.
LEMMA SplitChained ==
  ASSUME NEW T \in SUBSET NodePages, NEW own, NEW own2, NEW x \in T,
         NEW r \in NodePages \ T, NEW s \in Int,
         own \in [NodePages -> SUBSET Int],
         SplitKeys(own, own2, x, r, s), Convex(own[x]), s \in own[x], s - 1 \in own[x],
         NEW p \in T, NEW y \in T, NEW k \in own[p], k + 1 \in own[y] \ own[p],
         p # x => \A j \in own[p] : j \notin own[x]
  PROVE  LET from == IF p = x THEN r ELSE p
         IN  y # r /\ \E j \in own2[from] : j + 1 \in own2[y] \ own2[from]
<1>1. k \in Int /\ own[x] \subseteq Int /\ p # r /\ y # r /\ y # p
  OBVIOUS
<1>2. CASE p = x
  <2>1. s <= k
    <3> SUFFICES ASSUME k < s PROVE FALSE
      BY <1>1
    <3>1. k <= k + 1 /\ k + 1 <= s /\ k + 1 \in Int
      BY <1>1
    <3> QED BY <3>1, <1>2 DEF Convex
  <2>2. k \in own2[r] /\ k + 1 \notin own2[r] /\ k + 1 \in own2[y]
    BY <2>1, <1>1, <1>2 DEF SplitKeys
  <2> QED BY <2>2, <1>1, <1>2
<1>3. CASE p # x /\ y = x
  <2>1. k \notin own[x]
    BY <1>3
  <2>2. k + 1 < s
    <3> SUFFICES ASSUME s <= k + 1 PROVE FALSE
      BY <1>1
    <3>1. s - 1 <= k /\ k <= k + 1
      BY <1>1
    <3> QED BY <3>1, <1>1, <1>3, <2>1 DEF Convex
  <2>3. k \in own2[p] /\ k + 1 \notin own2[p] /\ k + 1 \in own2[x]
    BY <2>2, <1>1, <1>3 DEF SplitKeys
  <2> QED BY <2>3, <1>1, <1>3
<1>4. CASE p # x /\ y # x
  <2>1. own2[p] = own[p] /\ own2[y] = own[y]
    BY <1>1, <1>4 DEF SplitKeys
  <2> QED BY <2>1, <1>1, <1>4
<1> QED BY <1>2, <1>3, <1>4

\* What the step that splits x into x and r does to the pages, the separator for the
\* parent counted in.
Split(m, m2, T, own2, h2, x, r, s) ==
  /\ m2[m[x].parent] = WithSeparator(m[m[x].parent], [key |-> s, left |-> x, right |-> r])
  /\ \A p \in NodePages \ {x, r, m[x].parent} :
       \/ m2[p] = m[p]
       \/ m[p].parent = x /\ m2[p] = [m[p] EXCEPT !.parent = r]
  /\ \A q \in {x, r} : /\ ~ m2[q].root /\ m2[q].parent = m[x].parent /\ m2[q].type = m[x].type
                       /\ m[x].type = "leaf" => Filled(m2[q], own2, q)
                       /\ m[x].type = "internal" => /\ Routed(m2[q], own2, q)
                                                    /\ Parented(m2, T \cup {r}, h2, q)
  /\ m[x].type = "leaf" => m2[x].link = r /\ m2[r].link = m[x].link
  /\ m[x].type = "internal" => Rehomed(m, m2, T, x, x, r)

\* The separator finds its place beside x, and the parent stays in order.
LEMMA SplitParent ==
  ASSUME NEW m, NEW m2, NEW count, NEW T, NEW own, NEW h, SearchTree(m, count, T, own, h),
         NEW x \in T, x # RootPage, NEW r \in NodePages, r \notin T,
         NEW s \in Keys \cup {0}, s \in own[x], s - 1 \in own[x],
         NEW own2, SplitKeys(own, own2, x, r, s),
         NEW h2, Split(m, m2, T, own2, h2, x, r, s)
  PROVE  LET pp == m[x].parent
         IN  /\ pp \in T /\ pp # x /\ pp # r /\ m[pp].type = "internal" /\ h[pp] = h[x] + 1
             /\ m2[pp] \in Internal /\ m2[pp].root = m[pp].root /\ m2[pp].parent = m[pp].parent
             /\ Routed(m2[pp], own2, pp)
             /\ \A i \in 1 .. Len(m2[pp].cells) + 1 :
                  \/ Child(m2[pp], i) = r
                  \/ \E j \in 1 .. Len(m[pp].cells) + 1 : Child(m2[pp], i) = Child(m[pp], j)
             /\ \E i \in 1 .. Len(m2[pp].cells) + 1 : Child(m2[pp], i) = r
             /\ \A j \in 1 .. Len(m[pp].cells) + 1 :
                  \E i \in 1 .. Len(m2[pp].cells) + 1 : Child(m2[pp], i) = Child(m[pp], j)
<1> DEFINE pp == m[x].parent
           node == m[pp]
           sp == [key |-> s, left |-> x, right |-> r]
<1>1. Typed(m, count, T, own, h) /\ PageOK(m, T, own, h, x)
  BY DEF SearchTree
<1>2. pp \in T /\ node.type = "internal" /\ node \in Internal
  <2>1. pp \in T /\ node.type = "internal"
    BY <1>1 DEF PageOK, Rooted
  <2> QED BY <2>1, <1>1, PageTypes DEF Typed
<1>3. PICK i \in 1 .. Len(node.cells) + 1 : Child(node, i) = x
  BY <1>1 DEF PageOK, Rooted
<1>4. Routed(node, own, pp) /\ Parented(m, T, h, pp)
  BY <1>2 DEF SearchTree, PageOK
<1>5. h[pp] = h[x] + 1 /\ h[x] \in Nat
  BY <1>1, <1>3, <1>4 DEF Parented, Typed
<1>6. pp # x /\ pp # r
  BY <1>2, <1>5
<1>7. m2[pp] = WithSeparator(node, sp)
  BY DEF Split
<1>8. T \subseteq PageNum /\ r \in PageNum
  BY <1>1 DEF Typed, NodePages
<1>9. own2[pp] = own[pp] /\ own[pp] \subseteq Int
  BY <1>1, <1>2, <1>6 DEF SplitKeys, Typed
<1>10. \A j \in 1 .. Len(node.cells) + 1 :
         j # i => own2[Child(node, j)] = own[Child(node, j)]
  <2> SUFFICES ASSUME NEW j \in 1 .. Len(node.cells) + 1, j # i
               PROVE  own2[Child(node, j)] = own[Child(node, j)]
    OBVIOUS
  <2>1. Child(node, j) \in T /\ Child(node, j) \in NodePages
    BY <1>1, <1>4 DEF Parented, Typed
  <2>2. s \in Int
    BY KeysAssumption
  <2>3. Child(node, j) # x
    BY <1>2, <1>3, <1>4, <2>2, ChildOnce
  <2> QED BY <2>1, <2>3 DEF SplitKeys
<1>11. /\ \A k \in Int : k \in own2[x] <=> k \in own[x] /\ k < s
       /\ \A k \in Int : k \in own2[r] <=> k \in own[x] /\ s <= k
  BY DEF SplitKeys
<1> DEFINE wide == WithSeparator(node, sp)
           n == Len(node.cells)
<1>12. /\ wide \in Internal /\ wide.root = node.root /\ wide.parent = node.parent
       /\ Routed(wide, own2, pp)
       /\ Len(wide.cells) = n + 1
       /\ \A j \in 1 .. i : Child(wide, j) = Child(node, j)
       /\ Child(wide, i + 1) = r
       /\ \A j \in i + 2 .. n + 2 : Child(wide, j) = Child(node, j - 1)
  <2>1. ChildSplit(node, own, own2, pp, i, x, r, s)
    <3> HIDE DEF node, pp
    <3> QED BY <1>3, <1>4, <1>9, <1>10, <1>11 DEF ChildSplit
  <2> HIDE DEF node, pp
  <2>2. ChildParted(node, wide, own2, pp, i, r)
    BY <2>1, <1>2, <1>8, SeparatorRouted
  <2> QED BY <2>2 DEF ChildParted
<1>13. n \in Nat
  BY <1>2, InternalFields
<1> HIDE DEF wide, n
<1>14. \A j \in 1 .. n + 2 :
         \/ Child(wide, j) = r
         \/ \E l \in 1 .. n + 1 : Child(wide, j) = Child(node, l)
  <2> TAKE j \in 1 .. n + 2
  <2>1. CASE j \in 1 .. i
    BY <2>1, <1>12, <1>3, <1>13 DEF n
  <2>2. CASE j = i + 1
    BY <2>2, <1>12
  <2>3. CASE j \in i + 2 .. n + 2
    <3>1. j - 1 \in 1 .. n + 1
      BY <2>3, <1>3, <1>13
    <3> QED BY <3>1, <2>3, <1>12
  <2> QED BY <2>1, <2>2, <2>3
<1>15. \A j \in 1 .. n + 1 : \E l \in 1 .. n + 2 : Child(wide, l) = Child(node, j)
  <2> TAKE j \in 1 .. n + 1
  <2>1. CASE j \in 1 .. i
    <3>1. j \in 1 .. n + 2
      BY <1>13
    <3> QED BY <3>1, <2>1, <1>12
  <2>2. CASE j \in i + 1 .. n + 1
    <3>1. j + 1 \in i + 2 .. n + 2 /\ (j + 1) - 1 = j /\ j + 1 \in 1 .. n + 2
      BY <2>2, <1>13, <1>3, SMTT(20) DEF n
    <3>2. Child(wide, j + 1) = Child(node, (j + 1) - 1)
      BY <3>1, <1>12
    <3> QED BY <3>1, <3>2
  <2>3. j \in 1 .. i \/ j \in i + 1 .. n + 1
    BY <1>3
  <2> QED BY <2>1, <2>2, <2>3
<1>16. i + 1 \in 1 .. n + 2 /\ Len(wide.cells) + 1 = n + 2
  BY <1>3, <1>12, <1>13 DEF n
<1>17. m2[pp] = wide
  BY <1>7 DEF wide
<1> QED BY <1>2, <1>5, <1>6, <1>12, <1>14, <1>15, <1>16, <1>17 DEF n

\* A page below the root that is split in order leaves a search tree.
LEMMA SplitKeepsTree ==
  ASSUME NEW m, NEW m2 \in [NodePages -> Leaf \cup Internal], NEW count, NEW count2,
         NEW T, NEW own, NEW own2, NEW h, NEW h2,
         SearchTree(m, count, T, own, h),
         NEW x \in T, x # RootPage, NEW r \in NodePages, r \notin T,
         T \cup {r} \subseteq 1 .. count2 - 1,
         NEW s \in Keys \cup {0}, s \in own[x], s - 1 \in own[x],
         SplitKeys(own, own2, x, r, s),
         h2 = [h EXCEPT ![r] = h[x]],
         Split(m, m2, T, own2, h2, x, r, s)
  PROVE  SearchTree(m2, count2, T \cup {r}, own2, h2)
<1> DEFINE pp == m[x].parent
           T2 == T \cup {r}
<1>1. /\ Typed(m, count, T, own, h) /\ \A p \in T : PageOK(m, T, own, h, p)
      /\ Disjoint(T, own, h) /\ \A p \in NodePages \ T : Empty(m[p])
  BY DEF SearchTree
<1>2. /\ T \subseteq NodePages /\ RootPage \in T /\ RootPage # r /\ RootPage \in NodePages
      /\ own \in [NodePages -> SUBSET Int] /\ own[RootPage] = Int
      /\ h \in [NodePages -> Nat] /\ s \in Int
      /\ m \in [NodePages -> Leaf \cup Internal]
  BY <1>1, KeysAssumption DEF Typed
<1>3. /\ pp \in T /\ pp # x /\ pp # r /\ m[pp].type = "internal" /\ h[pp] = h[x] + 1
      /\ m2[pp] \in Internal /\ m2[pp].root = m[pp].root /\ m2[pp].parent = m[pp].parent
      /\ Routed(m2[pp], own2, pp)
      /\ \A i \in 1 .. Len(m2[pp].cells) + 1 :
           \/ Child(m2[pp], i) = r
           \/ \E j \in 1 .. Len(m[pp].cells) + 1 : Child(m2[pp], i) = Child(m[pp], j)
      /\ \E i \in 1 .. Len(m2[pp].cells) + 1 : Child(m2[pp], i) = r
      /\ \A j \in 1 .. Len(m[pp].cells) + 1 :
           \E i \in 1 .. Len(m2[pp].cells) + 1 : Child(m2[pp], i) = Child(m[pp], j)
  BY SplitParent
<1>4. /\ h2 \in [NodePages -> Nat] /\ h2[r] = h[x]
      /\ \A p \in NodePages : p # r => h2[p] = h[p]
  BY <1>2
<1>5. \A p \in NodePages \ {x, r, pp} :
        /\ m2[p] = m[p] \/ m[p].parent = x
        /\ m2[p].type = m[p].type /\ m2[p].root = m[p].root
        /\ m2[p].link = m[p].link /\ m2[p].cells = m[p].cells
        /\ Routed(m[p], own2, p) => Routed(m2[p], own2, p)
        /\ \A i : Child(m2[p], i) = Child(m[p], i)
        /\ Filled(m[p], own2, p) => Filled(m2[p], own2, p)
  <2> TAKE p \in NodePages \ {x, r, pp}
  <2>1. m2[p] = m[p] \/ (m[p].parent = x /\ m2[p] = [m[p] EXCEPT !.parent = r])
    BY DEF Split
  <2>2. m[p] \in Leaf \cup Internal
    BY <1>2
  <2>3. m2[p].type = m[p].type /\ m2[p].root = m[p].root
        /\ m2[p].link = m[p].link /\ m2[p].cells = m[p].cells
    BY <2>1, <2>2 DEF Leaf, Internal
  <2>4. \A i : Child(m2[p], i) = Child(m[p], i)
    BY <2>3 DEF Child
  <2> QED BY <2>1, <2>3, <2>4 DEF Routed, Between, Filled
<1>6. \A q \in {x, r} : /\ ~ m2[q].root /\ m2[q].parent = pp /\ m2[q].type = m[x].type
                        /\ m[x].type = "leaf" => Filled(m2[q], own2, q)
                        /\ m[x].type = "internal" => /\ Routed(m2[q], own2, q)
                                                     /\ Parented(m2, T2, h2, q)
  BY DEF Split
<1>7. /\ m[x].type = "leaf" => m2[x].link = r /\ m2[r].link = m[x].link
      /\ m[x].type = "internal" => Rehomed(m, m2, T, x, x, r)
  BY DEF Split
<1>8. /\ own2 \in [NodePages -> SUBSET Int]
      /\ \A p \in NodePages \ {x, r} : own2[p] = own[p]
      /\ \A k \in Int : k \in own2[x] <=> k \in own[x] /\ k < s
      /\ \A k \in Int : k \in own2[r] <=> k \in own[x] /\ s <= k
  BY DEF SplitKeys
<1>9. m2[pp].type = "internal"
  BY <1>3 DEF Internal
<1>10. Typed(m2, count2, T2, own2, h2)
  BY <1>2, <1>4, <1>8 DEF Typed
<1>11. ASSUME NEW p \in NodePages \ T2 PROVE Empty(m2[p])
  <2>1. Empty(m[p]) /\ p \in NodePages \ {x, r, pp}
    BY <1>1, <1>3
  <2> QED BY <2>1, <1>5 DEF Empty
<1>12. Disjoint(T2, own2, h2)
  <2> SUFFICES ASSUME NEW p \in T2, NEW q \in T2, NEW k \in Int,
                      h2[p] = h2[q], k \in own2[p], k \in own2[q]
               PROVE  p = q
    BY DEF Disjoint
  <2> DEFINE o(y) == IF y = r THEN x ELSE y
  <2>1. o(p) \in T /\ o(q) \in T /\ h[o(p)] = h[o(q)]
    BY <1>2, <1>4
  <2>2. k \in own[o(p)] /\ k \in own[o(q)]
    BY <1>2, <1>8
  <2>3. o(p) = o(q)
    BY <2>1, <2>2, <1>1 DEF Disjoint
  <2>4. ~ (k \in own2[x] /\ k \in own2[r])
    BY <1>8, <1>2
  <2> QED BY <2>3, <2>4
<1>13. \A p \in T : own[p] # {} /\ Convex(own[p])
  BY <1>1 DEF PageOK
<1>14. ASSUME NEW p \in T2 PROVE own2[p] # {} /\ Convex(own2[p]) /\ h2[p] <= h2[RootPage]
  <2>1. own2[x] # {} /\ Convex(own2[x]) /\ own2[r] # {} /\ Convex(own2[r])
    BY <1>2, <1>13, SplitConvex
  <2>2. own2[p] # {} /\ Convex(own2[p])
    BY <2>1, <1>2, <1>8, <1>13
  <2>3. h2[p] <= h2[RootPage]
    BY <1>1, <1>2, <1>4 DEF PageOK
  <2> QED BY <2>2, <2>3
<1>15. ASSUME NEW p \in T2 PROVE Rooted(m2, T2, p)
  <2>1. CASE p = RootPage
    <3>1. m[RootPage].root
      BY <1>1, <1>2 DEF PageOK, Rooted
    <3>2. m2[RootPage].root
      BY <3>1, <1>2, <1>3, <1>5
    <3> QED BY <2>1, <3>2 DEF Rooted
  <2>2. CASE p = r
    BY <2>2, <1>2, <1>3, <1>6, <1>9 DEF Rooted
  <2>3. CASE p \in T /\ p # RootPage
    <3> DEFINE q == m[p].parent
    <3>1. /\ ~ m[p].root /\ q \in T /\ m[q].type = "internal" /\ q # r /\ p # r
          /\ \E i \in 1 .. Len(m[q].cells) + 1 : Child(m[q], i) = p
      BY <2>3, <1>1 DEF PageOK, Rooted
    <3>2. CASE p = x
      <4>1. \E i \in 1 .. Len(m2[pp].cells) + 1 : Child(m2[pp], i) = x
        BY <3>1, <3>2, <1>3
      <4> QED BY <4>1, <3>2, <1>3, <1>6, <1>9 DEF Rooted
    <3>3. ~ m2[p].root
      BY <3>1, <3>2, <1>2, <1>3, <1>5, <1>6
    <3>4. CASE q = x /\ p # x
      <4>1. m[x].type = "internal"
        BY <3>1, <3>4
      <4>2. PICK y \in {x, r} :
              m2[p].parent = y /\ \E i \in 1 .. Len(m2[y].cells) + 1 : Child(m2[y], i) = p
        BY <4>1, <3>4, <2>3, <1>7 DEF Rehomed
      <4>3. m2[y].type = "internal"
        BY <4>1, <1>6
      <4> QED BY <4>2, <4>3, <3>3, <2>3 DEF Rooted
    <3>5. CASE q # x /\ p # x
      <4>1. m2[p].parent = q
        BY <3>1, <3>5, <1>2, <1>3, <1>5
      <4>2. m2[q].type = "internal"
        BY <3>1, <3>5, <1>2, <1>5, <1>9
      <4>3. \E i \in 1 .. Len(m2[q].cells) + 1 : Child(m2[q], i) = p
        <5>1. CASE q = pp
          BY <5>1, <3>1, <1>3
        <5>2. CASE q # pp
          <6>1. q \in NodePages \ {x, r, pp}
            BY <5>2, <3>1, <3>5, <1>2
          <6>2. m2[q].cells = m[q].cells /\ \A i : Child(m2[q], i) = Child(m[q], i)
            BY <6>1, <1>5
          <6> QED BY <6>2, <3>1
        <5> QED BY <5>1, <5>2
      <4> QED BY <4>1, <4>2, <4>3, <3>1, <3>3, <2>3 DEF Rooted
    <3> QED BY <3>2, <3>4, <3>5
  <2> QED BY <2>1, <2>2, <2>3
<1>16. ASSUME NEW p \in T2, m2[p].type = "leaf"
       PROVE  h2[p] = 1 /\ Filled(m2[p], own2, p) /\ Chained(m2, T2, own2, p)
  <2>1. CASE p \in {x, r}
    <3>1. m[x].type = "leaf" /\ h2[p] = h[x] /\ Filled(m2[p], own2, p)
      BY <2>1, <1>2, <1>4, <1>6, <1>16
    <3>2. h[x] = 1 /\ Chained(m, T, own, x)
      BY <3>1, <1>1 DEF PageOK
    <3>3. m2[x].link = r /\ m2[r].link = m[x].link /\ m2[r].type = "leaf"
      BY <3>1, <1>6, <1>7
    <3>4. Chained(m2, T2, own2, x)
      <4>1. r # 0
        BY DEF NodePages
      <4>2. s - 1 \in own2[x] /\ s \in own2[r] /\ s \notin own2[x] /\ (s - 1) + 1 = s
        BY <1>2, <1>8
      <4> QED BY <4>1, <4>2, <3>3 DEF Chained
    <3>5. Chained(m2, T2, own2, r)
      <4>1. CASE m[x].link = 0
        <5>1. \A k \in own[x] : k + 1 \in own[x]
          BY <4>1, <3>2 DEF Chained
        <5>2. \A k \in own2[r] : k + 1 \in own2[r]
          <6> TAKE k \in own2[r]
          <6>1. k \in Int
            BY <1>8
          <6>2. k \in own[x] /\ s <= k
            BY <6>1, <1>8
          <6>3. k + 1 \in own[x] /\ s <= k + 1 /\ k + 1 \in Int
            BY <6>1, <6>2, <5>1, <1>2
          <6> QED BY <6>3, <1>8
        <5> QED BY <4>1, <5>2, <3>3 DEF Chained
      <4>2. CASE m[x].link # 0
        <5> DEFINE y == m[x].link
        <5>1. y \in T /\ m[y].type = "leaf"
              /\ \E k \in own[x] : k + 1 \in own[y] \ own[x]
          BY <4>2, <3>2 DEF Chained
        <5>2. PICK k \in own[x] : k + 1 \in own[y] \ own[x]
          BY <5>1
        <5> HIDE DEF y
        <5>3. \E j \in own2[r] : j + 1 \in own2[y] \ own2[r]
          BY <5>1, <5>2, <1>2, <1>13, SplitChained
        <5>4. m2[y].type = "leaf"
          <6>1. y \in NodePages \ {x, r, pp}
            BY <5>1, <5>2, <1>2, <1>3
          <6> QED BY <6>1, <5>1, <1>5
        <5>5. m2[r].link = y /\ y # 0
          BY <3>3, <4>2 DEF y
        <5> QED BY <5>1, <5>3, <5>4, <5>5 DEF Chained
      <4> QED BY <4>1, <4>2
    <3> QED BY <2>1, <3>1, <3>2, <3>4, <3>5
  <2>2. CASE p \notin {x, r}
    <3>1. p \in T /\ p # pp /\ p \in NodePages \ {x, r, pp}
      BY <2>2, <1>2, <1>9, <1>16
    <3>2. m[p].type = "leaf" /\ m2[p].link = m[p].link /\ own2[p] = own[p]
      BY <3>1, <1>5, <1>8, <1>16
    <3>3. h[p] = 1 /\ Filled(m[p], own, p) /\ Chained(m, T, own, p)
      BY <3>1, <3>2, <1>1 DEF PageOK
    <3>4. Filled(m2[p], own2, p)
      <4>1. Filled(m[p], own2, p)
        BY <3>2, <3>3 DEF Filled
      <4> QED BY <4>1, <3>1, <1>5
    <3>5. Chained(m2, T2, own2, p)
      <4>1. CASE m[p].link = 0
        BY <4>1, <3>2, <3>3 DEF Chained
      <4>2. CASE m[p].link # 0
        <5> DEFINE y == m[p].link
        <5>1. y \in T /\ m[y].type = "leaf"
              /\ \E k \in own[p] : k + 1 \in own[y] \ own[p]
          BY <4>2, <3>3 DEF Chained
        <5>2. PICK k \in own[p] : k + 1 \in own[y] \ own[p]
          BY <5>1
        <5> HIDE DEF y
        <5>3. y = x \/ m[x].type # "leaf" \/ y # x
          OBVIOUS
        <5>4. m2[y].type = "leaf"
          BY <5>1, <1>2, <1>3, <1>5, <1>6
        <5>5. \E j \in own2[p] : j + 1 \in own2[y] \ own2[p]
          <6>1. CASE m[x].type = "leaf"
            <7>1. h[x] = 1
              BY <6>1, <1>1 DEF PageOK
            <7>2. \A j \in own[p] : j \notin own[x]
              BY <7>1, <3>1, <3>3, <1>1, <1>2 DEF Disjoint
            <7> QED BY <7>2, <5>1, <5>2, <3>1, <1>2, <1>13, SplitChained
          <6>2. CASE m[x].type # "leaf"
            <7>1. y \in NodePages \ {x, r}
              BY <6>2, <5>1, <1>2
            <7> QED BY <7>1, <5>2, <3>2, <1>8
          <6> QED BY <6>1, <6>2
        <5>6. m2[p].link = y /\ y # 0
          BY <3>2, <4>2 DEF y
        <5> QED BY <5>1, <5>4, <5>5, <5>6 DEF Chained
      <4> QED BY <4>1, <4>2
    <3> QED BY <3>1, <3>3, <3>4, <3>5, <1>4
  <2> QED BY <2>1, <2>2
<1>17. ASSUME NEW p \in T2, m2[p].type = "internal"
       PROVE  Routed(m2[p], own2, p) /\ Parented(m2, T2, h2, p)
  <2>1. CASE p \in {x, r}
    BY <2>1, <1>6, <1>17
  <2>2. ASSUME p \notin {x, r}, NEW j \in 1 .. Len(m[p].cells) + 1, m[p].type = "internal"
        PROVE  LET c == Child(m[p], j)
               IN  /\ c \in T2 /\ c # RootPage /\ m2[c].parent = p /\ h2[p] = h2[c] + 1
                   /\ c \in T /\ m[c].parent = p /\ c # r
    <3> DEFINE c == Child(m[p], j)
    <3>1. p \in T /\ p \in NodePages
      BY <2>2, <1>2
    <3>2. c \in T /\ c # RootPage /\ m[c].parent = p /\ h[p] = h[c] + 1
      BY <2>2, <3>1, <1>1 DEF PageOK, Parented
    <3> HIDE DEF c
    <3>3. m2[c].parent = p
      BY <2>2, <3>1, <3>2, <1>2, <1>3, <1>5, <1>6
    <3>4. h2[p] = h2[c] + 1 /\ c # r
      BY <2>2, <3>1, <3>2, <1>2, <1>4
    <3> QED BY <3>2, <3>3, <3>4 DEF c
  <2>3. CASE p = pp
    <3>1. Parented(m2, T2, h2, pp)
      <4> SUFFICES ASSUME NEW i \in 1 .. Len(m2[pp].cells) + 1
                   PROVE  LET c == Child(m2[pp], i)
                          IN  c \in T2 /\ c # RootPage /\ m2[c].parent = pp /\ h2[pp] = h2[c] + 1
        BY DEF Parented
      <4>1. CASE Child(m2[pp], i) = r
        <5>1. m2[r].parent = pp /\ h2[pp] = h2[r] + 1
          BY <1>2, <1>3, <1>4, <1>6
        <5> QED BY <4>1, <5>1, <1>2
      <4>2. CASE \E j \in 1 .. Len(m[pp].cells) + 1 : Child(m2[pp], i) = Child(m[pp], j)
        <5>1. PICK j \in 1 .. Len(m[pp].cells) + 1 : Child(m2[pp], i) = Child(m[pp], j)
          BY <4>2
        <5>2. p \notin {x, r} /\ m[p].type = "internal"
          BY <1>3, <2>3
        <5> HIDE DEF pp
        <5> QED BY <5>1, <5>2, <2>2, <2>3
      <4> QED BY <4>1, <4>2, <1>3
    <3> QED BY <2>3, <3>1, <1>3
  <2>4. CASE p \notin {x, r, pp}
    <3>1. p \in T /\ p \in NodePages \ {x, r, pp}
      BY <2>4, <1>2
    <3>2. m[p].type = "internal" /\ Routed(m[p], own, p) /\ m2[p].cells = m[p].cells
          /\ \A i : Child(m2[p], i) = Child(m[p], i)
      BY <3>1, <1>1, <1>5, <1>17 DEF PageOK
    <3>3. \A j \in 1 .. Len(m[p].cells) + 1 :
            own2[Child(m[p], j)] = own[Child(m[p], j)]
      <4> TAKE j \in 1 .. Len(m[p].cells) + 1
      <4> DEFINE c == Child(m[p], j)
      <4>1. c \in T /\ c # r /\ m[c].parent = p
        BY <2>2, <3>1, <3>2
      <4>2. c # x
        BY <4>1, <2>4
      <4> HIDE DEF c
      <4>3. own2[c] = own[c]
        BY <4>1, <4>2, <1>2, <1>8
      <4> QED BY <4>3 DEF c
    <3>4. Routed(m[p], own2, p)
      <4>1. own2[p] = own[p]
        BY <3>1, <1>8
      <4> QED BY <4>1, <3>2, <3>3 DEF Routed
    <3>5. Parented(m2, T2, h2, p)
      BY <2>2, <2>4, <3>2 DEF Parented
    <3> QED BY <3>1, <3>4, <3>5, <1>5
  <2> QED BY <2>1, <2>3, <2>4
<1>18. \A p \in T2 : PageOK(m2, T2, own2, h2, p)
  BY <1>14, <1>15, <1>16, <1>17 DEF PageOK
<1> HIDE DEF T2
<1> QED BY <1>10, <1>11, <1>12, <1>18 DEF SearchTree, T2

-----------------------------------------------------------------------------
\* The root is split at key s into two new pages, l and r, under the old page.
GrowKeys(own, own2, l, r, s) ==
  /\ own2 \in [NodePages -> SUBSET Int]
  /\ \A k \in Int : k \in own2[l] <=> k < s
  /\ \A k \in Int : k \in own2[r] <=> s <= k
  /\ \A p \in NodePages \ {l, r} : own2[p] = own[p]

GrowHeights(h, h2, l, r) ==
  /\ h2 \in [NodePages -> Nat]
  /\ h2[l] = h[RootPage] /\ h2[r] = h[RootPage] /\ h2[RootPage] = h[RootPage] + 1
  /\ \A p \in NodePages \ {l, r, RootPage} : h2[p] = h[p]

Grow(m, m2, T, own2, h2, l, r, s) ==
  /\ m2[RootPage] = RootOver(m[RootPage], [key |-> s, left |-> l, right |-> r])
  /\ \A p \in NodePages \ {l, r, RootPage} :
       \/ m2[p] = m[p]
       \/ m[p].parent = RootPage /\ \E q \in {l, r} : m2[p] = [m[p] EXCEPT !.parent = q]
  /\ \A q \in {l, r} :
       /\ ~ m2[q].root /\ m2[q].parent = RootPage /\ m2[q].type = m[RootPage].type
       /\ m[RootPage].type = "leaf" => Filled(m2[q], own2, q)
       /\ m[RootPage].type = "internal" => /\ Routed(m2[q], own2, q)
                                           /\ Parented(m2, T \cup {l, r}, h2, q)
  /\ m[RootPage].type = "leaf" => m2[l].link = r /\ m2[r].link = 0
  /\ m[RootPage].type = "internal" => Rehomed(m, m2, T, RootPage, l, r)

LEMMA RootOverFields ==
  ASSUME NEW root \in Leaf \cup Internal, NEW l, NEW r, NEW s \in Int,
         NEW own, NEW own2, NEW node, node = RootOver(root, [key |-> s, left |-> l, right |-> r]),
         own2[RootPage] = Int,
         \A k \in Int : k \in own2[l] <=> k < s,
         \A k \in Int : k \in own2[r] <=> s <= k
  PROVE  /\ node.type = "internal" /\ node.root /\ Len(node.cells) = 1
         /\ Child(node, 1) = l /\ Child(node, 2) = r
         /\ Routed(node, own2, RootPage)
<1>1. /\ node.type = "internal" /\ node.root /\ node.link = r
      /\ node.cells = <<[key |-> s, child |-> l]>>
  BY DEF RootOver, Leaf, Internal
<1>2. Len(node.cells) = 1 /\ node.cells[1].key = s /\ node.cells[1].child = l
  BY <1>1
<1>3. Child(node, 1) = l /\ Child(node, 2) = r
  <2>1. Len(node.cells) + 1 = 2 /\ node.link = r
    <3> DEFINE n == Len(node.cells)
    <3>1. n = 1 /\ node.link = r
      BY <1>1, <1>2
    <3> HIDE DEF n
    <3>2. n + 1 = 2
      BY <3>1
    <3> QED BY <3>1, <3>2 DEF n
  <2> QED BY <2>1, <1>2 DEF Child
<1>4. ASSUME NEW i \in 1 .. 2, NEW k \in Int
      PROVE  k \in own2[Child(node, i)] <=> k \in own2[RootPage] /\ Between(node, i, k)
  <2>1. CASE i = 1
    <3>1. Between(node, 1, k) <=> k < s
      BY <1>2 DEF Between
    <3> QED BY <2>1, <3>1, <1>3
  <2>2. CASE i = 2
    <3>1. Between(node, 2, k) <=> s <= k
      BY <1>2 DEF Between
    <3> QED BY <2>2, <3>1, <1>3
  <2> QED BY <2>1, <2>2
<1>5. Ascends(node.cells)
  BY <1>2 DEF Ascends
<1>6. Routed(node, own2, RootPage)
  <2>1. Len(node.cells) + 1 = 2 /\ \A i \in 1 .. Len(node.cells) : i = 1
    <3> DEFINE n == Len(node.cells)
    <3>1. n = 1
      BY <1>2
    <3> HIDE DEF n
    <3>2. n + 1 = 2 /\ \A i \in 1 .. n : i = 1
      BY <3>1
    <3> QED BY <3>2 DEF n
  <2>2. s \in own2[RootPage] /\ s - 1 \in own2[RootPage]
    OBVIOUS
  <2> QED BY <2>1, <2>2, <1>2, <1>4, <1>5 DEF Routed
<1> QED BY <1>1, <1>2, <1>3, <1>6

LEMMA GrowKeepsTree ==
  ASSUME NEW m, NEW m2 \in [NodePages -> Leaf \cup Internal], NEW count, NEW count2,
         NEW T, NEW own, NEW own2, NEW h, NEW h2,
         SearchTree(m, count, T, own, h),
         NEW l \in NodePages, NEW r \in NodePages, l \notin T, r \notin T, l # r,
         T \cup {l, r} \subseteq 1 .. count2 - 1, NEW s \in Int,
         GrowKeys(own, own2, l, r, s), GrowHeights(h, h2, l, r),
         Grow(m, m2, T, own2, h2, l, r, s)
  PROVE  SearchTree(m2, count2, T \cup {l, r}, own2, h2)
<1> DEFINE T2 == T \cup {l, r}
           root == m[RootPage]
<1>1. /\ Typed(m, count, T, own, h) /\ \A p \in T : PageOK(m, T, own, h, p)
      /\ Disjoint(T, own, h) /\ \A p \in NodePages \ T : Empty(m[p])
  BY DEF SearchTree
<1>2. /\ T \subseteq NodePages /\ RootPage \in T /\ RootPage \in NodePages
      /\ RootPage # l /\ RootPage # r
      /\ own \in [NodePages -> SUBSET Int] /\ own[RootPage] = Int
      /\ h \in [NodePages -> Nat]
      /\ m \in [NodePages -> Leaf \cup Internal] /\ root \in Leaf \cup Internal
  BY <1>1 DEF Typed
<1>3. /\ own2 \in [NodePages -> SUBSET Int] /\ own2[RootPage] = Int
      /\ \A p \in NodePages \ {l, r} : own2[p] = own[p]
      /\ \A k \in Int : k \in own2[l] <=> k < s
      /\ \A k \in Int : k \in own2[r] <=> s <= k
  BY <1>2 DEF GrowKeys
<1>4. /\ h2 \in [NodePages -> Nat]
      /\ h2[l] = h[RootPage] /\ h2[r] = h[RootPage] /\ h2[RootPage] = h[RootPage] + 1
      /\ \A p \in NodePages \ {l, r, RootPage} : h2[p] = h[p]
  BY DEF GrowHeights
<1>5. /\ m2[RootPage].type = "internal" /\ m2[RootPage].root /\ Len(m2[RootPage].cells) = 1
      /\ Child(m2[RootPage], 1) = l /\ Child(m2[RootPage], 2) = r
      /\ Routed(m2[RootPage], own2, RootPage)
  BY <1>2, <1>3, RootOverFields DEF Grow
<1>6. \A p \in NodePages \ {l, r, RootPage} :
        /\ m2[p] = m[p] \/ m[p].parent = RootPage
        /\ m2[p].type = m[p].type /\ m2[p].root = m[p].root
        /\ m2[p].link = m[p].link /\ m2[p].cells = m[p].cells
        /\ \A i : Child(m2[p], i) = Child(m[p], i)
  <2> TAKE p \in NodePages \ {l, r, RootPage}
  <2>1. m2[p] = m[p] \/ (/\ m[p].parent = RootPage
                         /\ \E q \in {l, r} : m2[p] = [m[p] EXCEPT !.parent = q])
    BY DEF Grow
  <2>2. m[p] \in Leaf \cup Internal
    BY <1>2
  <2>3. m2[p].type = m[p].type /\ m2[p].root = m[p].root
        /\ m2[p].link = m[p].link /\ m2[p].cells = m[p].cells
    BY <2>1, <2>2 DEF Leaf, Internal
  <2> QED BY <2>1, <2>3 DEF Child
<1>7. \A q \in {l, r} :
        /\ ~ m2[q].root /\ m2[q].parent = RootPage /\ m2[q].type = root.type
        /\ root.type = "leaf" => Filled(m2[q], own2, q)
        /\ root.type = "internal" => Routed(m2[q], own2, q) /\ Parented(m2, T2, h2, q)
  BY DEF Grow
<1>8. /\ root.type = "leaf" => m2[l].link = r /\ m2[r].link = 0
      /\ root.type = "internal" => Rehomed(m, m2, T, RootPage, l, r)
  BY DEF Grow
<1>9. \A p \in T \ {RootPage} : h[p] < h[RootPage] /\ p \in NodePages \ {l, r, RootPage}
  <2> TAKE p \in T \ {RootPage}
  <2>1. PICK k \in own[p] : k \in Int
    BY <1>1, <1>2 DEF PageOK
  <2>2. h[p] # h[RootPage]
    BY <2>1, <1>1, <1>2 DEF Disjoint
  <2>3. h[p] <= h[RootPage] /\ h[p] \in Nat /\ h[RootPage] \in Nat
    BY <1>1, <1>2 DEF PageOK
  <2> QED BY <2>2, <2>3, <1>2
<1>10. Typed(m2, count2, T2, own2, h2)
  BY <1>2, <1>3, <1>4 DEF Typed
<1>11. ASSUME NEW p \in NodePages \ T2 PROVE Empty(m2[p])
  <2>1. Empty(m[p]) /\ p \in NodePages \ {l, r, RootPage}
    BY <1>1, <1>2
  <2> QED BY <2>1, <1>6 DEF Empty
<1>12. Disjoint(T2, own2, h2)
  <2> SUFFICES ASSUME NEW p \in T2, NEW q \in T2, NEW k \in Int,
                      h2[p] = h2[q], k \in own2[p], k \in own2[q]
               PROVE  p = q
    BY DEF Disjoint
  <2>1. CASE p \in {l, r} \/ q \in {l, r}
    <3>1. p \in {l, r} /\ q \in {l, r}
      <4>1. \A y \in T2 \ {l, r} : h2[y] # h[RootPage]
        BY <1>2, <1>4, <1>9
      <4> QED BY <4>1, <2>1, <1>4
    <3> QED BY <3>1, <1>3
  <2>2. CASE p \in T /\ q \in T /\ (p = RootPage \/ q = RootPage)
    BY <2>2, <1>2, <1>4, <1>9
  <2>3. CASE p \in T \ {RootPage} /\ q \in T \ {RootPage}
    <3>1. h[p] = h[q] /\ k \in own[p] /\ k \in own[q]
      BY <2>3, <1>3, <1>4, <1>9
    <3> QED BY <3>1, <2>3, <1>1 DEF Disjoint
  <2> QED BY <2>1, <2>2, <2>3
<1>13. ASSUME NEW p \in T2 PROVE own2[p] # {} /\ Convex(own2[p]) /\ h2[p] <= h2[RootPage]
  <2>1. CASE p \in {l, r}
    <3>1. s - 1 \in own2[l] /\ s \in own2[r]
      BY <1>3
    <3>2. Convex(own2[l])
      BY <1>3 DEF Convex
    <3>3. Convex(own2[r])
      BY <1>3 DEF Convex
    <3>4. h2[p] <= h2[RootPage]
      BY <2>1, <1>2, <1>4
    <3> QED BY <2>1, <3>1, <3>2, <3>3, <3>4
  <2>2. CASE p = RootPage
    BY <2>2, <1>2, <1>3, <1>4 DEF Convex
  <2>3. CASE p \in T \ {RootPage}
    <3>1. own[p] # {} /\ Convex(own[p])
      BY <2>3, <1>1 DEF PageOK
    <3> QED BY <2>3, <3>1, <1>2, <1>3, <1>4, <1>9
  <2> QED BY <2>1, <2>2, <2>3
<1>14. ASSUME NEW p \in T2 PROVE Rooted(m2, T2, p)
  <2>1. CASE p = RootPage
    BY <2>1, <1>5 DEF Rooted
  <2>2. CASE p \in {l, r}
    <3>1. \E i \in 1 .. Len(m2[RootPage].cells) + 1 : Child(m2[RootPage], i) = p
      BY <2>2, <1>5
    <3> QED BY <2>2, <3>1, <1>2, <1>5, <1>7 DEF Rooted
  <2>3. CASE p \in T \ {RootPage}
    <3> DEFINE q == m[p].parent
    <3>1. /\ ~ m[p].root /\ q \in T /\ m[q].type = "internal"
          /\ \E i \in 1 .. Len(m[q].cells) + 1 : Child(m[q], i) = p
      BY <2>3, <1>1 DEF PageOK, Rooted
    <3>2. ~ m2[p].root
      BY <2>3, <3>1, <1>6, <1>9
    <3>3. CASE q = RootPage
      <4>1. PICK y \in {l, r} :
              m2[p].parent = y /\ \E i \in 1 .. Len(m2[y].cells) + 1 : Child(m2[y], i) = p
        BY <2>3, <3>1, <3>3, <1>8 DEF Rehomed
      <4>2. m2[y].type = "internal"
        BY <3>1, <3>3, <1>7
      <4> QED BY <4>1, <4>2, <3>2, <2>3 DEF Rooted
    <3>4. CASE q # RootPage
      <4>1. m2[p].parent = q
        BY <2>3, <3>4, <1>6, <1>9
      <4>2. q \in NodePages \ {l, r, RootPage}
        BY <3>1, <3>4, <1>9
      <4>3. m2[q].type = "internal" /\ m2[q].cells = m[q].cells
            /\ \A i : Child(m2[q], i) = Child(m[q], i)
        BY <3>1, <4>2, <1>6
      <4> QED BY <4>1, <4>3, <3>1, <3>2, <2>3 DEF Rooted
    <3> QED BY <3>3, <3>4
  <2> QED BY <2>1, <2>2, <2>3
<1>15. ASSUME NEW p \in T2, m2[p].type = "leaf"
       PROVE  h2[p] = 1 /\ Filled(m2[p], own2, p) /\ Chained(m2, T2, own2, p)
  <2>1. CASE p \in {l, r}
    <3>1. root.type = "leaf" /\ Filled(m2[p], own2, p) /\ m2[r].type = "leaf"
      BY <2>1, <1>7, <1>15
    <3>2. h[RootPage] = 1
      BY <3>1, <1>1, <1>2 DEF PageOK
    <3>3. h2[p] = 1
      BY <2>1, <3>2, <1>4
    <3>4. Chained(m2, T2, own2, l)
      <4>1. r # 0
        BY DEF NodePages
      <4>2. s - 1 \in own2[l] /\ s \in own2[r] /\ s \notin own2[l] /\ (s - 1) + 1 = s
        BY <1>3
      <4> QED BY <4>1, <4>2, <3>1, <1>8 DEF Chained
    <3>5. Chained(m2, T2, own2, r)
      <4>1. \A k \in own2[r] : k + 1 \in own2[r]
        <5> TAKE k \in own2[r]
        <5>1. k \in Int
          BY <1>3
        <5> QED BY <5>1, <1>3
      <4> QED BY <4>1, <3>1, <1>8 DEF Chained
    <3> QED BY <2>1, <3>1, <3>3, <3>4, <3>5
  <2>2. CASE p \in T
    <3>1. p \in T \ {RootPage} /\ p \in NodePages \ {l, r, RootPage}
      BY <2>2, <1>5, <1>9, <1>15
    <3>2. m[p].type = "leaf" /\ m2[p].link = m[p].link /\ own2[p] = own[p]
          /\ m2[p].cells = m[p].cells
      BY <3>1, <1>3, <1>6, <1>15
    <3>3. h[p] = 1 /\ Filled(m[p], own, p) /\ Chained(m, T, own, p)
      BY <3>1, <3>2, <1>1 DEF PageOK
    <3>4. root.type # "leaf"
      <4>1. h[p] < h[RootPage]
        BY <3>1, <1>9
      <4> QED BY <4>1, <3>3, <1>1, <1>2 DEF PageOK
    <3>5. Filled(m2[p], own2, p)
      BY <3>2, <3>3 DEF Filled
    <3>6. Chained(m2, T2, own2, p)
      <4>1. CASE m[p].link = 0
        BY <4>1, <3>2, <3>3 DEF Chained
      <4>2. CASE m[p].link # 0
        <5> DEFINE y == m[p].link
        <5>1. y \in T /\ m[y].type = "leaf"
              /\ \E k \in own[p] : k + 1 \in own[y] \ own[p]
          BY <4>2, <3>3 DEF Chained
        <5>2. y \in NodePages \ {l, r, RootPage}
          BY <5>1, <3>4, <1>9
        <5>3. m2[y].type = "leaf" /\ own2[y] = own[y]
          BY <5>1, <5>2, <1>3, <1>6
        <5> QED BY <5>1, <5>3, <4>2, <3>2 DEF Chained
      <4> QED BY <4>1, <4>2
    <3> QED BY <3>1, <3>3, <3>5, <3>6, <1>4
  <2> QED BY <2>1, <2>2
<1>16. ASSUME NEW p \in T2, m2[p].type = "internal"
       PROVE  Routed(m2[p], own2, p) /\ Parented(m2, T2, h2, p)
  <2>1. CASE p \in {l, r}
    BY <2>1, <1>7, <1>16
  <2>2. CASE p = RootPage
    <3>1. Parented(m2, T2, h2, RootPage)
      <4> SUFFICES ASSUME NEW i \in 1 .. Len(m2[RootPage].cells) + 1
                   PROVE  LET c == Child(m2[RootPage], i)
                          IN  /\ c \in T2 /\ c # RootPage /\ m2[c].parent = RootPage
                              /\ h2[RootPage] = h2[c] + 1
        BY DEF Parented
      <4>1. i = 1 \/ i = 2
        BY <1>5
      <4>2. Child(m2[RootPage], i) \in {l, r}
        BY <4>1, <1>5
      <4> QED BY <4>2, <1>2, <1>4, <1>7
    <3> QED BY <2>2, <3>1, <1>5
  <2>3. CASE p \in T \ {RootPage}
    <3>1. p \in NodePages \ {l, r, RootPage}
      BY <2>3, <1>9
    <3>2. m[p].type = "internal" /\ m2[p].cells = m[p].cells /\ own2[p] = own[p]
          /\ \A i : Child(m2[p], i) = Child(m[p], i)
      BY <3>1, <1>3, <1>6, <1>16
    <3>3. Routed(m[p], own, p) /\ Parented(m, T, h, p)
      BY <2>3, <3>2, <1>1 DEF PageOK
    <3>4. ASSUME NEW j \in 1 .. Len(m[p].cells) + 1
          PROVE  LET c == Child(m[p], j)
                 IN  /\ c \in T2 /\ c # RootPage /\ m2[c].parent = p /\ h2[p] = h2[c] + 1
                     /\ own2[c] = own[c]
      <4> DEFINE c == Child(m[p], j)
      <4>1. c \in T \ {RootPage} /\ m[c].parent = p /\ h[p] = h[c] + 1
        BY <3>3 DEF Parented
      <4> HIDE DEF c
      <4>2. c \in NodePages \ {l, r, RootPage}
        BY <4>1, <1>9
      <4>3. m2[c].parent = p
        BY <2>3, <4>1, <4>2, <1>6
      <4>4. h2[p] = h2[c] + 1 /\ own2[c] = own[c]
        BY <3>1, <4>1, <4>2, <1>3, <1>4
      <4> QED BY <4>1, <4>3, <4>4 DEF c
    <3>5. Routed(m2[p], own2, p)
      BY <3>2, <3>3, <3>4 DEF Routed, Between
    <3>6. Parented(m2, T2, h2, p)
      BY <3>2, <3>4 DEF Parented
    <3> QED BY <3>5, <3>6
  <2> QED BY <2>1, <2>2, <2>3
<1>17. \A p \in T2 : PageOK(m2, T2, own2, h2, p)
  BY <1>13, <1>14, <1>15, <1>16 DEF PageOK
<1> HIDE DEF T2
<1> QED BY <1>10, <1>11, <1>12, <1>17 DEF SearchTree, T2

-----------------------------------------------------------------------------
\* split_internal_node parts an over-full node p at its promoted key: both halves
\* are in order, whichever pages l and r they go to.
LEMMA HalvesRouted ==
  ASSUME NEW wide \in Internal, Len(wide.cells) = InternalMax + 1,
         NEW p, NEW own, Routed(wide, own, p), own[p] \subseteq Int, Convex(own[p]),
         NEW own2, NEW l, NEW r, NEW s, s = Promoted(wide),
         \A k \in Int : k \in own2[l] <=> k \in own[p] /\ k < s,
         \A k \in Int : k \in own2[r] <=> k \in own[p] /\ s <= k,
         \A i \in 1 .. Len(wide.cells) + 1 : own2[Child(wide, i)] = own[Child(wide, i)]
  PROVE  /\ s \in Keys \cup {0} /\ s \in own[p] /\ s - 1 \in own[p]
         /\ Routed(LowNode(wide), own2, l) /\ Routed(HighNode(wide), own2, r)
<1> DEFINE n == Len(wide.cells)
           low == LowNode(wide)
           high == HighNode(wide)
           mid == InternalMid
<1>1. /\ mid \in 1 .. InternalMax - 1
      /\ low \in Internal /\ Len(low.cells) = mid
      /\ high \in Internal /\ Len(high.cells) = InternalMax - mid
      /\ \A j \in 1 .. mid : low.cells[j].key = wide.cells[j].key
      /\ \A j \in 1 .. mid + 1 : Child(low, j) = Child(wide, j)
      /\ \A j \in 1 .. InternalMax - mid : high.cells[j].key = wide.cells[mid + 1 + j].key
      /\ \A j \in 1 .. InternalMax - mid + 1 : Child(high, j) = Child(wide, mid + 1 + j)
      /\ s = wide.cells[mid + 1].key
  BY HalvesCells
<1>2. s \in Keys \cup {0}
  BY InternalHalves
<1>3. /\ n = InternalMax + 1 /\ InternalMax \in Nat /\ s \in Int
      /\ \A j \in 1 .. n : wide.cells[j].key \in Int
  <2>1. InternalMax \in Nat /\ s \in Int
    BY <1>2, CapacityAssumption, KeysAssumption
  <2>2. \A j \in 1 .. n : wide.cells[j].key \in Int
    BY InternalFields
  <2> QED BY <2>1, <2>2
<1>4. /\ Ascends(wide.cells)
      /\ \A j \in 1 .. n : wide.cells[j].key \in own[p]
      /\ wide.cells[1].key - 1 \in own[p]
      /\ \A j \in 1 .. n + 1 : \A k \in Int :
           k \in own[Child(wide, j)] <=> k \in own[p] /\ Between(wide, j, k)
  BY DEF Routed
<1> HIDE DEF n, low, high, mid
<1>5. /\ mid + 1 \in 1 .. n /\ 1 \in 1 .. mid
      /\ \A j \in 1 .. mid : j \in 1 .. n /\ j < mid + 1
      /\ \A j \in 1 .. InternalMax - mid : mid + 1 + j \in 1 .. n /\ mid + 1 < mid + 1 + j
      /\ \A j \in 1 .. mid + 1 : j \in 1 .. n + 1
      /\ \A j \in 1 .. InternalMax - mid + 1 : mid + 1 + j \in 1 .. n + 1
  BY <1>1, <1>3
<1>6. \A j \in 1 .. mid : wide.cells[j].key < s
  <2> TAKE j \in 1 .. mid
  <2>1. j \in 1 .. n /\ mid + 1 \in 1 .. n /\ j < mid + 1
    BY <1>5
  <2> QED BY <2>1, <1>1, <1>4 DEF Ascends, n
<1>7. \A j \in 1 .. InternalMax - mid : s < wide.cells[mid + 1 + j].key
  <2> TAKE j \in 1 .. InternalMax - mid
  <2>1. PICK b \in 1 .. n : b = mid + 1 + j /\ mid + 1 < b
    BY <1>5
  <2>2. wide.cells[mid + 1].key < wide.cells[b].key
    BY <2>1, <1>4, <1>5 DEF Ascends, n
  <2> QED BY <2>1, <2>2, <1>1
<1>8. s \in own[p] /\ s - 1 \in own[p]
  <2>1. s \in own[p]
    BY <1>1, <1>4, <1>5
  <2>2. wide.cells[1].key \in Int /\ wide.cells[1].key < s
    BY <1>3, <1>5, <1>6
  <2>3. wide.cells[1].key - 1 <= s - 1 /\ s - 1 <= s /\ s - 1 \in Int
    BY <2>2, <1>3
  <2> QED BY <2>1, <2>3, <1>4 DEF Convex
<1>9. Routed(low, own2, l)
  <2>1. Ascends(low.cells)
    BY <1>1, <1>4, <1>5 DEF Ascends, n
  <2>2. \A j \in 1 .. mid : low.cells[j].key \in own2[l]
    BY <1>1, <1>3, <1>4, <1>5, <1>6
  <2>3. low.cells[1].key - 1 \in own2[l]
    <3>1. low.cells[1].key = wide.cells[1].key /\ wide.cells[1].key < s
          /\ wide.cells[1].key \in Int
      BY <1>1, <1>3, <1>5, <1>6
    <3>2. wide.cells[1].key - 1 \in Int /\ wide.cells[1].key - 1 < s
      BY <3>1, <1>3
    <3> QED BY <3>1, <3>2, <1>4
  <2>4. ASSUME NEW j \in 1 .. mid + 1, NEW k \in Int
        PROVE  k \in own2[Child(low, j)] <=> k \in own2[l] /\ Between(low, j, k)
    <3>1. Child(low, j) = Child(wide, j) /\ j \in 1 .. n + 1
      BY <1>1, <1>5
    <3>2. k \in own2[Child(low, j)] <=> k \in own[p] /\ Between(wide, j, k)
      BY <3>1, <1>4 DEF n
    <3>3. Between(wide, j, k) <=> k < s /\ Between(low, j, k)
      <4>1. CASE j = mid + 1
        <5>1. j > 1 /\ j - 1 = mid /\ mid \in 1 .. mid /\ j <= n /\ ~ (j <= mid)
          BY <4>1, <1>1, <1>5
        <5>2. low.cells[j - 1].key = wide.cells[j - 1].key
          BY <5>1, <1>1
        <5>3. Between(wide, j, k) <=> wide.cells[j - 1].key <= k /\ k < s
          BY <5>1, <4>1, <1>1 DEF Between, n
        <5>4. Between(low, j, k) <=> low.cells[j - 1].key <= k
          BY <5>1, <1>1 DEF Between
        <5> QED BY <5>2, <5>3, <5>4
      <4>2. CASE j \in 1 .. mid
        <5>1. j \in 1 .. n /\ j <= n /\ j <= mid /\ (j > 1 => j - 1 \in 1 .. mid)
          BY <4>2, <1>1, <1>5
        <5>2. low.cells[j].key = wide.cells[j].key
          BY <4>2, <1>1
        <5>3. j > 1 => low.cells[j - 1].key = wide.cells[j - 1].key
          BY <5>1, <1>1
        <5>4. Between(wide, j, k) <=> Between(low, j, k)
          BY <5>1, <5>2, <5>3, <1>1 DEF Between, n
        <5>5. Between(wide, j, k) => k < wide.cells[j].key
          BY <5>1 DEF Between, n
        <5>6. k < wide.cells[j].key => k < s
          <6>1. wide.cells[j].key \in Int /\ wide.cells[j].key < s
            BY <4>2, <5>1, <1>3, <1>6
          <6> QED BY <6>1, <1>3
        <5> QED BY <5>4, <5>5, <5>6
      <4>3. j = mid + 1 \/ j \in 1 .. mid
        BY <1>1
      <4> QED BY <4>1, <4>2, <4>3
    <3> QED BY <3>2, <3>3
  <2>5. Len(low.cells) >= 1
    BY <1>1
  <2> QED BY <2>1, <2>2, <2>3, <2>4, <2>5, <1>1 DEF Routed
<1>10. Routed(high, own2, r)
  <2> DEFINE w == InternalMax - mid
  <2>0. w \in Nat /\ w >= 1 /\ 1 \in 1 .. w
    BY <1>1, <1>3
  <2>1. Ascends(high.cells)
    <3> SUFFICES ASSUME NEW a \in 1 .. w, NEW b \in 1 .. w, a < b
                 PROVE  high.cells[a].key < high.cells[b].key
      BY <1>1 DEF Ascends
    <3>1. PICK c \in 1 .. n : c = mid + 1 + a
      BY <1>5
    <3>2. PICK d \in 1 .. n : d = mid + 1 + b
      BY <1>5
    <3>3. c < d
      BY <3>1, <3>2, <1>1
    <3>4. high.cells[a].key = wide.cells[c].key /\ high.cells[b].key = wide.cells[d].key
      BY <3>1, <3>2, <1>1
    <3> QED BY <3>3, <3>4, <1>4 DEF Ascends, n
  <2>2. ASSUME NEW j \in 1 .. w
        PROVE  high.cells[j].key \in own2[r] /\ high.cells[j].key \in own[p]
               /\ high.cells[j].key \in Int /\ s < high.cells[j].key
    <3>1. PICK c \in 1 .. n : c = mid + 1 + j
      BY <1>5
    <3>2. high.cells[j].key = wide.cells[c].key /\ s < wide.cells[c].key
      BY <3>1, <1>1, <1>7
    <3>3. s <= wide.cells[c].key
      BY <3>2, <1>3
    <3> QED BY <3>2, <3>3, <1>3, <1>4
  <2>3. high.cells[1].key - 1 \in own2[r]
    <3> DEFINE key == high.cells[1].key
    <3>1. key \in own[p] /\ key \in Int /\ s < key
      BY <2>0, <2>2
    <3> HIDE DEF key
    <3>2. s <= key - 1 /\ key - 1 <= key /\ key - 1 \in Int
      BY <3>1, <1>3
    <3>3. key - 1 \in own[p]
      BY <3>1, <3>2, <1>8 DEF Convex
    <3> QED BY <3>2, <3>3 DEF key
  <2>4. ASSUME NEW j \in 1 .. w + 1, NEW k \in Int
        PROVE  k \in own2[Child(high, j)] <=> k \in own2[r] /\ Between(high, j, k)
    <3>1. PICK c \in 1 .. n + 1 : c = mid + 1 + j
      BY <1>5
    <3>2. Child(high, j) = Child(wide, c)
      BY <3>1, <1>1
    <3>3. k \in own2[Child(high, j)] <=> k \in own[p] /\ Between(wide, c, k)
      BY <3>2, <1>4 DEF n
    <3>4. (c <= n <=> j <= w) /\ c > 1 /\ c - 1 = mid + j
      <4>1. mid \in Int /\ j \in Int /\ c \in Int /\ mid >= 1 /\ j >= 1 /\ n = InternalMax + 1
            /\ InternalMax \in Int /\ w = InternalMax - mid /\ c = mid + 1 + j
        BY <2>0, <3>1, <1>1, <1>3
      <4> HIDE DEF w
      <4>2. c > 1 /\ c - 1 = mid + j
        BY <4>1
      <4>3. c <= n <=> j <= w
        BY <4>1
      <4> QED BY <4>2, <4>3
    <3>5. j <= w => high.cells[j].key = wide.cells[c].key
      <4> SUFFICES ASSUME j <= w PROVE high.cells[j].key = wide.cells[c].key
        OBVIOUS
      <4>1. j \in 1 .. w
        BY <2>0
      <4> QED BY <4>1, <3>1, <1>1
    <3>6. Between(wide, c, k) <=> s <= k /\ Between(high, j, k)
      <4>1. CASE j = 1
        <5>1. c - 1 = mid + 1
          BY <4>1, <3>1, <1>1
        <5>2. Between(wide, c, k) <=> s <= k /\ (c <= n => k < wide.cells[c].key)
          BY <5>1, <3>4, <1>1 DEF Between, n
        <5>3. Between(high, j, k) <=> (j <= w => k < high.cells[j].key)
          BY <4>1, <1>1 DEF Between
        <5> QED BY <5>2, <5>3, <3>4, <3>5
      <4>2. CASE j # 1
        <5>1. PICK a \in 1 .. w : a = j - 1 /\ mid + 1 + a = c - 1
          <6>1. j - 1 \in 1 .. w /\ mid + 1 + (j - 1) = c - 1
            BY <4>2, <2>0, <3>1, <1>1
          <6> QED BY <6>1
        <5>2. high.cells[a].key = wide.cells[c - 1].key /\ s < high.cells[a].key
              /\ high.cells[a].key \in Int
          BY <5>1, <2>2, <1>1
        <5>3. Between(wide, c, k) <=>
                high.cells[a].key <= k /\ (c <= n => k < wide.cells[c].key)
          BY <5>2, <3>4 DEF Between, n
        <5>4. j > 1
          BY <4>2, <2>0
        <5>5. Between(high, j, k) <=>
                high.cells[a].key <= k /\ (j <= w => k < high.cells[j].key)
          BY <5>1, <5>4, <1>1 DEF Between
        <5>6. high.cells[a].key <= k => s <= k
          BY <5>2, <1>3
        <5> QED BY <5>3, <5>5, <5>6, <3>4, <3>5
      <4> QED BY <4>1, <4>2
    <3> QED BY <3>3, <3>6
  <2> QED BY <2>0, <2>1, <2>2, <2>3, <2>4, <1>1 DEF Routed
<1> QED BY <1>2, <1>8, <1>9, <1>10 DEF low, high

-----------------------------------------------------------------------------
\* The pages, with the separator that is on its way up counted in.
View == IF pc = "separator" THEN [mem EXCEPT ![at] = WithSeparator(@, sep)] ELSE mem

Before(own, q, p) == \A x \in own[q] : \A y \in own[p] : x < y

\* A leaf that a DELETE or an UPDATE is through with.
Done(cells) ==
  \A i \in 1 .. Len(cells) :
    cells[i] \in stmt.where => stmt.op = "update" /\ cells[i].row = stmt.row

\* The page a statement is at is one of the tree: on the way down to a key, one that
\* owns it; on the way to the first leaf, one that owns all the smallest keys; on the
\* way along the leaves, one that has only leaves behind it that are done.
Placed(T, own) ==
  /\ pc # "idle" => at \in T
  /\ pc = "descend" => stmt.key \in own[at]
  /\ pc = "first_leaf" => \A k \in own[at] : k - 1 \in own[at]
  /\ pc = "walk" => \A q \in T : mem[q].type = "leaf" /\ Before(own, q, at) => Done(mem[q].cells)

TreeAt(T, own, h) == SearchTree(View, numPages, T, own, h) /\ Placed(T, own)

\* The inductive invariant: the pages in use are a search tree, and so are the pages
\* of the file, for which a crash may make the program start over.
TreeInv ==
  /\ result.code # "error" => \E T, own, h : TreeAt(T, own, h)
  /\ \E T, own, h : SearchTree(disk, filePages, T, own, h)

\* Nothing is lost from the parent pointers by flushing only the dirty pages.  Where a
\* statement has split an internal node, this need not hold.
ParentsSaved == \A p \in NodePages \ dirty : mem[p] = disk[p]

\* A step from the tree T leads to a tree whose empty leaves were leaves of T, and own
\* the keys that they owned there.
KeptEmpty(T, own, T2, own2) ==
  \A p \in T2 : mem'[p].type = "leaf" /\ mem'[p].cells = <<>> =>
                  p \in T /\ mem[p].type = "leaf" /\ own2[p] = own[p]

Onward(T, own) == \E T2, own2, h2 : TreeAt(T2, own2, h2)' /\ KeptEmpty(T, own, T2, own2)

LEMMA ViewPages ==
  ASSUME IInv
  PROVE  /\ mem \in [NodePages -> LeafNode \cup InternalNode]
         /\ pc # "separator" => View = mem
         /\ LeafNode \cup InternalNode \subseteq Leaf \cup Internal
         /\ mem \in [NodePages -> Leaf \cup Internal]
<1>1. mem \in [NodePages -> LeafNode \cup InternalNode]
  BY DEF IInv, TypeOK
<1>2. LeafNode \cup InternalNode \subseteq Leaf \cup Internal
  BY DEF LeafNode, InternalNode
<1> QED BY <1>1, <1>2 DEF View

\* While a statement runs there is a tree.
LEMMA RunningTree ==
  ASSUME IInv, TreeInv, pc # "idle"
  PROVE  \E T, own, h : TreeAt(T, own, h) /\ at \in T
<1>1. result.code # "error"
  BY DEF IInv, StepInv
<1> QED BY <1>1 DEF TreeInv, TreeAt, Placed

\* A step that keeps the pages and goes on to another page.
LEMMA TreeMove ==
  ASSUME IInv, NEW T, NEW own, NEW h, TreeAt(T, own, h),
         UNCHANGED <<pager, session>>, pc # "separator", pc' # "separator", Placed(T, own)'
  PROVE  Onward(T, own)
<1>1. mem' = mem /\ numPages' = numPages
  BY DEF pager
<1>2. View = mem /\ View' = mem
  BY <1>1 DEF View
<1>3. SearchTree(View', numPages', T, own, h)
  BY <1>1, <1>2 DEF TreeAt
<1>4. KeptEmpty(T, own, T, own)
  BY <1>1 DEF KeptEmpty
<1> QED BY <1>3, <1>4 DEF Onward, TreeAt

LEMMA InitTree == Init => TreeInv
<1> SUFFICES ASSUME Init PROVE TreeInv
  OBVIOUS
<1> DEFINE T == {RootPage}
           own == [p \in NodePages |-> Int]
           h == [p \in NodePages |-> 1]
<1>1. IInv /\ mem = disk /\ numPages = filePages /\ pc = "idle"
  BY InitInv DEF Init
<1>2. /\ filePages \in Nat /\ filePages >= 2 /\ RootPage \in 1 .. filePages - 1
      /\ RootPage \in NodePages
  <2>1. filePages \in 2 .. MaxPages
    BY <1>1 DEF IInv, TypeOK
  <2> QED BY <2>1, CapacityAssumption, PagesAreNodePages DEF RootPage
<1>3. /\ disk = [p \in NodePages |-> IF p < filePages THEN NewLeaf(0) ELSE ZeroPage]
      /\ disk \in [NodePages -> Leaf \cup Internal]
  BY <1>1, ViewPages DEF Init
<1>4. \A p \in NodePages : Empty(disk[p])
  BY <1>3 DEF Empty, NewLeaf, ZeroPage
<1>5. disk[RootPage].root
  <2>1. RootPage < filePages
    BY <1>2
  <2> QED BY <2>1, <1>2, <1>3 DEF NewLeaf, ZeroPage
<1>6. Typed(disk, filePages, T, own, h)
  BY <1>2, <1>3 DEF Typed
<1>7. PageOK(disk, T, own, h, RootPage)
  <2>1. disk[RootPage].type = "leaf" /\ disk[RootPage].cells = <<>> /\ disk[RootPage].link = 0
    BY <1>2, <1>4 DEF Empty
  <2>2. Filled(disk[RootPage], own, RootPage)
    <3>1. Len(disk[RootPage].cells) = 0
      BY <2>1
    <3>2. 1 .. 0 = {}
      OBVIOUS
    <3> QED BY <3>1, <3>2 DEF Filled, Ascends
  <2>3. Chained(disk, T, own, RootPage)
    BY <2>1, <1>2 DEF Chained
  <2>4. own[RootPage] # {} /\ Convex(own[RootPage]) /\ h[RootPage] = 1
    BY <1>2 DEF Convex
  <2> QED BY <2>1, <2>2, <2>3, <2>4, <1>5 DEF PageOK, Rooted
<1>8. SearchTree(disk, filePages, T, own, h)
  <2>1. Disjoint(T, own, h)
    BY DEF Disjoint
  <2> HIDE DEF own, h
  <2> QED BY <2>1, <1>4, <1>6, <1>7 DEF SearchTree
<1>9. View = disk
  BY <1>1 DEF View
<1>10. Placed(T, own)
  BY <1>1 DEF Placed
<1> HIDE DEF T, own, h
<1> QED BY <1>1, <1>8, <1>9, <1>10 DEF TreeInv, TreeAt

LEMMA BeginTree ==
  ASSUME IInv, NEW s \in Statements, NEW step \in {"descend", "first_leaf"},
         Begin(s, step), step = "descend" => s.op \in {"insert", "select"},
         NEW T, NEW own, NEW h, TreeAt(T, own, h)
  PROVE  Onward(T, own)
<1>1. /\ pc = "idle" /\ result.code # "error" /\ stmt' = s /\ pc' = step /\ at' = RootPage
      /\ UNCHANGED <<pager, session>>
  BY DEF Begin
<1>3. RootPage \in T /\ own[RootPage] = Int
  BY DEF TreeAt, SearchTree, Typed
<1>4. step = "descend" => s.key \in Int
  BY KeysAssumption DEF Statements
<1>5. Placed(T, own)'
  <2>1. step = "descend" => s.key \in own[RootPage]
    BY <1>3, <1>4
  <2>2. \A k \in own[RootPage] : k - 1 \in own[RootPage]
    BY <1>3
  <2> QED BY <2>1, <2>2, <1>1, <1>3 DEF Placed
<1> QED BY <1>1, <1>5, TreeMove

LEMMA BeginsTree ==
  ASSUME IInv, BeginInsert \/ BeginSelect \/ BeginDelete \/ BeginUpdate,
         NEW T, NEW own, NEW h, TreeAt(T, own, h)
  PROVE  Onward(T, own)
<1>1. CASE BeginInsert
  <2>1. PICK k \in Keys, r \in Rows : Begin([op |-> "insert", key |-> k, row |-> r], "descend")
    BY <1>1 DEF BeginInsert
  <2>2. [op |-> "insert", key |-> k, row |-> r] \in Statements
    BY DEF Statements
  <2> QED BY <2>1, <2>2, BeginTree
<1>2. CASE BeginSelect
  <2>1. PICK k \in Keys : Begin([op |-> "select", key |-> k], "descend")
    BY <1>2 DEF BeginSelect
  <2>2. [op |-> "select", key |-> k] \in Statements
    BY DEF Statements
  <2> QED BY <2>1, <2>2, BeginTree
<1>3. CASE BeginDelete
  <2>1. PICK w \in Wheres : Begin([op |-> "delete", where |-> w], "first_leaf")
    BY <1>3 DEF BeginDelete
  <2>2. [op |-> "delete", where |-> w] \in Statements
    BY DEF Statements
  <2> QED BY <2>1, <2>2, BeginTree
<1>4. CASE BeginUpdate
  <2>1. PICK w \in Wheres, r \in Rows :
          Begin([op |-> "update", where |-> w, row |-> r], "first_leaf")
    BY <1>4 DEF BeginUpdate
  <2>2. [op |-> "update", where |-> w, row |-> r] \in Statements
    BY DEF Statements
  <2> QED BY <2>1, <2>2, BeginTree
<1> QED BY <1>1, <1>2, <1>3, <1>4

LEMMA DescendTree ==
  ASSUME IInv, TreeInv, Descend,
         NEW T, NEW own, NEW h, TreeAt(T, own, h)
  PROVE  Onward(T, own)
<1>1. /\ pc = "descend" /\ mem[at].type = "internal" /\ at' = ChildFor(mem[at], stmt.key)
      /\ UNCHANGED <<pager, session>> /\ pc' = pc /\ stmt' = stmt
  BY DEF Descend
<1>2. TreeAt(T, own, h) /\ at \in T
  BY <1>1 DEF TreeAt, Placed
<1>3. SearchTree(mem, numPages, T, own, h) /\ stmt.key \in own[at]
  BY <1>1, <1>2, ViewPages DEF TreeAt, Placed
<1>4. at' \in T /\ stmt.key \in own[at']
  BY <1>1, <1>2, <1>3, RouteDown
<1>5. Placed(T, own)'
  BY <1>1, <1>4 DEF Placed
<1> QED BY <1>1, <1>2, <1>5, TreeMove

\* What a convex set of integers owns that has no least or no greatest member.
LEMMA AllBelow ==
  ASSUME NEW S \in SUBSET Int, \A k \in S : k - 1 \in S, NEW y \in S, NEW x \in Int, x <= y
  PROVE  x \in S
<1> DEFINE Bad == {n \in Nat : y - n \notin S}
<1>1. CASE Bad = {}
  <2>1. y - x \in Nat /\ y - (y - x) = x
    OBVIOUS
  <2> QED BY <1>1, <2>1
<1>2. CASE Bad # {}
  <2>1. PICK n \in Bad : \A m \in Bad : n <= m
    BY <1>2, LeastNumber
  <2>2. n \in Nat /\ y - n \notin S
    BY <2>1
  <2>3. n # 0
    BY <2>2
  <2>4. n - 1 \in Nat /\ ~ (n <= n - 1)
    BY <2>2, <2>3
  <2>5. y - (n - 1) \in S
    BY <2>1, <2>4
  <2>6. (y - (n - 1)) - 1 = y - n
    BY <2>2
  <2> QED BY <2>2, <2>5, <2>6
<1> QED BY <1>1, <1>2

LEMMA AllAbove ==
  ASSUME NEW S \in SUBSET Int, \A k \in S : k + 1 \in S, NEW y \in S, NEW x \in Int, y <= x
  PROVE  x \in S
<1> DEFINE Neg == {z \in Int : - z \in S}
<1>1. \A k \in Neg : k - 1 \in Neg
  <2> TAKE k \in Neg
  <2>1. k \in Int /\ (- k) + 1 \in S
    OBVIOUS
  <2>2. - (k - 1) = (- k) + 1
    BY <2>1
  <2> QED BY <2>1, <2>2
<1>2. - (- y) = y /\ - y \in Neg /\ - x \in Int /\ - x <= - y
  OBVIOUS
<1> HIDE DEF Neg
<1>3. - x \in Neg
  <2>1. Neg \in SUBSET Int
    BY DEF Neg
  <2> QED BY <1>1, <1>2, <2>1, AllBelow
<1>4. - (- x) = x
  OBVIOUS
<1> QED BY <1>3, <1>4 DEF Neg

\* Leaves lie one before the other.
LEMMA LeavesOrdered ==
  ASSUME NEW m, NEW count, NEW T, NEW own, NEW h, SearchTree(m, count, T, own, h),
         NEW p \in T, NEW q \in T, m[p].type = "leaf", m[q].type = "leaf", p # q
  PROVE  Before(own, p, q) \/ Before(own, q, p)
<1>1. /\ own[p] # {} /\ own[p] \subseteq Int /\ Convex(own[p]) /\ h[p] = 1
      /\ own[q] # {} /\ own[q] \subseteq Int /\ Convex(own[q]) /\ h[q] = 1
  BY DEF SearchTree, PageOK, Typed
<1>2. \A k \in Int : ~ (k \in own[p] /\ k \in own[q])
  BY <1>1 DEF SearchTree, Disjoint
<1>3. PICK a \in own[p], b \in own[q] : a # b
  <2>1. PICK a \in own[p] : a \in Int
    BY <1>1
  <2>2. PICK b \in own[q] : b \in Int
    BY <1>1
  <2>3. a # b
    BY <2>1, <2>2, <1>2
  <2> QED BY <2>3
<1>4. ASSUME NEW A \in SUBSET Int, NEW B \in SUBSET Int, Convex(A), Convex(B),
             \A k \in Int : ~ (k \in A /\ k \in B), NEW c \in A, NEW d \in B, c < d
      PROVE  \A x \in A : \A y \in B : x < y
  <2> SUFFICES ASSUME NEW x \in A, NEW y \in B PROVE x < y
    OBVIOUS
  <2>1. x < d
    <3>1. SUFFICES ASSUME d <= x PROVE FALSE
      OBVIOUS
    <3>2. d \in A
      BY <3>1, <1>4 DEF Convex
    <3> QED BY <3>2, <1>4
  <2>2. SUFFICES ASSUME y <= x PROVE FALSE
    OBVIOUS
  <2>3. x \in B
    BY <2>1, <2>2, <1>4 DEF Convex
  <2> QED BY <2>3, <1>4
<1>5. CASE a < b
  BY <1>1, <1>2, <1>4, <1>5 DEF Before
<1>6. CASE b < a
  BY <1>1, <1>2, <1>4, <1>6 DEF Before
<1> QED BY <1>1, <1>3, <1>5, <1>6

\* The leaves before the one that follows p are p and those before it.
LEMMA NextLeafAdds ==
  ASSUME NEW m, NEW count, NEW T, NEW own, NEW h, SearchTree(m, count, T, own, h),
         NEW p \in T, m[p].type = "leaf", m[p].link # 0
  PROVE  /\ m[p].link \in T /\ m[m[p].link].type = "leaf" /\ Before(own, p, m[p].link)
         /\ \A q \in T : m[q].type = "leaf" /\ Before(own, q, m[p].link) =>
              q = p \/ Before(own, q, p)
<1> DEFINE r == m[p].link
<1>1. PageOK(m, T, own, h, p) /\ Chained(m, T, own, p)
  BY DEF SearchTree, PageOK
<1>2. r \in T /\ m[r].type = "leaf"
  BY <1>1 DEF Chained
<1>3. PICK k \in own[p] : k + 1 \in own[r] \ own[p]
  BY <1>1 DEF Chained
<1>4. \A q \in T : own[q] \subseteq Int /\ own[q] # {}
  BY DEF SearchTree, Typed, PageOK
<1> HIDE DEF r
<1>5. r # p /\ k \in Int /\ k + 1 \in Int
  BY <1>3, <1>4
<1>6. Before(own, p, r)
  <2>1. ~ Before(own, r, p)
    BY <1>3, <1>5 DEF Before
  <2> QED BY <2>1, <1>2, <1>5, LeavesOrdered
<1>7. ASSUME NEW q \in T, m[q].type = "leaf", Before(own, q, r), q # p
      PROVE  Before(own, q, p)
  <2>1. SUFFICES ASSUME Before(own, p, q) PROVE FALSE
    BY <1>7, LeavesOrdered
  <2>2. PICK x \in own[q] : x \in Int
    BY <1>4
  <2>3. k < x /\ x < k + 1
    BY <2>1, <2>2, <1>3, <1>7 DEF Before
  <2> QED BY <2>2, <2>3, <1>5
<1> QED BY <1>2, <1>6, <1>7 DEF r

\* No leaf lies behind the last one.
LEMMA LastLeafLast ==
  ASSUME NEW m, NEW count, NEW T, NEW own, NEW h, SearchTree(m, count, T, own, h),
         NEW p \in T, m[p].type = "leaf", m[p].link = 0, NEW q \in T, m[q].type = "leaf"
  PROVE  q = p \/ Before(own, q, p)
<1>1. \A k \in own[p] : k + 1 \in own[p]
  BY DEF SearchTree, PageOK, Chained
<1>2. own[p] \in SUBSET Int /\ own[p] # {} /\ own[q] \in SUBSET Int /\ own[q] # {}
  BY DEF SearchTree, Typed, PageOK
<1>3. ASSUME Before(own, p, q) PROVE FALSE
  <2>1. PICK x \in own[q], y \in own[p] : x \in Int /\ y \in Int
    BY <1>2
  <2>2. y < x
    BY <2>1, <1>3 DEF Before
  <2>3. x \in own[p]
    BY <2>1, <2>2, <1>1, <1>2, AllAbove
  <2> QED BY <2>1, <2>3, <1>3 DEF Before
<1> QED BY <1>3, LeavesOrdered

\* The way to the first leaf goes by the pages that own all the smallest keys.
LEMMA FirstChildOwns ==
  ASSUME NEW m, NEW count, NEW T, NEW own, NEW h, SearchTree(m, count, T, own, h),
         NEW p \in T, m[p].type = "internal", \A k \in own[p] : k - 1 \in own[p]
  PROVE  LET c == m[p].cells[1].child
         IN  c \in T /\ \A k \in own[c] : k - 1 \in own[c]
<1> DEFINE c == Child(m[p], 1)
<1>1. PageOK(m, T, own, h, p) /\ Typed(m, count, T, own, h)
  BY DEF SearchTree
<1>2. /\ Routed(m[p], own, p) /\ Parented(m, T, h, p)
      /\ m[p] \in Internal /\ own[p] \subseteq Int
  BY <1>1, PageTypes DEF PageOK, Typed
<1>3. /\ 1 \in 1 .. Len(m[p].cells) + 1 /\ 1 # Len(m[p].cells) + 1
      /\ 1 <= Len(m[p].cells) /\ m[p].cells[1].key \in Int
  <2>1. Len(m[p].cells) \in Nat /\ Len(m[p].cells) >= 1
    BY <1>2, InternalFields DEF Routed
  <2>2. 1 \in 1 .. Len(m[p].cells)
    BY <2>1
  <2> QED BY <2>1, <2>2, <1>2, InternalFields
<1>4. m[p].cells[1].child = c
  BY <1>3 DEF Child
<1>5. c \in T /\ own[c] \subseteq Int
  BY <1>1, <1>2, <1>3 DEF Parented, Typed
<1>6. \A k \in Int : k \in own[c] <=> k \in own[p] /\ k < m[p].cells[1].key
  BY <1>2, <1>3 DEF Routed, Between
<1> HIDE DEF c
<1>7. \A k \in own[c] : k - 1 \in own[c]
  <2> TAKE k \in own[c]
  <2>1. k \in Int /\ k - 1 \in Int /\ k < m[p].cells[1].key
    BY <1>5, <1>6
  <2>2. k - 1 < m[p].cells[1].key
    BY <2>1, <1>3
  <2> QED BY <2>1, <2>2, <1>6
<1> QED BY <1>4, <1>5, <1>7

\* No page of the tree comes before one that owns all the smallest keys.
LEMMA NoneBefore ==
  ASSUME NEW m, NEW count, NEW T, NEW own, NEW h, SearchTree(m, count, T, own, h),
         NEW p \in T, \A k \in own[p] : k - 1 \in own[p], NEW q \in T
  PROVE  ~ Before(own, q, p)
<1> SUFFICES ASSUME Before(own, q, p) PROVE FALSE
  OBVIOUS
<1>1. own[q] # {} /\ own[q] \subseteq Int /\ own[p] # {} /\ own[p] \subseteq Int
  BY DEF SearchTree, PageOK, Typed
<1>2. PICK x \in own[q], y \in own[p] : TRUE
  BY <1>1
<1>3. x \in own[p]
  <2>1. x \in Int /\ y \in Int /\ x <= y /\ own[p] \in SUBSET Int
    BY <1>1, <1>2 DEF Before
  <2> QED BY <1>2, <2>1, AllBelow
<1> QED BY <1>1, <1>2, <1>3 DEF Before

LEMMA ToFirstLeafTree ==
  ASSUME IInv, TreeInv, ToFirstLeaf,
         NEW T, NEW own, NEW h, TreeAt(T, own, h)
  PROVE  Onward(T, own)
<1>1. pc = "first_leaf" /\ UNCHANGED <<pager, session>>
  BY DEF ToFirstLeaf
<1>2. TreeAt(T, own, h) /\ at \in T
  BY <1>1 DEF TreeAt, Placed
<1>3. SearchTree(mem, numPages, T, own, h) /\ \A k \in own[at] : k - 1 \in own[at]
  BY <1>1, <1>2, ViewPages DEF TreeAt, Placed
<1>4. CASE mem[at].type = "internal"
  <2>1. at' = mem[at].cells[1].child /\ pc' = pc /\ stmt' = stmt
    BY <1>4 DEF ToFirstLeaf
  <2>2. at' \in T /\ \A k \in own[at'] : k - 1 \in own[at']
    BY <2>1, <1>2, <1>3, <1>4, FirstChildOwns
  <2>3. Placed(T, own)'
    BY <1>1, <2>1, <2>2 DEF Placed
  <2> QED BY <1>1, <1>2, <2>1, <2>3, TreeMove
<1>5. CASE mem[at].type # "internal"
  <2>1. pc' = "walk" /\ at' = at /\ stmt' = stmt
    BY <1>5 DEF ToFirstLeaf
  <2>2. \A q \in T : ~ Before(own, q, at)
    BY <1>2, <1>3, NoneBefore
  <2>3. Placed(T, own)'
    BY <1>1, <1>2, <2>1, <2>2 DEF Placed, pager
  <2> QED BY <1>1, <1>2, <2>1, <2>3, TreeMove
<1> QED BY <1>4, <1>5

\* A statement that ends leaves the tree as it is.
LEMMA QuietTree ==
  ASSUME IInv, pc \in {"descend", "walk"}, NEW code, NEW rows, Finish(code, rows),
         UNCHANGED <<pager, session>>, NEW T, NEW own, NEW h, TreeAt(T, own, h)
  PROVE  Onward(T, own)
<1>2. pc' = "idle"
  BY DEF Finish
<1>3. Placed(T, own)'
  BY <1>2 DEF Placed
<1> QED BY <1>2, <1>3, TreeMove

LEMMA QuietsTree ==
  ASSUME IInv, TreeInv, Lookup \/ Duplicate \/ NoPageForLeaf,
         NEW T, NEW own, NEW h, TreeAt(T, own, h)
  PROVE  Onward(T, own)
<1>1. pc = "descend" /\ UNCHANGED <<pager, session>>
  BY DEF Lookup, Duplicate, NoPageForLeaf, AtFullLeaf, AtInsertLeaf
<1>2. \E code, rows : Finish(code, rows)
  BY DEF Lookup, Duplicate, NoPageForLeaf
<1> QED BY <1>1, <1>2, QuietTree

\* The leaf that follows one of the tree is one of the tree, and the leaves behind it
\* are done if the one that is left is.
LEMMA NextLeafPlaced ==
  ASSUME IInv, NEW T, NEW own, NEW h, SearchTree(mem, numPages, T, own, h), at \in T,
         pc = "walk", NextLeaf, Placed(T, own), Done(mem'[at].cells),
         \A q \in T : q # at => mem'[q] = mem[q], mem'[at].type = mem[at].type
  PROVE  pc' # "separator" /\ Placed(T, own)'
<1>1. CASE mem[at].link # 0
  <2>1. at' = mem[at].link /\ pc' = "walk" /\ stmt' = stmt
    BY <1>1 DEF NextLeaf
  <2>2. mem[at].type = "leaf"
    BY StepFacts
  <2>3. /\ mem[at].link \in T
        /\ \A q \in T : mem[q].type = "leaf" /\ Before(own, q, mem[at].link) =>
             q = at \/ Before(own, q, at)
    BY <1>1, <2>2, NextLeafAdds
  <2>4. ASSUME NEW q \in T, mem'[q].type = "leaf", Before(own, q, at')
        PROVE  Done(mem'[q].cells)
    <3>1. mem[q].type = "leaf"
      BY <2>4
    <3>2. q = at \/ Before(own, q, at)
      BY <3>1, <2>1, <2>3, <2>4
    <3>3. q = at \/ Done(mem[q].cells)
      BY <3>1, <3>2 DEF Placed
    <3> QED BY <3>3
  <2> QED BY <2>1, <2>3, <2>4 DEF Placed, Done
<1>2. CASE mem[at].link = 0
  <2>1. pc' = "idle"
    BY <1>2 DEF NextLeaf, Finish
  <2> QED BY <2>1 DEF Placed
<1> QED BY <1>1, <1>2

LEMMA DeleteNextTree ==
  ASSUME IInv, TreeInv, DeleteNext,
         NEW T, NEW own, NEW h, TreeAt(T, own, h)
  PROVE  Onward(T, own)
<1>1. /\ pc = "walk" /\ NextLeaf /\ UNCHANGED <<pager, session>> /\ mem' = mem
      /\ Matches(mem[at].cells) = {}
  BY DEF DeleteNext, pager
<1>2. TreeAt(T, own, h) /\ at \in T
  BY <1>1 DEF TreeAt, Placed
<1>3. SearchTree(mem, numPages, T, own, h) /\ Placed(T, own)
  BY <1>1, <1>2, ViewPages DEF TreeAt
<1>4. Done(mem[at].cells)
  BY <1>1 DEF Done, Matches
<1>5. pc' # "separator" /\ Placed(T, own)'
  BY <1>1, <1>2, <1>3, <1>4, NextLeafPlaced
<1> QED BY <1>1, <1>2, <1>5, TreeMove

-----------------------------------------------------------------------------
\* A step that writes pages, and ends its statement or hands a separator on.
LEMMA TreeAgain ==
  ASSUME pc' \in {"idle", "separator"}, NEW T, NEW own,
         \E T2, own2, h2 : /\ SearchTree(View', numPages', T2, own2, h2)
                           /\ pc' # "idle" => at' \in T2
                           /\ KeptEmpty(T, own, T2, own2)
  PROVE  Onward(T, own)
<1>1. PICK T2, own2, h2 : /\ SearchTree(View', numPages', T2, own2, h2)
                          /\ pc' # "idle" => at' \in T2
                          /\ KeptEmpty(T, own, T2, own2)
  OBVIOUS
<1>2. Placed(T2, own2)'
  BY <1>1 DEF Placed
<1> QED BY <1>1, <1>2 DEF Onward, TreeAt

\* The leaf a statement is at, and what is known of it.
LEMMA LeafAt ==
  ASSUME IInv, pc \in {"descend", "walk"}, mem[at].type = "leaf",
         NEW T, NEW own, NEW h, TreeAt(T, own, h)
  PROVE  /\ mem[at].cells \in Seq(LeafCell) /\ mem[at] \in Leaf /\ at \in NodePages
         /\ mem \in [NodePages -> Leaf \cup Internal]
         /\ SearchTree(mem, numPages, T, own, h) /\ Placed(T, own) /\ at \in T
         /\ Filled(mem[at], own, at) /\ own[at] \subseteq Int /\ Convex(own[at])
         /\ h[at] = 1
<1>1. at \in T
  BY DEF TreeAt, Placed
<1>2. SearchTree(mem, numPages, T, own, h) /\ Placed(T, own)
  BY ViewPages DEF TreeAt
<1>3. /\ mem[at] \in LeafNode /\ at \in NodePages
      /\ mem \in [NodePages -> Leaf \cup Internal]
  BY StepFacts, ViewPages
<1>4. PageOK(mem, T, own, h, at) /\ Typed(mem, numPages, T, own, h)
  BY <1>1, <1>2 DEF SearchTree
<1>5. /\ Filled(mem[at], own, at) /\ own[at] \subseteq Int /\ Convex(own[at])
      /\ h[at] = 1
  BY <1>3, <1>4 DEF PageOK, Typed
<1> QED BY <1>1, <1>2, <1>3, <1>5 DEF LeafNode, Leaf

LEMMA LeafOfTree ==
  ASSUME IInv, TreeInv, pc \in {"descend", "walk"}, mem[at].type = "leaf"
  PROVE  /\ mem[at].cells \in Seq(LeafCell) /\ mem[at] \in Leaf /\ at \in NodePages
         /\ mem \in [NodePages -> Leaf \cup Internal]
         /\ \E T, own, h :
              /\ SearchTree(mem, numPages, T, own, h) /\ Placed(T, own) /\ at \in T
              /\ Filled(mem[at], own, at) /\ own[at] \subseteq Int /\ Convex(own[at])
              /\ h[at] = 1
<1>1. PICK T, own, h : TreeAt(T, own, h)
  BY RunningTree
<1> QED BY <1>1, LeafAt

LEMMA LeafWritten ==
  ASSUME IInv, pc \in {"descend", "walk"}, mem[at].type = "leaf",
         NEW T, NEW own, NEW h, TreeAt(T, own, h),
         NEW cells \in Seq(LeafCell), Ascends(cells),
         \A i \in 1 .. Len(cells) : cells[i].key \in own[at],
         NEW marked, Write([mem EXCEPT ![at].cells = cells], marked, numPages),
         pc' # "separator", Placed(T, own)'
  PROVE  Onward(T, own)
<1>1. mem' = [mem EXCEPT ![at].cells = cells] /\ numPages' = numPages
  BY DEF Write
<1>2. /\ mem \in [NodePages -> Leaf \cup Internal] /\ at \in NodePages /\ mem[at] \in Leaf
      /\ SearchTree(mem, numPages, T, own, h) /\ at \in T
  BY LeafAt
<1> DEFINE leaf == [mem[at] EXCEPT !.cells = cells]
<1>3. /\ leaf \in Leaf /\ leaf.type = "leaf" /\ leaf.root = mem[at].root
      /\ leaf.parent = mem[at].parent /\ leaf.link = mem[at].link /\ leaf.cells = cells
  BY <1>2 DEF Leaf
<1>4. mem'[at] = leaf /\ \A p \in NodePages : p # at => mem'[p] = mem[p]
  BY <1>1, <1>2
<1> HIDE DEF leaf
<1>5. mem' \in [NodePages -> Leaf \cup Internal]
  BY <1>1, <1>2, <1>3, <1>4
<1>6. Filled(leaf, own, at)
  BY <1>3 DEF Filled
<1>7. SearchTree(mem', numPages, T, own, h)
  <2>1. \A p \in NodePages :
          \/ mem'[p] = mem[p]
          \/ /\ p \in T /\ mem[p].type = "leaf" /\ mem'[p].type = "leaf"
             /\ mem'[p].root = mem[p].root /\ mem'[p].parent = mem[p].parent
             /\ mem'[p].link = mem[p].link /\ Filled(mem'[p], own, p)
    <3> TAKE p \in NodePages
    <3>1. CASE p = at
      BY <3>1, <1>2, <1>3, <1>4, <1>6
    <3>2. CASE p # at
      BY <3>2, <1>4
    <3> QED BY <3>1, <3>2
  <2> QED BY <2>1, <1>2, <1>5, LeavesRewritten
<1>8. View' = mem'
  BY DEF View
<1>9. SearchTree(View', numPages', T, own, h)
  BY <1>1, <1>7, <1>8
<1>10. KeptEmpty(T, own, T, own)
  <2>1. T \subseteq NodePages
    BY <1>2 DEF SearchTree, Typed
  <2> QED BY <2>1, <1>4 DEF KeptEmpty
<1> QED BY <1>9, <1>10 DEF Onward, TreeAt

LEMMA InsertIntoLeafTree ==
  ASSUME IInv, TreeInv, InsertIntoLeaf,
         NEW T, NEW own, NEW h, TreeAt(T, own, h)
  PROVE  Onward(T, own)
<1> DEFINE wide == WithRow(mem[at].cells, stmt.key, stmt.row)
<1>1. /\ pc = "descend" /\ stmt.op = "insert" /\ mem[at].type = "leaf"
      /\ ~ HasKey(mem[at].cells, stmt.key)
      /\ Write([mem EXCEPT ![at].cells = wide], {at}, numPages)
      /\ pc' = "idle"
  BY DEF InsertIntoLeaf, AtInsertLeaf, Finish
<1>2. /\ SearchTree(mem, numPages, T, own, h) /\ Placed(T, own) /\ at \in T
      /\ Filled(mem[at], own, at)
  BY <1>1, LeafAt
<1>3. mem[at].cells \in Seq(LeafCell) /\ stmt.key \in Keys /\ stmt.row \in Rows
  BY <1>1, LeafAt, StepFacts, StatementFields DEF ControlOK
<1>4. /\ wide \in Seq(LeafCell) /\ Ascends(wide)
      /\ \A i \in 1 .. Len(wide) : \/ wide[i] = [key |-> stmt.key, row |-> stmt.row]
                                   \/ \E j \in 1 .. Len(mem[at].cells) : wide[i] = mem[at].cells[j]
  <2>1. Ascends(mem[at].cells)
    BY <1>2 DEF Filled
  <2>2. Wider(wide, mem[at].cells, [key |-> stmt.key, row |-> stmt.row])
    BY <1>1, <1>3, <2>1, WithRowCells
  <2> HIDE DEF wide
  <2> QED BY <2>2 DEF Wider
<1> HIDE DEF wide
<1>5. stmt.key \in own[at]
  BY <1>1, <1>2 DEF Placed
<1>6. \A i \in 1 .. Len(wide) : wide[i].key \in own[at]
  BY <1>2, <1>4, <1>5 DEF Filled
<1>7. Placed(T, own)'
  BY <1>1 DEF Placed
<1> QED BY <1>1, <1>2, <1>4, <1>6, <1>7, LeafWritten

LEMMA DeleteRowTree ==
  ASSUME IInv, TreeInv, DeleteRow,
         NEW T, NEW own, NEW h, TreeAt(T, own, h)
  PROVE  Onward(T, own)
<1>1. PICK i \in Matches(mem[at].cells) :
        Write([mem EXCEPT ![at].cells = RemoveAt(@, i)], {at}, numPages)
  BY DEF DeleteRow
<1> DEFINE less == RemoveAt(mem[at].cells, i)
<1>2. /\ pc = "walk" /\ pc' = pc /\ at' = at /\ stmt' = stmt
      /\ Write([mem EXCEPT ![at].cells = less], {at}, numPages)
  BY <1>1 DEF DeleteRow, control
<1>3. mem[at].type = "leaf" /\ i \in 1 .. Len(mem[at].cells)
  BY <1>1, <1>2, StepFacts DEF Matches
<1>4. /\ SearchTree(mem, numPages, T, own, h) /\ Placed(T, own) /\ at \in T
      /\ Filled(mem[at], own, at)
  BY <1>2, <1>3, LeafAt
<1>5. mem[at].cells \in Seq(LeafCell)
  BY <1>2, <1>3, LeafAt
<1>6. /\ less \in Seq(LeafCell) /\ Len(less) = Len(mem[at].cells) - 1 /\ Ascends(less)
      /\ \A j \in 1 .. Len(less) : less[j] = mem[at].cells[IF j < i THEN j ELSE j + 1]
  BY <1>3, <1>4, <1>5, RemoveAtCells DEF Filled
<1> HIDE DEF less
<1>7. \A j \in 1 .. Len(less) : less[j].key \in own[at]
  <2> TAKE j \in 1 .. Len(less)
  <2>1. Len(mem[at].cells) \in Nat
    BY <1>5, LenProperties
  <2>2. PICK l \in 1 .. Len(mem[at].cells) : l = IF j < i THEN j ELSE j + 1
    BY <2>1, <1>3, <1>6
  <2> QED BY <2>2, <1>4, <1>6 DEF Filled
<1>8. Placed(T, own)'
  <2>1. own[at] # {} /\ own[at] \subseteq Int
    BY <1>4 DEF SearchTree, Typed, PageOK
  <2>2. ~ Before(own, at, at)
    BY <2>1 DEF Before
  <2>3. /\ mem \in [NodePages -> Leaf \cup Internal]
        /\ mem' = [mem EXCEPT ![at].cells = less] /\ T \subseteq NodePages
    BY <1>2, <1>4 DEF Write, SearchTree, Typed
  <2>4. \A q \in T : q # at => mem'[q] = mem[q]
    BY <2>3
  <2>5. ASSUME NEW q \in T, mem'[q].type = "leaf", Before(own, q, at) PROVE Done(mem'[q].cells)
    BY <1>2, <1>4, <2>2, <2>4, <2>5 DEF Placed
  <2> QED BY <1>2, <1>4, <2>5 DEF Placed, Done
<1> QED BY <1>2, <1>3, <1>4, <1>6, <1>7, <1>8, LeafWritten

LEMMA UpdateLeafTree ==
  ASSUME IInv, TreeInv, UpdateLeaf,
         NEW T, NEW own, NEW h, TreeAt(T, own, h)
  PROVE  Onward(T, own)
<1> DEFINE old == mem[at].cells
           hits == Matches(old)
           cells == [i \in 1 .. Len(old) |->
                       IF i \in hits THEN [old[i] EXCEPT !.row = stmt.row] ELSE old[i]]
           marked == IF hits = {} THEN {} ELSE {at}
<1>1. /\ pc = "walk" /\ stmt.op = "update" /\ NextLeaf
      /\ Write([mem EXCEPT ![at].cells = cells], marked, numPages)
  BY DEF UpdateLeaf
<1>2. mem[at].type = "leaf" /\ stmt.row \in Rows
  BY <1>1, StepFacts, StatementFields DEF ControlOK
<1>3. /\ SearchTree(mem, numPages, T, own, h) /\ Placed(T, own) /\ at \in T
      /\ Filled(mem[at], own, at)
  BY <1>1, <1>2, LeafAt
<1>4. old \in Seq(LeafCell)
  BY <1>1, <1>2, LeafAt
<1>5. /\ cells \in Seq(LeafCell) /\ Len(cells) = Len(old)
      /\ \A i \in 1 .. Len(old) : cells[i].key = old[i].key
  <2> HIDE DEF old
  <2>1. \A i \in 1 .. Len(old) : old[i] \in LeafCell
    BY <1>4, ElementOfSeq
  <2>2. \A i \in 1 .. Len(old) : cells[i] \in LeafCell /\ cells[i].key = old[i].key
    BY <1>2, <2>1 DEF LeafCell
  <2>3. Len(old) \in Nat
    BY <1>4, LenProperties
  <2>4. cells \in [1 .. Len(old) -> LeafCell]
    BY <2>2
  <2> HIDE DEF cells
  <2>5. cells \in Seq(LeafCell) /\ Len(cells) = Len(old)
    BY <2>3, <2>4
  <2> QED BY <2>2, <2>5 DEF cells
<1> HIDE DEF cells, marked
<1>6. Ascends(cells) /\ \A i \in 1 .. Len(cells) : cells[i].key \in own[at]
  BY <1>3, <1>5 DEF Filled, Ascends
<1>7. Done(cells)
  <2>1. ASSUME NEW i \in 1 .. Len(old), cells[i] \in stmt.where PROVE cells[i].row = stmt.row
    <3>1. CASE i \in hits
      <4>1. old[i] \in LeafCell
        BY <1>4, ElementOfSeq
      <4>2. cells[i] = [old[i] EXCEPT !.row = stmt.row]
        BY <3>1 DEF cells
      <4> QED BY <4>1, <4>2 DEF LeafCell
    <3>2. CASE i \notin hits
      <4>1. cells[i] = old[i]
        BY <3>2 DEF cells
      <4> QED BY <4>1, <3>2, <2>1 DEF Matches
    <3> QED BY <3>1, <3>2
  <2> QED BY <2>1, <1>1, <1>5 DEF Done
<1>8. pc' # "separator" /\ Placed(T, own)'
  <2>1. /\ mem \in [NodePages -> Leaf \cup Internal] /\ at \in NodePages /\ mem[at] \in Leaf
        /\ mem' = [mem EXCEPT ![at].cells = cells] /\ T \subseteq NodePages
    BY <1>1, <1>2, <1>3, LeafAt DEF Write, SearchTree, Typed
  <2>2. mem'[at] = [mem[at] EXCEPT !.cells = cells] /\ \A q \in T : q # at => mem'[q] = mem[q]
    BY <2>1
  <2>3. mem'[at].cells = cells /\ mem'[at].type = mem[at].type
    BY <2>1, <2>2 DEF Leaf
  <2> QED BY <1>1, <1>3, <1>7, <2>2, <2>3, NextLeafPlaced
<1> QED BY <1>1, <1>2, <1>3, <1>5, <1>6, <1>8, LeafWritten

-----------------------------------------------------------------------------
\* The halves of a full leaf with one more row, parted at the first key of the upper.
LEMMA LeafParted ==
  ASSUME IInv, TreeInv, AtFullLeaf, NEW T, NEW own, Placed(T, own),
         Filled(mem[at], own, at), own[at] \subseteq Int, Convex(own[at])
  PROVE  LET wide == WithRow(mem[at].cells, stmt.key, stmt.row)
             low  == LowCells(wide)
             high == HighCells(wide)
             s    == high[1].key
         IN  /\ low \in Seq(LeafCell) /\ Ascends(low)
             /\ \A i \in 1 .. Len(low) : low[i].key \in own[at] /\ low[i].key < s
             /\ high \in Seq(LeafCell) /\ Ascends(high)
             /\ \A i \in 1 .. Len(high) : high[i].key \in own[at] /\ s <= high[i].key
             /\ s \in Keys /\ s \in Int /\ s \in own[at] /\ s - 1 \in own[at]
             /\ low # <<>> /\ high # <<>>
<1> DEFINE old  == mem[at].cells
           wide == WithRow(old, stmt.key, stmt.row)
           low  == LowCells(wide)
           high == HighCells(wide)
           mid  == LeafMid
           top  == LeafMax + 1 - mid
<1>1. /\ pc = "descend" /\ stmt.op = "insert" /\ mem[at].type = "leaf"
      /\ ~ HasKey(old, stmt.key) /\ Len(old) >= LeafMax
  BY DEF AtFullLeaf, AtInsertLeaf
<1>2. /\ old \in Seq(LeafCell) /\ stmt.key \in Keys /\ stmt.row \in Rows
      /\ Len(old) \in Nat /\ Len(old) <= LeafMax
  <2>1. old \in Seq(LeafCell) /\ stmt.key \in Keys /\ stmt.row \in Rows
    BY <1>1, LeafOfTree, StepFacts, StatementFields DEF ControlOK
  <2>2. Len(old) <= LeafMax
    BY <1>1, StepFacts DEF LeafNode
  <2> QED BY <2>1, <2>2, LenProperties
<1>3. Ascends(old) /\ \A j \in 1 .. Len(old) : old[j].key \in own[at]
  BY DEF Filled
<1> HIDE DEF old
<1>4. /\ wide \in Seq(LeafCell) /\ Len(wide) = Len(old) + 1 /\ Ascends(wide)
      /\ \A i \in 1 .. Len(wide) : \/ wide[i] = [key |-> stmt.key, row |-> stmt.row]
                                   \/ \E j \in 1 .. Len(old) : wide[i] = old[j]
  <2>1. Wider(wide, old, [key |-> stmt.key, row |-> stmt.row])
    BY <1>1, <1>2, <1>3, WithRowCells
  <2> HIDE DEF wide
  <2> QED BY <2>1 DEF Wider
<1> HIDE DEF wide
<1>5. Len(wide) = LeafMax + 1 /\ LeafMax \in Nat
  BY <1>1, <1>2, <1>4, CapacityAssumption
<1>6. stmt.key \in own[at]
  BY <1>1 DEF Placed
<1>7. \A i \in 1 .. Len(wide) : wide[i].key \in own[at] /\ wide[i].key \in Keys
  <2> TAKE i \in 1 .. Len(wide)
  <2>1. wide[i] \in LeafCell
    BY <1>4, ElementOfSeq
  <2>2. wide[i].key \in own[at]
    BY <1>4, <1>6, <1>3
  <2> QED BY <2>1, <2>2 DEF LeafCell
<1>8. /\ mid \in 1 .. LeafMax
      /\ low \in Seq(LeafCell) /\ Len(low) = mid
      /\ high \in Seq(LeafCell) /\ Len(high) = top
      /\ \A i \in 1 .. mid : low[i] = wide[i]
      /\ \A i \in 1 .. top : high[i] = wide[mid + i]
  BY <1>4, <1>5, LeafHalvesCells
<1> HIDE DEF low, high, mid
<1>9. /\ \A i \in 1 .. mid : i \in 1 .. Len(wide)
      /\ \A i \in 1 .. top : mid + i \in 1 .. Len(wide)
      /\ 1 \in 1 .. mid /\ 1 \in 1 .. top
  BY <1>5, <1>8
<1>10. /\ \A i \in 1 .. mid : low[i].key \in own[at] /\ low[i].key \in Keys
      /\ \A i \in 1 .. top : high[i].key \in own[at] /\ high[i].key \in Keys
  BY <1>7, <1>8, <1>9
<1>11. Ascends(low)
  BY <1>4, <1>8, <1>9 DEF Ascends
<1>12. Ascends(high)
  <2> SUFFICES ASSUME NEW a \in 1 .. top, NEW b \in 1 .. top, a < b
               PROVE  high[a].key < high[b].key
    BY <1>8 DEF Ascends
  <2>1. PICK c \in 1 .. Len(wide) : c = mid + a
    BY <1>9
  <2>2. PICK d \in 1 .. Len(wide) : d = mid + b
    BY <1>9
  <2>3. c < d
    BY <2>1, <2>2, <1>8
  <2>4. high[a] = wide[c] /\ high[b] = wide[d]
    BY <2>1, <2>2, <1>8
  <2> QED BY <2>3, <2>4, <1>4 DEF Ascends
<1>13. ASSUME NEW i \in 1 .. mid PROVE low[i].key < high[1].key
  <2>1. PICK d \in 1 .. Len(wide) : d = mid + 1
    BY <1>9
  <2>2. i < d /\ i \in 1 .. Len(wide)
    BY <2>1, <1>8, <1>9
  <2>3. low[i] = wide[i] /\ high[1] = wide[d]
    BY <2>1, <1>8, <1>9
  <2> QED BY <2>2, <2>3, <1>4 DEF Ascends
<1>14. \A i \in 1 .. top : high[1].key <= high[i].key
  <2>1. \A i \in 1 .. Len(high) : high[i].key \in Int
    BY <1>8, <1>10, KeysAssumption
  <2> TAKE i \in 1 .. top
  <2>2. \A a, b \in 1 .. top : a <= b => high[a].key <= high[b].key
    BY <2>1, <1>8, <1>12, AscendsWeakly
  <2>3. 1 <= i
    OBVIOUS
  <2> QED BY <2>2, <2>3, <1>9
<1>15. high[1].key - 1 \in own[at]
  <2> DEFINE a == low[1].key
             s == high[1].key
  <2>1. a \in own[at] /\ s \in own[at] /\ a < s /\ a \in Int /\ s \in Int
    BY <1>9, <1>10, <1>13
  <2> HIDE DEF a, s
  <2>2. a <= s - 1 /\ s - 1 <= s /\ s - 1 \in Int
    BY <2>1
  <2>3. s - 1 \in own[at]
    BY <2>1, <2>2 DEF Convex
  <2> QED BY <2>3 DEF s
<1>16. low # <<>> /\ high # <<>>
  <2>1. Len(low) # 0 /\ Len(high) # 0
    BY <1>8, <1>9
  <2> QED BY <2>1
<1> QED BY <1>8, <1>9, <1>10, <1>11, <1>12, <1>13, <1>14, <1>15, <1>16, KeysAssumption
     DEF old, wide, low, high

LEMMA SplitLeafTree ==
  ASSUME IInv, IInv', TreeInv, SplitLeaf,
         NEW T, NEW own, NEW h, TreeAt(T, own, h)
  PROVE  Onward(T, own)
<1> DEFINE wide  == WithRow(mem[at].cells, stmt.key, stmt.row)
           right == numPages
           s     == HighCells(wide)[1].key
           pp    == mem[at].parent
           rightNode == [RightLeaf(wide) EXCEPT !.link = mem[at].link]
           leftNode  == [mem[at] EXCEPT !.cells = LowCells(wide), !.link = right]
           sp    == [key |-> s, left |-> at, right |-> right]
<1>1. /\ AtFullLeaf /\ ~ mem[at].root /\ right < MaxPages
      /\ sep' = sp /\ at' = pp /\ pc' = "separator" /\ stmt' = stmt
      /\ disk' = disk /\ filePages' = filePages /\ numPages' = numPages + 1
      /\ mem' = [mem EXCEPT ![right] = rightNode,
                            ![at].cells = LowCells(wide), ![at].link = right]
  BY DEF SplitLeaf, Write
<1>2. pc = "descend" /\ mem[at].type = "leaf"
  BY <1>1 DEF AtFullLeaf, AtInsertLeaf
<1>3. /\ SearchTree(mem, numPages, T, own, h) /\ Placed(T, own) /\ at \in T
      /\ Filled(mem[at], own, at) /\ own[at] \subseteq Int /\ Convex(own[at])
  BY <1>2, LeafAt
<1>4. /\ mem[at] \in Leaf /\ at \in NodePages
      /\ mem \in [NodePages -> Leaf \cup Internal] /\ mem' \in [NodePages -> Leaf \cup Internal]
      /\ numPages \in Nat /\ numPages >= 2
  <2>1. mem' \in [NodePages -> LeafNode \cup InternalNode]
    BY DEF IInv, TypeOK
  <2>2. mem' \in [NodePages -> Leaf \cup Internal]
    BY <2>1 DEF LeafNode, InternalNode
  <2>3. numPages \in 2 .. MaxPages
    BY DEF IInv, TypeOK
  <2> QED BY <2>2, <2>3, <1>2, LeafAt
<1>5. /\ LowCells(wide) \in Seq(LeafCell) /\ Ascends(LowCells(wide))
      /\ \A i \in 1 .. Len(LowCells(wide)) :
           LowCells(wide)[i].key \in own[at] /\ LowCells(wide)[i].key < s
      /\ HighCells(wide) \in Seq(LeafCell) /\ Ascends(HighCells(wide))
      /\ \A i \in 1 .. Len(HighCells(wide)) :
           HighCells(wide)[i].key \in own[at] /\ s <= HighCells(wide)[i].key
      /\ s \in Keys /\ s \in Int /\ s \in own[at] /\ s - 1 \in own[at]
  BY <1>1, <1>3, LeafParted
<1>6. Typed(mem, numPages, T, own, h) /\ PageOK(mem, T, own, h, at)
  BY <1>3 DEF SearchTree
<1>7. /\ T \subseteq 1 .. numPages - 1 /\ T \subseteq NodePages /\ RootPage \in T
      /\ own \in [NodePages -> SUBSET Int] /\ h \in [NodePages -> Nat]
      /\ mem[RootPage].root
  BY <1>3, <1>6 DEF Typed, SearchTree, PageOK, Rooted
<1>8. /\ right \in NodePages /\ right \notin T /\ right # at /\ at # RootPage
      /\ T \cup {right} \subseteq 1 .. (numPages + 1) - 1
  <2>1. right \in NodePages
    BY <1>1, <1>4, PagesAreNodePages, CapacityAssumption
  <2>2. right \notin T
    BY <1>4, <1>7
  <2>3. T \cup {right} \subseteq 1 .. (numPages + 1) - 1
    BY <1>4, <1>7
  <2> QED BY <2>1, <2>2, <2>3, <1>1, <1>3, <1>7
<1>9. pp \in T /\ mem[pp].type = "internal" /\ pp # at /\ pp # right
  BY <1>1, <1>2, <1>6, <1>8 DEF PageOK, Rooted
<1>10. /\ mem'[right] = rightNode /\ mem'[at] = leftNode
       /\ \A p \in NodePages \ {at, right} : mem'[p] = mem[p]
  BY <1>1, <1>4, <1>8
<1>11. /\ rightNode.type = "leaf" /\ rightNode.root = FALSE /\ rightNode.link = mem[at].link
       /\ rightNode.parent = pp /\ rightNode.cells = HighCells(wide)
  BY <1>1 DEF RightLeaf, NewLeaf, ZeroPage
<1>12. /\ leftNode.type = "leaf" /\ ~ leftNode.root /\ leftNode.link = right
       /\ leftNode.parent = pp /\ leftNode.cells = LowCells(wide)
  BY <1>1, <1>2, <1>4 DEF Leaf
<1>13. View' = [mem' EXCEPT ![pp] = WithSeparator(mem[pp], sp)]
  BY <1>1, <1>4, <1>7, <1>9, <1>10 DEF View
<1> HIDE DEF leftNode, rightNode, wide, s, right, pp
<1>14. /\ \A p \in NodePages : p # pp => View'[p] = mem'[p]
       /\ View'[pp] = WithSeparator(mem[pp], sp)
       /\ View' \in [NodePages -> Leaf \cup Internal]
  <2>1. pp \in NodePages /\ mem[pp] \in Internal
    BY <1>4, <1>7, <1>9, PageTypes
  <2>2. sp \in [key : Keys \cup {0}, left : PageNum, right : PageNum]
    BY <1>4, <1>5, <1>8 DEF NodePages
  <2>3. WithSeparator(mem[pp], sp) \in Internal
    BY <2>1, <2>2, WithSeparatorProperties
  <2> QED BY <2>1, <2>3, <1>4, <1>13
<1> DEFINE low == {k \in own[at] : k < s}
           high == {k \in own[at] : s <= k}
           own2 == [own EXCEPT ![at] = low, ![right] = high]
           h2 == [h EXCEPT ![right] = h[at]]
<1>15. /\ SplitKeys(own, own2, at, right, s)
       /\ own2[at] = low /\ own2[right] = high
  <2>1. low \in SUBSET Int /\ high \in SUBSET Int
    BY <1>3
  <2>2. /\ own2 \in [NodePages -> SUBSET Int]
        /\ own2[at] = low /\ own2[right] = high
        /\ \A p \in NodePages \ {at, right} : own2[p] = own[p]
    BY <2>1, <1>4, <1>7, <1>8
  <2> HIDE DEF own2
  <2> QED BY <2>2 DEF SplitKeys
<1>16. Filled(leftNode, own2, at) /\ Filled(rightNode, own2, right)
  BY <1>5, <1>11, <1>12, <1>15 DEF Filled
<1> HIDE DEF own2
<1>17. Split(mem, View', T, own2, h2, at, right, s)
  <2>1. View'[at] = leftNode /\ View'[right] = rightNode
    BY <1>4, <1>8, <1>9, <1>10, <1>14
  <2>2. \A p \in NodePages \ {at, right, pp} : View'[p] = mem[p]
    BY <1>10, <1>14
  <2> QED BY <2>1, <2>2, <1>2, <1>11, <1>12, <1>14, <1>16 DEF Split, pp
<1>18. SearchTree(View', numPages + 1, T \cup {right}, own2, h2)
  <2> HIDE DEF sp
  <2>1. s \in Keys \cup {0}
    BY <1>5
  <2> QED BY <2>1, <1>3, <1>5, <1>8, <1>14, <1>15, <1>17, SplitKeepsTree
<1> HIDE DEF h2
<1>19. KeptEmpty(T, own, T \cup {right}, own2)
  <2>1. LowCells(wide) # <<>> /\ HighCells(wide) # <<>>
    BY <1>1, <1>3, LeafParted DEF wide
  <2>2. mem'[at].cells # <<>> /\ mem'[right].cells # <<>>
    BY <2>1, <1>10, <1>11, <1>12
  <2>3. \A p \in T \ {at} : mem'[p] = mem[p] /\ own2[p] = own[p]
    BY <1>7, <1>8, <1>10, <1>15 DEF SplitKeys
  <2> QED BY <2>2, <2>3 DEF KeptEmpty
<1>20. \E T2, o2, g2 : /\ SearchTree(View', numPages', T2, o2, g2) /\ at' \in T2
                        /\ KeptEmpty(T, own, T2, o2)
  BY <1>1, <1>9, <1>18, <1>19
<1>21. pc' = "separator"
  BY <1>1
<1> QED BY <1>20, <1>21, TreeAgain

\* A page that the tree marks as its root is the root page.
LEMMA RootIsRoot ==
  ASSUME NEW m, NEW count, NEW T, NEW own, NEW h, SearchTree(m, count, T, own, h), NEW p \in T
  PROVE  m[p].root <=> p = RootPage
BY DEF SearchTree, PageOK, Rooted

LEMMA SplitRootLeafTree ==
  ASSUME IInv, IInv', TreeInv, SplitRootLeaf,
         NEW T, NEW own, NEW h, TreeAt(T, own, h)
  PROVE  Onward(T, own)
<1> DEFINE wide  == WithRow(mem[at].cells, stmt.key, stmt.row)
           right == numPages
           left  == numPages + 1
           s     == HighCells(wide)[1].key
           up    == [key |-> s, left |-> left, right |-> right]
           rightNode == RightLeaf(wide)
           leftNode  == [NewLeaf(at) EXCEPT !.root = FALSE, !.link = right,
                                            !.cells = LowCells(wide)]
           rootNode  == RootOver(mem[at], up)
<1>1. /\ AtFullLeaf /\ mem[at].root /\ left < MaxPages /\ pc' = "idle"
      /\ disk' = disk /\ filePages' = filePages /\ numPages' = numPages + 2
      /\ mem' = [mem EXCEPT ![right] = rightNode, ![left] = leftNode, ![at] = rootNode]
  BY DEF SplitRootLeaf, Write, Finish
<1>2. pc = "descend" /\ mem[at].type = "leaf"
  BY <1>1 DEF AtFullLeaf, AtInsertLeaf
<1>3. /\ SearchTree(mem, numPages, T, own, h) /\ Placed(T, own) /\ at \in T
      /\ Filled(mem[at], own, at) /\ own[at] \subseteq Int /\ Convex(own[at])
  BY <1>2, LeafAt
<1>4. /\ mem[at] \in Leaf /\ at \in NodePages
      /\ mem \in [NodePages -> Leaf \cup Internal] /\ mem' \in [NodePages -> Leaf \cup Internal]
      /\ numPages \in Nat /\ numPages >= 2
  <2>1. mem' \in [NodePages -> LeafNode \cup InternalNode]
    BY DEF IInv, TypeOK
  <2>2. mem' \in [NodePages -> Leaf \cup Internal]
    BY <2>1 DEF LeafNode, InternalNode
  <2>3. numPages \in 2 .. MaxPages
    BY DEF IInv, TypeOK
  <2> QED BY <2>2, <2>3, <1>2, LeafAt
<1>5. /\ LowCells(wide) \in Seq(LeafCell) /\ Ascends(LowCells(wide))
      /\ \A i \in 1 .. Len(LowCells(wide)) :
           LowCells(wide)[i].key \in own[at] /\ LowCells(wide)[i].key < s
      /\ HighCells(wide) \in Seq(LeafCell) /\ Ascends(HighCells(wide))
      /\ \A i \in 1 .. Len(HighCells(wide)) :
           HighCells(wide)[i].key \in own[at] /\ s <= HighCells(wide)[i].key
      /\ s \in Keys /\ s \in Int /\ s \in own[at] /\ s - 1 \in own[at]
  BY <1>1, <1>3, LeafParted
<1>6. Typed(mem, numPages, T, own, h) /\ at = RootPage
  BY <1>1, <1>3, RootIsRoot DEF SearchTree
<1>7. /\ T \subseteq 1 .. numPages - 1 /\ T \subseteq NodePages
      /\ own \in [NodePages -> SUBSET Int] /\ h \in [NodePages -> Nat] /\ own[at] = Int
  BY <1>6 DEF Typed
<1>8. /\ right \in NodePages /\ left \in NodePages /\ right \notin T /\ left \notin T
      /\ right # at /\ left # at /\ left # right
      /\ T \cup {left, right} \subseteq 1 .. (numPages + 2) - 1
  <2>1. right \in NodePages /\ left \in NodePages
    BY <1>1, <1>4, PagesAreNodePages, CapacityAssumption
  <2>2. right \notin T /\ left \notin T /\ left # right
    BY <1>4, <1>7
  <2>3. T \cup {left, right} \subseteq 1 .. (numPages + 2) - 1
    BY <1>4, <1>7
  <2> QED BY <2>1, <2>2, <2>3, <1>3
<1> HIDE DEF right, left
<1>9. /\ mem'[right] = rightNode /\ mem'[left] = leftNode /\ mem'[at] = rootNode
      /\ \A p \in NodePages \ {left, right, at} : mem'[p] = mem[p]
  <2> HIDE DEF rightNode, leftNode, rootNode
  <2> QED BY <1>1, <1>4, <1>8
<1>10. /\ rightNode.type = "leaf" /\ ~ rightNode.root /\ rightNode.link = 0
       /\ rightNode.parent = at /\ rightNode.cells = HighCells(wide)
  BY <1>1 DEF RightLeaf, NewLeaf, ZeroPage
<1>11. /\ leftNode.type = "leaf" /\ ~ leftNode.root /\ leftNode.link = right
       /\ leftNode.parent = at /\ leftNode.cells = LowCells(wide)
  BY DEF NewLeaf, ZeroPage
<1>12. View' = mem'
  BY <1>1 DEF View
<1> DEFINE low == {k \in own[at] : k < s}
           high == {k \in own[at] : s <= k}
           own2 == [own EXCEPT ![left] = low, ![right] = high]
           h2 == [h EXCEPT ![left] = h[at], ![right] = h[at], ![at] = h[at] + 1]
<1> HIDE DEF leftNode, rightNode, wide, s
<1>13. GrowKeys(own, own2, left, right, s) /\ own2[left] = low /\ own2[right] = high
  <2>1. low \in SUBSET Int /\ high \in SUBSET Int
    BY <1>3
  <2>2. /\ own2 \in [NodePages -> SUBSET Int]
        /\ own2[left] = low /\ own2[right] = high
        /\ \A p \in NodePages \ {left, right} : own2[p] = own[p]
    BY <2>1, <1>4, <1>7, <1>8
  <2> HIDE DEF own2
  <2> QED BY <2>2, <1>7 DEF GrowKeys
<1>14. Filled(leftNode, own2, left) /\ Filled(rightNode, own2, right)
  BY <1>5, <1>10, <1>11, <1>13 DEF Filled
<1>15. GrowHeights(h, h2, left, right)
  BY <1>4, <1>6, <1>7, <1>8 DEF GrowHeights
<1> HIDE DEF own2, h2
<1>16. Grow(mem, mem', T, own2, h2, left, right, s)
  BY <1>2, <1>6, <1>9, <1>10, <1>11, <1>14 DEF Grow
<1>17. SearchTree(mem', numPages + 2, T \cup {left, right}, own2, h2)
  BY <1>3, <1>4, <1>5, <1>8, <1>13, <1>15, <1>16, GrowKeepsTree
<1>18. KeptEmpty(T, own, T \cup {left, right}, own2)
  <2>1. LowCells(wide) # <<>> /\ HighCells(wide) # <<>>
    BY <1>1, <1>3, LeafParted DEF wide
  <2>2. mem'[left].cells # <<>> /\ mem'[right].cells # <<>>
    BY <2>1, <1>9, <1>10, <1>11
  <2>3. mem'[at].type = "internal"
    BY <1>9 DEF RootOver, rootNode
  <2>4. \A p \in T \ {at} : mem'[p] = mem[p] /\ own2[p] = own[p]
    BY <1>7, <1>8, <1>9, <1>13 DEF GrowKeys
  <2> QED BY <2>2, <2>3, <2>4 DEF KeptEmpty
<1>19. \E T2, o2, g2 : SearchTree(View', numPages', T2, o2, g2) /\ KeptEmpty(T, own, T2, o2)
  BY <1>1, <1>12, <1>17, <1>18
<1> QED BY <1>1, <1>19, TreeAgain

LEMMA InsertSeparatorTree ==
  ASSUME IInv, TreeInv, InsertSeparator,
         NEW T, NEW own, NEW h, TreeAt(T, own, h)
  PROVE  Onward(T, own)
<1>1. /\ pc = "separator" /\ pc' = "idle" /\ numPages' = numPages
      /\ disk' = disk /\ filePages' = filePages
      /\ mem' = [mem EXCEPT ![at] = WithSeparator(@, sep)]
  BY DEF InsertSeparator, Write, Finish
<1>2. View' = View
  BY <1>1 DEF View
<1>3. KeptEmpty(T, own, T, own)
  <2>1. mem[at].type = "internal" /\ mem'[at] = WithSeparator(mem[at], sep) /\ T \subseteq NodePages
    BY <1>1, StepFacts, ViewPages DEF TreeAt, SearchTree, Typed
  <2>2. mem'[at].type = "internal" /\ \A p \in T \ {at} : mem'[p] = mem[p]
    BY <2>1, <1>1 DEF WithSeparator
  <2> QED BY <2>2 DEF KeptEmpty
<1>4. \E T2, o2, g2 : SearchTree(View', numPages', T2, o2, g2) /\ KeptEmpty(T, own, T2, o2)
  BY <1>1, <1>2, <1>3 DEF TreeAt
<1> QED BY <1>1, <1>4, TreeAgain

\* A statement that runs out of pages, or a crash, which goes back to the file.
LEMMA HopelessTree ==
  ASSUME IInv, TreeInv,
         SplitRootLeafHalfway \/ NoPagesForRootNode \/ NoPageForNode \/ Crash
  PROVE  TreeInv'
<1>1. CASE SplitRootLeafHalfway \/ NoPagesForRootNode \/ NoPageForNode
  <2>1. disk' = disk /\ filePages' = filePages /\ result' = Reply("error", {})
    BY <1>1 DEF SplitRootLeafHalfway, NoPagesForRootNode, NoPageForNode, Write, Finish
  <2>2. result'.code = "error"
    BY <2>1 DEF Reply
  <2>3. (\E T, own, h : SearchTree(disk, filePages, T, own, h))'
    BY <2>1 DEF TreeInv
  <2> QED BY <2>2, <2>3 DEF TreeInv
<1>2. CASE Crash
  <2>1. /\ disk' = disk /\ filePages' = filePages /\ mem' = disk /\ numPages' = filePages
        /\ pc' = "idle"
    BY <1>2 DEF Crash, Finish
  <2>2. View' = disk
    BY <2>1 DEF View
  <2>3. \E T, own, h : SearchTree(View', numPages', T, own, h)
    BY <2>1, <2>2 DEF TreeInv
  <2>4. \A T, own : Placed(T, own)'
    BY <2>1 DEF Placed
  <2>5. (\E T, own, h : SearchTree(disk, filePages, T, own, h))'
    BY <2>1 DEF TreeInv
  <2> QED BY <2>3, <2>4, <2>5 DEF TreeInv, TreeAt
<1> QED BY <1>1, <1>2

LEMMA RestartTree ==
  ASSUME IInv, TreeInv, Restart, ParentsSaved
  PROVE  TreeInv'
<1>1. /\ pc = "idle" /\ pc' = pc /\ result.code # "error"
      /\ disk' = Flushed /\ mem' = Flushed
      /\ filePages' = FlushedPages /\ numPages' = FlushedPages
  BY DEF Restart, control
<1>2. FlushedPages = numPages
  BY <1>1, TypeOKParts, AllPagesAreFlushed DEF IInv
<1>3. Flushed = mem
  <2>1. \A p \in NodePages : Flushed[p] = mem[p]
    BY DEF ParentsSaved, Flushed
  <2>2. mem = [p \in NodePages |-> mem[p]]
    BY ViewPages
  <2>3. Flushed = [p \in NodePages |-> Flushed[p]]
    BY DEF Flushed
  <2> QED BY <2>1, <2>2, <2>3
<1>4. PICK T, own, h : TreeAt(T, own, h)
  BY <1>1 DEF TreeInv
<1>5. View = mem /\ View' = mem
  BY <1>1, <1>3 DEF View
<1>6. SearchTree(mem, numPages, T, own, h)
  BY <1>4, <1>5 DEF TreeAt
<1>7. SearchTree(View', numPages', T, own, h) /\ SearchTree(disk', filePages', T, own, h)
  BY <1>1, <1>2, <1>3, <1>5, <1>6
<1>8. Placed(T, own)'
  BY <1>1 DEF Placed
<1> QED BY <1>7, <1>8 DEF TreeInv, TreeAt

-----------------------------------------------------------------------------
\* An over-full internal node of the tree.
LEMMA FullNodeOfTree ==
  ASSUME IInv, TreeInv, AtFullNode, NEW T, NEW own, NEW h, TreeAt(T, own, h), at \in T
  PROVE  LET wide == WithSeparator(mem[at], sep)
         IN  /\ View \in [NodePages -> Leaf \cup Internal] /\ View[at] = wide
             /\ \A p \in NodePages \ {at} : View[p] = mem[p]
             /\ at \in NodePages /\ mem[at] \in Internal
             /\ wide \in Internal /\ wide.type = "internal" /\ Len(wide.cells) = InternalMax + 1
             /\ wide.root = mem[at].root /\ wide.parent = mem[at].parent
             /\ Routed(wide, own, at) /\ Parented(View, T, h, at)
             /\ own[at] \subseteq Int /\ Convex(own[at])
             /\ \A c \in T : own[c] # {} /\ own[c] \subseteq Int
<1> DEFINE wide == WithSeparator(mem[at], sep)
<1>1. pc = "separator" /\ Len(mem[at].cells) >= InternalMax
  BY DEF AtFullNode
<1>2. /\ mem[at] \in InternalNode /\ wide \in Internal
      /\ Len(mem[at].cells) \in Nat /\ Len(mem[at].cells) <= InternalMax
      /\ Len(wide.cells) = Len(mem[at].cells) + 1
      /\ wide.root = mem[at].root /\ wide.parent = mem[at].parent
  BY <1>1, SeparatorFacts
<1>3. at \in NodePages /\ mem \in [NodePages -> Leaf \cup Internal]
  BY <1>1, StepFacts, ViewPages
<1>4. View = [mem EXCEPT ![at] = wide]
  BY <1>1 DEF View
<1> HIDE DEF wide
<1>5. /\ View \in [NodePages -> Leaf \cup Internal] /\ View[at] = wide
      /\ \A p \in NodePages \ {at} : View[p] = mem[p]
  BY <1>2, <1>3, <1>4
<1>6. Len(wide.cells) = InternalMax + 1
  BY <1>1, <1>2, CapacityAssumption
<1>7. SearchTree(View, numPages, T, own, h)
  BY DEF TreeAt
<1>8. PageOK(View, T, own, h, at) /\ Typed(View, numPages, T, own, h)
  BY <1>7 DEF SearchTree
<1>9. wide.type = "internal"
  BY <1>2 DEF Internal
<1>10. Routed(wide, own, at) /\ Parented(View, T, h, at) /\ Convex(own[at])
  BY <1>5, <1>8, <1>9 DEF PageOK
<1>11. \A c \in T : own[c] # {} /\ own[c] \subseteq Int
  BY <1>7, <1>8 DEF SearchTree, PageOK, Typed
<1>12. mem[at] \in Internal
  BY <1>2 DEF InternalNode
<1> QED BY <1>2, <1>3, <1>5, <1>6, <1>9, <1>10, <1>11, <1>12 DEF wide

\* The children of the halves of an over-full node are its children, and each is a
\* child of one half only.
LEMMA HalvesChildren ==
  ASSUME NEW wide \in Internal, Len(wide.cells) = InternalMax + 1,
         NEW p, NEW own, Routed(wide, own, p),
         \A j \in 1 .. Len(wide.cells) + 1 : own[Child(wide, j)] # {}
           /\ own[Child(wide, j)] \subseteq Int
  PROVE  LET low  == LowNode(wide)
             high == HighNode(wide)
         IN  /\ \A half \in {low, high} :
                  \A i \in 1 .. Len(half.cells) + 1 :
                    \E j \in 1 .. Len(wide.cells) + 1 : Child(half, i) = Child(wide, j)
             /\ \A j \in 1 .. Len(wide.cells) + 1 :
                  \/ \E i \in 1 .. Len(low.cells) + 1 : Child(low, i) = Child(wide, j)
                  \/ \E i \in 1 .. Len(high.cells) + 1 : Child(high, i) = Child(wide, j)
             /\ \A i \in 1 .. Len(low.cells) + 1 : Child(low, i) \notin Kids(high)
             /\ \A c \in Kids(high) : \E i \in 1 .. Len(high.cells) + 1 : Child(high, i) = c
             /\ \A i \in 1 .. Len(high.cells) + 1 : Child(high, i) \in Kids(high)
             /\ \A c \in Kids(low) : \E i \in 1 .. Len(low.cells) + 1 : Child(low, i) = c
             /\ \A i \in 1 .. Len(low.cells) + 1 : Child(low, i) \in Kids(low)
<1> DEFINE low  == LowNode(wide)
           high == HighNode(wide)
           mid  == InternalMid
           n    == Len(wide.cells)
<1>1. /\ mid \in 1 .. InternalMax - 1 /\ InternalMax \in Nat /\ n = InternalMax + 1
      /\ low \in Internal /\ Len(low.cells) = mid
      /\ high \in Internal /\ Len(high.cells) = InternalMax - mid
      /\ \A j \in 1 .. mid + 1 : Child(low, j) = Child(wide, j)
      /\ \A j \in 1 .. InternalMax - mid + 1 : Child(high, j) = Child(wide, mid + 1 + j)
  BY HalvesCells, CapacityAssumption
<1>2. /\ \A c : c \in Kids(high) <=> \E i \in 1 .. Len(high.cells) + 1 : Child(high, i) = c
      /\ \A c : c \in Kids(low) <=> \E i \in 1 .. Len(low.cells) + 1 : Child(low, i) = c
  BY <1>1, InternalFields
<1> HIDE DEF low, high, mid, n
<1>3. /\ \A i \in 1 .. mid + 1 : i \in 1 .. n + 1
      /\ \A i \in 1 .. InternalMax - mid + 1 : mid + 1 + i \in 1 .. n + 1
      /\ \A i \in 1 .. mid + 1 : \A j \in 1 .. InternalMax - mid + 1 : i # mid + 1 + j
  BY <1>1
<1>4. ASSUME NEW i \in 1 .. mid + 1
      PROVE  /\ Child(low, i) \notin Kids(high)
             /\ \E j \in 1 .. n + 1 : Child(low, i) = Child(wide, j)
  <2>1. SUFFICES ASSUME NEW j \in 1 .. InternalMax - mid + 1, Child(low, i) = Child(high, j)
                 PROVE  FALSE
    BY <1>1, <1>2, <1>3
  <2>2. PICK l \in 1 .. n + 1 : l = mid + 1 + j
    BY <1>3
  <2>3. i \in 1 .. n + 1 /\ i # l /\ Child(wide, i) = Child(wide, l)
    BY <2>1, <2>2, <1>1, <1>3
  <2>4. PICK k \in own[Child(wide, i)] : k \in Int
    BY <2>3 DEF n
  <2> QED BY <2>3, <2>4, ChildOnce DEF n
<1>5. \A i \in 1 .. InternalMax - mid + 1 : \E j \in 1 .. n + 1 : Child(high, i) = Child(wide, j)
  BY <1>1, <1>3
<1>6. ASSUME NEW j \in 1 .. n + 1
      PROVE  \/ \E i \in 1 .. mid + 1 : Child(low, i) = Child(wide, j)
             \/ \E i \in 1 .. InternalMax - mid + 1 : Child(high, i) = Child(wide, j)
  <2>1. CASE j <= mid + 1
    <3>1. j \in 1 .. mid + 1
      BY <2>1, <1>1
    <3> QED BY <3>1, <1>1
  <2>2. CASE ~ (j <= mid + 1)
    <3>1. j - (mid + 1) \in 1 .. InternalMax - mid + 1 /\ mid + 1 + (j - (mid + 1)) = j
      BY <2>2, <1>1
    <3>2. PICK i \in 1 .. InternalMax - mid + 1 : mid + 1 + i = j
      BY <3>1
    <3> QED BY <3>2, <1>1
  <2> QED BY <2>1, <2>2
<1>7. Len(low.cells) + 1 = mid + 1 /\ Len(high.cells) + 1 = InternalMax - mid + 1
  BY <1>1
<1>8. \A half \in {low, high} : \A i \in 1 .. Len(half.cells) + 1 :
        \E j \in 1 .. n + 1 : Child(half, i) = Child(wide, j)
  BY <1>4, <1>5, <1>7
<1>9. \A j \in 1 .. n + 1 :
        \/ \E i \in 1 .. Len(low.cells) + 1 : Child(low, i) = Child(wide, j)
        \/ \E i \in 1 .. Len(high.cells) + 1 : Child(high, i) = Child(wide, j)
  BY <1>6, <1>7
<1>10. \A i \in 1 .. Len(low.cells) + 1 : Child(low, i) \notin Kids(high)
  BY <1>4, <1>7
<1>11. /\ \A c \in Kids(high) : \E i \in 1 .. Len(high.cells) + 1 : Child(high, i) = c
       /\ \A i \in 1 .. Len(high.cells) + 1 : Child(high, i) \in Kids(high)
       /\ \A c \in Kids(low) : \E i \in 1 .. Len(low.cells) + 1 : Child(low, i) = c
       /\ \A i \in 1 .. Len(low.cells) + 1 : Child(low, i) \in Kids(low)
  BY <1>2
<1> QED BY <1>8, <1>9, <1>10, <1>11 DEF low, high, n

\* The children of the halves, before they are adopted: they are pages of the tree
\* below the one that is split.
LEMMA FullNodeChildren ==
  ASSUME IInv, TreeInv, AtFullNode, NEW T, NEW own, NEW h, TreeAt(T, own, h), at \in T
  PROVE  LET wide == WithSeparator(mem[at], sep)
             low  == LowNode(wide)
             high == HighNode(wide)
         IN  /\ \A c \in Kids(low) \cup Kids(high) :
                  /\ c \in T /\ c \in NodePages /\ c # RootPage /\ c # at
                  /\ View[c] = mem[c] /\ mem[c].parent = at /\ h[at] = h[c] + 1
             /\ \A i \in 1 .. Len(low.cells) + 1 : Child(low, i) \in Kids(low) \ Kids(high)
             /\ \A i \in 1 .. Len(high.cells) + 1 : Child(high, i) \in Kids(high)
             /\ \A c \in Kids(low) : \E i \in 1 .. Len(low.cells) + 1 : Child(low, i) = c
             /\ \A c \in Kids(high) : \E i \in 1 .. Len(high.cells) + 1 : Child(high, i) = c
             /\ \A i \in 1 .. Len(wide.cells) + 1 : Child(wide, i) \in Kids(low) \cup Kids(high)
             /\ \A c \in T \ {RootPage} : View[c].parent = at => c \in Kids(low) \cup Kids(high)
<1> DEFINE wide == WithSeparator(mem[at], sep)
           low  == LowNode(wide)
           high == HighNode(wide)
<1>1. /\ View \in [NodePages -> Leaf \cup Internal] /\ View[at] = wide
      /\ \A p \in NodePages \ {at} : View[p] = mem[p]
      /\ at \in NodePages
      /\ wide \in Internal /\ Len(wide.cells) = InternalMax + 1
      /\ Routed(wide, own, at) /\ Parented(View, T, h, at)
      /\ \A c \in T : own[c] # {} /\ own[c] \subseteq Int
  BY FullNodeOfTree
<1>2. SearchTree(View, numPages, T, own, h)
  BY DEF TreeAt
<1>3. /\ T \subseteq NodePages /\ h \in [NodePages -> Nat]
      /\ \A c \in T \ {RootPage} :
           \E i \in 1 .. Len(View[View[c].parent].cells) + 1 : Child(View[View[c].parent], i) = c
  BY <1>2 DEF SearchTree, Typed, PageOK, Rooted
<1> HIDE DEF wide
<1>4. \A j \in 1 .. Len(wide.cells) + 1 :
        LET c == Child(wide, j)
        IN  /\ c \in T /\ c # RootPage /\ View[c].parent = at /\ h[at] = h[c] + 1
            /\ own[c] # {} /\ own[c] \subseteq Int
  BY <1>1 DEF Parented
<1>5. \A j \in 1 .. Len(wide.cells) + 1 :
        LET c == Child(wide, j)
        IN  /\ c \in T /\ c \in NodePages /\ c # RootPage /\ c # at
            /\ View[c] = mem[c] /\ mem[c].parent = at /\ h[at] = h[c] + 1
  <2> TAKE j \in 1 .. Len(wide.cells) + 1
  <2> DEFINE c == Child(wide, j)
  <2>1. c \in T /\ c # RootPage /\ View[c].parent = at /\ h[at] = h[c] + 1
    BY <1>4
  <2> HIDE DEF c
  <2>2. c \in NodePages /\ h[c] \in Nat
    BY <2>1, <1>3
  <2>3. c # at
    BY <2>1, <2>2
  <2> QED BY <2>1, <2>2, <2>3, <1>1 DEF c
<1>6. /\ \A half \in {low, high} :
           \A i \in 1 .. Len(half.cells) + 1 :
             \E j \in 1 .. Len(wide.cells) + 1 : Child(half, i) = Child(wide, j)
      /\ \A j \in 1 .. Len(wide.cells) + 1 :
           \/ \E i \in 1 .. Len(low.cells) + 1 : Child(low, i) = Child(wide, j)
           \/ \E i \in 1 .. Len(high.cells) + 1 : Child(high, i) = Child(wide, j)
      /\ \A i \in 1 .. Len(low.cells) + 1 : Child(low, i) \notin Kids(high)
      /\ \A c \in Kids(high) : \E i \in 1 .. Len(high.cells) + 1 : Child(high, i) = c
      /\ \A i \in 1 .. Len(high.cells) + 1 : Child(high, i) \in Kids(high)
      /\ \A c \in Kids(low) : \E i \in 1 .. Len(low.cells) + 1 : Child(low, i) = c
      /\ \A i \in 1 .. Len(low.cells) + 1 : Child(low, i) \in Kids(low)
  <2>1. \A j \in 1 .. Len(wide.cells) + 1 :
          own[Child(wide, j)] # {} /\ own[Child(wide, j)] \subseteq Int
    BY <1>4
  <2> QED BY <2>1, <1>1, HalvesChildren
<1> HIDE DEF low, high
<1>7. \A c \in Kids(low) \cup Kids(high) : \E j \in 1 .. Len(wide.cells) + 1 : c = Child(wide, j)
  BY <1>6
<1>8. \A j \in 1 .. Len(wide.cells) + 1 : Child(wide, j) \in Kids(low) \cup Kids(high)
  BY <1>6
<1>9. \A c \in T \ {RootPage} : View[c].parent = at => c \in Kids(low) \cup Kids(high)
  BY <1>1, <1>3, <1>8
<1>10. \A c \in Kids(low) \cup Kids(high) :
         /\ c \in T /\ c \in NodePages /\ c # RootPage /\ c # at
         /\ View[c] = mem[c] /\ mem[c].parent = at /\ h[at] = h[c] + 1
  BY <1>5, <1>7
<1>11. \A i \in 1 .. Len(low.cells) + 1 : Child(low, i) \in Kids(low) \ Kids(high)
  BY <1>6
<1> QED BY <1>6, <1>8, <1>9, <1>10, <1>11 DEF wide, low, high

LEMMA SplitNodeTree ==
  ASSUME IInv, IInv', TreeInv, SplitNode,
         NEW T, NEW own, NEW h, TreeAt(T, own, h)
  PROVE  Onward(T, own)
<1> DEFINE wide  == WithSeparator(mem[at], sep)
           low   == LowNode(wide)
           high  == HighNode(wide)
           right == numPages
           s     == Promoted(wide)
           pp    == mem[at].parent
           sp    == [key |-> s, left |-> at, right |-> right]
           m     == View
           adopted == Adopt(mem, Kids(high), right)
<1>1. /\ AtFullNode /\ ~ mem[at].root /\ right < MaxPages
      /\ sep' = sp /\ at' = pp /\ pc' = pc
      /\ disk' = disk /\ filePages' = filePages /\ numPages' = numPages + 1
      /\ mem' = [adopted EXCEPT ![at] = low, ![right] = high]
  BY DEF SplitNode, Write
<1>2. pc = "separator" /\ pc' = "separator"
  BY <1>1 DEF AtFullNode
<1>3. TreeAt(T, own, h) /\ at \in T
  BY <1>2 DEF TreeAt, Placed
<1>4. SearchTree(m, numPages, T, own, h)
  BY <1>3 DEF TreeAt
<1>5. /\ m \in [NodePages -> Leaf \cup Internal] /\ m[at] = wide
      /\ \A p \in NodePages \ {at} : m[p] = mem[p]
      /\ at \in NodePages /\ mem[at] \in Internal
      /\ wide \in Internal /\ wide.type = "internal" /\ Len(wide.cells) = InternalMax + 1
      /\ wide.root = mem[at].root /\ wide.parent = pp
      /\ Routed(wide, own, at) /\ own[at] \subseteq Int /\ Convex(own[at])
  BY <1>1, <1>3, FullNodeOfTree
<1>6. /\ \A c \in Kids(low) \cup Kids(high) :
           /\ c \in T /\ c \in NodePages /\ c # RootPage /\ c # at
           /\ m[c] = mem[c] /\ mem[c].parent = at /\ h[at] = h[c] + 1
      /\ \A i \in 1 .. Len(low.cells) + 1 : Child(low, i) \in Kids(low) \ Kids(high)
      /\ \A i \in 1 .. Len(high.cells) + 1 : Child(high, i) \in Kids(high)
      /\ \A c \in Kids(low) : \E i \in 1 .. Len(low.cells) + 1 : Child(low, i) = c
      /\ \A c \in Kids(high) : \E i \in 1 .. Len(high.cells) + 1 : Child(high, i) = c
      /\ \A i \in 1 .. Len(wide.cells) + 1 : Child(wide, i) \in Kids(low) \cup Kids(high)
      /\ \A c \in T \ {RootPage} : m[c].parent = at => c \in Kids(low) \cup Kids(high)
  BY <1>1, <1>3, FullNodeChildren
<1>7. /\ low.type = "internal" /\ ~ low.root /\ low.parent = pp
      /\ high.type = "internal" /\ ~ high.root /\ high.parent = pp
  BY <1>1, FullNodeFacts
<1>8. /\ Typed(m, numPages, T, own, h) /\ PageOK(m, T, own, h, at)
      /\ T \subseteq 1 .. numPages - 1 /\ T \subseteq NodePages /\ RootPage \in T
      /\ own \in [NodePages -> SUBSET Int] /\ h \in [NodePages -> Nat]
      /\ numPages \in Nat /\ numPages >= 2
  <2>1. numPages \in 2 .. MaxPages
    BY DEF IInv, TypeOK
  <2> QED BY <2>1, <1>3, <1>4 DEF SearchTree, Typed
<1>9. /\ right \in NodePages /\ right \notin T /\ right # at /\ at # RootPage
      /\ T \cup {right} \subseteq 1 .. (numPages + 1) - 1
  <2>1. right \in NodePages
    BY <1>1, <1>8, PagesAreNodePages, CapacityAssumption
  <2>2. right \notin T /\ T \cup {right} \subseteq 1 .. (numPages + 1) - 1
    BY <1>8
  <2>3. at # RootPage
    BY <1>1, <1>3, <1>4, <1>5, RootIsRoot
  <2> QED BY <2>1, <2>2, <2>3, <1>3
<1> HIDE DEF wide, low, high, s, right, pp, m, adopted
<1>10. /\ pp \in T /\ pp \in NodePages /\ m[pp].type = "internal"
       /\ pp # at /\ pp # right /\ pp \notin Kids(low) \cup Kids(high)
  <2>1. m[at].parent = pp
    BY <1>5
  <2>2. pp \in T /\ m[pp].type = "internal"
    BY <2>1, <1>8, <1>9 DEF PageOK, Rooted
  <2>3. PICK i \in 1 .. Len(m[pp].cells) + 1 : Child(m[pp], i) = at
    BY <2>1, <1>8, <1>9 DEF PageOK, Rooted
  <2>4. h[pp] = h[at] + 1
    BY <2>2, <2>3, <1>4 DEF SearchTree, PageOK, Parented
  <2>5. h[at] \in Nat
    BY <1>5, <1>8
  <2>6. pp # at
    BY <2>4, <2>5
  <2>7. ASSUME NEW c \in Kids(low) \cup Kids(high) PROVE c # pp
    <3>1. h[at] = h[c] + 1 /\ h[c] \in Nat
      BY <2>7, <1>6, <1>8
    <3> QED BY <3>1, <2>4, <2>5
  <2> QED BY <2>2, <2>6, <2>7, <1>8, <1>9
<1>11. \A p \in NodePages \ {at, right} :
         mem'[p] = IF p \in Kids(high) THEN [mem[p] EXCEPT !.parent = right] ELSE mem[p]
  <2>1. adopted = [p \in NodePages |->
                     IF p \in Kids(high) THEN [mem[p] EXCEPT !.parent = right] ELSE mem[p]]
    BY DEF adopted, Adopt
  <2> QED BY <2>1, <1>1
<1>12. mem'[at] = low /\ mem'[right] = high
  <2>1. DOMAIN adopted = NodePages
    BY DEF adopted, Adopt
  <2> QED BY <2>1, <1>1, <1>5, <1>9
<1>13. mem' \in [NodePages -> Leaf \cup Internal]
  <2>1. mem' \in [NodePages -> LeafNode \cup InternalNode]
    BY DEF IInv, TypeOK
  <2> QED BY <2>1 DEF LeafNode, InternalNode
<1>14. View' = [mem' EXCEPT ![pp] = WithSeparator(mem'[pp], sp)]
  BY <1>1, <1>2 DEF View
<1>15. mem'[pp] = m[pp]
  BY <1>5, <1>10, <1>11
<1>16. s \in Keys \cup {0}
  <2>1. Promoted(WithSeparator(mem[at], sep)) \in Keys \cup {0}
    BY <1>1, FullNodeFacts
  <2> QED BY <2>1 DEF s, wide
<1>17. /\ \A p \in NodePages : p # pp => View'[p] = mem'[p]
       /\ View'[pp] = WithSeparator(m[pp], sp)
       /\ View' \in [NodePages -> Leaf \cup Internal]
  <2>1. m[pp] \in Internal
    BY <1>5, <1>10, PageTypes
  <2>2. sp \in [key : Keys \cup {0}, left : PageNum, right : PageNum]
    BY <1>5, <1>9, <1>16 DEF NodePages
  <2>3. WithSeparator(m[pp], sp) \in Internal
    BY <2>1, <2>2, WithSeparatorProperties
  <2> HIDE DEF sp
  <2> QED BY <2>3, <1>10, <1>13, <1>14, <1>15
<1> DEFINE lows == {k \in own[at] : k < s}
           highs == {k \in own[at] : s <= k}
           own2 == [own EXCEPT ![at] = lows, ![right] = highs]
           h2 == [h EXCEPT ![right] = h[at]]
<1>18. /\ SplitKeys(own, own2, at, right, s)
       /\ \A p \in NodePages \ {at, right} : own2[p] = own[p]
       /\ \A k \in Int : k \in own2[at] <=> k \in own[at] /\ k < s
       /\ \A k \in Int : k \in own2[right] <=> k \in own[at] /\ s <= k
  <2>1. lows \in SUBSET Int /\ highs \in SUBSET Int
    BY <1>5
  <2>2. /\ own2 \in [NodePages -> SUBSET Int]
        /\ own2[at] = lows /\ own2[right] = highs
        /\ \A p \in NodePages \ {at, right} : own2[p] = own[p]
    BY <2>1, <1>5, <1>8, <1>9
  <2> HIDE DEF own2
  <2> QED BY <2>2 DEF SplitKeys
<1>19. /\ h2 \in [NodePages -> Nat] /\ h2[right] = h[at]
       /\ \A p \in NodePages \ {right} : h2[p] = h[p]
  BY <1>5, <1>8, <1>9
<1> HIDE DEF own2
<1>20. /\ s \in own[at] /\ s - 1 \in own[at]
       /\ Routed(low, own2, at) /\ Routed(high, own2, right)
  <2>1. \A i \in 1 .. Len(wide.cells) + 1 : own2[Child(wide, i)] = own[Child(wide, i)]
    <3> TAKE i \in 1 .. Len(wide.cells) + 1
    <3> DEFINE c == Child(wide, i)
    <3>1. c \in T /\ c \in NodePages /\ c # at
      BY <1>6
    <3> HIDE DEF c
    <3>2. own2[c] = own[c]
      BY <3>1, <1>9, <1>18
    <3> QED BY <3>2 DEF c
  <2>2. /\ Routed(LowNode(wide), own2, at) /\ Routed(HighNode(wide), own2, right)
        /\ s \in own[at] /\ s - 1 \in own[at]
    <3>1. s = Promoted(wide) /\ Len(wide.cells) = InternalMax + 1 /\ wide \in Internal
      BY <1>5 DEF s
    <3>2. Routed(wide, own, at) /\ own[at] \subseteq Int /\ Convex(own[at])
      BY <1>5
    <3>3. /\ \A k \in Int : k \in own2[at] <=> k \in own[at] /\ k < s
          /\ \A k \in Int : k \in own2[right] <=> k \in own[at] /\ s <= k
      BY <1>18
    <3> HIDE DEF h2
    <3> QED BY <2>1, <3>1, <3>2, <3>3, HalvesRouted
  <2> QED BY <2>2 DEF low, high
<1>21. /\ View'[at] = low /\ View'[right] = high
       /\ \A c \in Kids(low) \ Kids(high) : View'[c] = m[c] /\ h2[c] = h[c]
       /\ \A c \in Kids(high) : View'[c].parent = right /\ h2[c] = h[c]
  <2>1. View'[at] = low /\ View'[right] = high
    BY <1>5, <1>9, <1>10, <1>12, <1>17
  <2>2. \A c \in Kids(low) \cup Kids(high) :
          c \in NodePages \ {at, right} /\ c # pp /\ View'[c] = mem'[c] /\ h2[c] = h[c]
    <3> HIDE DEF h2
    <3> QED BY <1>6, <1>9, <1>10, <1>17, <1>19
  <2>3. \A c \in Kids(low) \ Kids(high) : View'[c] = m[c]
    BY <2>2, <1>6, <1>11
  <2>4. ASSUME NEW c \in Kids(high) PROVE View'[c].parent = right
    <3>1. View'[c] = [mem[c] EXCEPT !.parent = right]
      BY <2>2, <1>11
    <3>2. mem[c] \in Leaf \cup Internal
      BY <1>5, <1>6
    <3> QED BY <3>1, <3>2 DEF Leaf, Internal
  <2> QED BY <2>1, <2>2, <2>3, <2>4
<1> HIDE DEF h2
<1>22. Parented(View', T \cup {right}, h2, at)
  <2>1. \A c \in Kids(low) \ Kids(high) :
          c \in T /\ c # RootPage /\ View'[c].parent = at /\ h2[at] = h2[c] + 1
    BY <1>5, <1>6, <1>9, <1>19, <1>21
  <2> QED BY <2>1, <1>6, <1>21 DEF Parented
<1>23. Parented(View', T \cup {right}, h2, right)
  <2>1. \A c \in Kids(high) :
          c \in T /\ c # RootPage /\ View'[c].parent = right /\ h2[right] = h2[c] + 1
    BY <1>6, <1>19, <1>21
  <2> QED BY <2>1, <1>6, <1>21 DEF Parented
<1>24. Rehomed(m, View', T, at, at, right)
  <2> SUFFICES ASSUME NEW c \in T \ {RootPage}, m[c].parent = at
               PROVE  \E q \in {at, right} :
                        /\ View'[c].parent = q
                        /\ \E i \in 1 .. Len(View'[q].cells) + 1 : Child(View'[q], i) = c
    BY DEF Rehomed
  <2>1. c \in Kids(low) \cup Kids(high)
    BY <1>6
  <2>2. CASE c \in Kids(high)
    <3>1. View'[c].parent = right
      BY <2>2, <1>21
    <3>2. \E i \in 1 .. Len(View'[right].cells) + 1 : Child(View'[right], i) = c
      BY <2>2, <1>6, <1>21
    <3> QED BY <3>1, <3>2
  <2>3. CASE c \in Kids(low) \ Kids(high)
    <3>1. View'[c].parent = at
      BY <2>3, <1>6, <1>21
    <3>2. \E i \in 1 .. Len(View'[at].cells) + 1 : Child(View'[at], i) = c
      BY <2>3, <1>6, <1>21
    <3> QED BY <3>1, <3>2
  <2> QED BY <2>1, <2>2, <2>3
<1>25. Split(m, View', T, own2, h2, at, right, s)
  <2>1. m[at].parent = pp /\ m[at].type = "internal"
    BY <1>5
  <2>2. \A p \in NodePages \ {at, right, pp} :
          \/ View'[p] = m[p]
          \/ m[p].parent = at /\ View'[p] = [m[p] EXCEPT !.parent = right]
    <3> TAKE p \in NodePages \ {at, right, pp}
    <3>1. View'[p] = mem'[p] /\ m[p] = mem[p]
      BY <1>5, <1>17
    <3>2. CASE p \in Kids(high)
      BY <3>1, <3>2, <1>6, <1>11
    <3>3. CASE p \notin Kids(high)
      BY <3>1, <3>3, <1>11
    <3> QED BY <3>2, <3>3
  <2>3. /\ View'[at].type = "internal" /\ ~ View'[at].root /\ View'[at].parent = pp
        /\ View'[right].type = "internal" /\ ~ View'[right].root /\ View'[right].parent = pp
    BY <1>7, <1>21
  <2>4. Routed(View'[at], own2, at) /\ Routed(View'[right], own2, right)
    BY <1>20, <1>21
  <2>5. View'[pp] = WithSeparator(m[pp], [key |-> s, left |-> at, right |-> right])
    BY <1>17
  <2> HIDE DEF sp
  <2> QED BY <2>1, <2>2, <2>3, <2>4, <2>5, <1>22, <1>23, <1>24 DEF Split
<1>26. SearchTree(View', numPages + 1, T \cup {right}, own2, h2)
  <2> HIDE DEF sp
  <2>1. h2 = [h EXCEPT ![right] = h[at]]
    BY DEF h2
  <2> QED BY <2>1, <1>3, <1>4, <1>9, <1>16, <1>17, <1>18, <1>20, <1>25, SplitKeepsTree
<1>27. KeptEmpty(T, own, T \cup {right}, own2)
  <2>1. mem'[at].type = "internal" /\ mem'[right].type = "internal"
    BY <1>7, <1>12
  <2>2. ASSUME NEW p \in T \ {at}
        PROVE  mem'[p].type = mem[p].type /\ mem'[p].cells = mem[p].cells /\ own2[p] = own[p]
    <3>1. p \in NodePages \ {at, right}
      BY <2>2, <1>8, <1>9
    <3>2. mem[p] \in Leaf \cup Internal
      BY <3>1, <1>5
    <3> QED BY <3>1, <3>2, <1>11, <1>18 DEF Leaf, Internal
  <2> QED BY <2>1, <2>2 DEF KeptEmpty
<1>28. \E T2, o2, g2 : /\ SearchTree(View', numPages', T2, o2, g2) /\ at' \in T2
                        /\ KeptEmpty(T, own, T2, o2)
  BY <1>1, <1>10, <1>26, <1>27
<1> QED BY <1>1, <1>2, <1>28, TreeAgain

LEMMA SplitRootNodeTree ==
  ASSUME IInv, IInv', TreeInv, SplitRootNode,
         NEW T, NEW own, NEW h, TreeAt(T, own, h)
  PROVE  Onward(T, own)
<1> DEFINE wide  == WithSeparator(mem[at], sep)
           low   == LowNode(wide)
           high  == HighNode(wide)
           left  == numPages
           right == numPages + 1
           s     == Promoted(wide)
           up    == [key |-> s, left |-> left, right |-> right]
           m     == View
           rootNode == RootOver(mem[at], up)
           leftNode == [low EXCEPT !.parent = at]
           rightNode == [high EXCEPT !.parent = at]
           adopted == Adopt(Adopt(mem, Kids(low), left), Kids(high), right)
<1>1. /\ AtFullNode /\ mem[at].root /\ right < MaxPages /\ pc' = "idle"
      /\ disk' = disk /\ filePages' = filePages /\ numPages' = numPages + 2
      /\ mem' = [adopted EXCEPT ![left] = leftNode, ![right] = rightNode, ![at] = rootNode]
  BY DEF SplitRootNode, Write, Finish
<1>2. pc = "separator"
  BY <1>1 DEF AtFullNode
<1>3. TreeAt(T, own, h) /\ at \in T
  BY <1>2 DEF TreeAt, Placed
<1>4. SearchTree(m, numPages, T, own, h)
  BY <1>3 DEF TreeAt
<1>5. /\ m \in [NodePages -> Leaf \cup Internal] /\ m[at] = wide
      /\ \A p \in NodePages \ {at} : m[p] = mem[p]
      /\ at \in NodePages /\ mem[at] \in Internal
      /\ wide \in Internal /\ wide.type = "internal" /\ Len(wide.cells) = InternalMax + 1
      /\ wide.root = mem[at].root /\ wide.parent = mem[at].parent
      /\ Routed(wide, own, at) /\ own[at] \subseteq Int /\ Convex(own[at])
  BY <1>1, <1>3, FullNodeOfTree
<1>6. /\ \A c \in Kids(low) \cup Kids(high) :
           /\ c \in T /\ c \in NodePages /\ c # RootPage /\ c # at
           /\ m[c] = mem[c] /\ mem[c].parent = at /\ h[at] = h[c] + 1
      /\ \A i \in 1 .. Len(low.cells) + 1 : Child(low, i) \in Kids(low) \ Kids(high)
      /\ \A i \in 1 .. Len(high.cells) + 1 : Child(high, i) \in Kids(high)
      /\ \A c \in Kids(low) : \E i \in 1 .. Len(low.cells) + 1 : Child(low, i) = c
      /\ \A c \in Kids(high) : \E i \in 1 .. Len(high.cells) + 1 : Child(high, i) = c
      /\ \A i \in 1 .. Len(wide.cells) + 1 : Child(wide, i) \in Kids(low) \cup Kids(high)
      /\ \A c \in T \ {RootPage} : m[c].parent = at => c \in Kids(low) \cup Kids(high)
  BY <1>1, <1>3, FullNodeChildren
<1>7. /\ low \in Internal /\ ~ low.root /\ high \in Internal /\ ~ high.root
      /\ s \in Keys \cup {0} /\ s \in Int
  <2>1. /\ low \in InternalNode /\ ~ low.root /\ high \in InternalNode /\ ~ high.root
        /\ s \in Keys \cup {0}
    BY <1>1, FullNodeFacts
  <2> HIDE DEF low, high, s
  <2> QED BY <2>1, KeysAssumption DEF InternalNode
<1>8. /\ Typed(m, numPages, T, own, h) /\ at = RootPage
      /\ T \subseteq 1 .. numPages - 1 /\ T \subseteq NodePages
      /\ own \in [NodePages -> SUBSET Int] /\ own[at] = Int /\ h \in [NodePages -> Nat]
      /\ numPages \in Nat /\ numPages >= 2
  <2>1. numPages \in 2 .. MaxPages
    BY DEF IInv, TypeOK
  <2>2. at = RootPage
    <3>1. m[at].root
      BY <1>1, <1>5
    <3> HIDE DEF m
    <3> QED BY <3>1, <1>3, <1>4, RootIsRoot
  <2> QED BY <2>1, <2>2, <1>4 DEF SearchTree, Typed
<1>9. /\ right \in NodePages /\ left \in NodePages /\ right \notin T /\ left \notin T
      /\ right # at /\ left # at /\ left # right
      /\ T \cup {left, right} \subseteq 1 .. (numPages + 2) - 1
  <2>1. right \in NodePages /\ left \in NodePages
    BY <1>1, <1>8, PagesAreNodePages, CapacityAssumption
  <2>2. right \notin T /\ left \notin T /\ left # right
    BY <1>8
  <2>3. T \cup {left, right} \subseteq 1 .. (numPages + 2) - 1
    BY <1>8
  <2> QED BY <2>1, <2>2, <2>3, <1>3
<1> HIDE DEF wide, low, high, s, left, right, m, adopted, rootNode, leftNode, rightNode
<1>10. /\ mem'[left] = leftNode /\ mem'[right] = rightNode /\ mem'[at] = rootNode
       /\ \A p \in NodePages \ {left, right, at} : mem'[p] = adopted[p]
  <2>1. DOMAIN adopted = NodePages
    BY DEF adopted, Adopt
  <2> QED BY <2>1, <1>1, <1>5, <1>9
<1>11. \A c \in Kids(low) : c \notin Kids(high)
  BY <1>6
<1>12. \A p \in NodePages \ {left, right, at} :
         /\ p \in Kids(low) => mem'[p] = [mem[p] EXCEPT !.parent = left]
         /\ p \in Kids(high) => mem'[p] = [mem[p] EXCEPT !.parent = right]
         /\ p \notin Kids(low) \cup Kids(high) => mem'[p] = mem[p]
  <2> TAKE p \in NodePages \ {left, right, at}
  <2>1. Adopt(mem, Kids(low), left)[p] =
          IF p \in Kids(low) THEN [mem[p] EXCEPT !.parent = left] ELSE mem[p]
    BY DEF Adopt
  <2>2. adopted[p] = IF p \in Kids(high)
                     THEN [Adopt(mem, Kids(low), left)[p] EXCEPT !.parent = right]
                     ELSE Adopt(mem, Kids(low), left)[p]
    BY DEF Adopt, adopted
  <2> QED BY <2>1, <2>2, <1>10, <1>11
<1>13. mem' \in [NodePages -> Leaf \cup Internal] /\ View' = mem'
  <2>1. mem' \in [NodePages -> LeafNode \cup InternalNode]
    BY DEF IInv, TypeOK
  <2> QED BY <2>1, <1>1 DEF LeafNode, InternalNode, View
<1>14. rootNode = RootOver(m[at], up)
  <2> HIDE DEF up
  <2>1. rootNode = RootOver(mem[at], up)
    BY DEF rootNode
  <2>2. mem[at] \in Internal /\ wide \in Internal /\ wide.parent = mem[at].parent
    BY <1>5
  <2>3. RootOver(mem[at], up) = RootOver(wide, up)
    BY <2>2 DEF RootOver, Internal
  <2> QED BY <2>1, <2>3, <1>5
<1>15. /\ leftNode.type = "internal" /\ ~ leftNode.root /\ leftNode.parent = at
       /\ leftNode.cells = low.cells /\ leftNode.link = low.link
       /\ rightNode.type = "internal" /\ ~ rightNode.root /\ rightNode.parent = at
       /\ rightNode.cells = high.cells /\ rightNode.link = high.link
  BY <1>7 DEF leftNode, rightNode, Internal
<1>16. /\ \A i : Child(leftNode, i) = Child(low, i)
       /\ \A i : Child(rightNode, i) = Child(high, i)
  BY <1>15 DEF Child
<1> DEFINE lows == {k \in own[at] : k < s}
           highs == {k \in own[at] : s <= k}
           own2 == [own EXCEPT ![left] = lows, ![right] = highs]
           h2 == [h EXCEPT ![left] = h[at], ![right] = h[at], ![at] = h[at] + 1]
<1>17. /\ GrowKeys(own, own2, left, right, s)
       /\ \A p \in NodePages \ {left, right} : own2[p] = own[p]
       /\ \A k \in Int : k \in own2[left] <=> k \in own[at] /\ k < s
       /\ \A k \in Int : k \in own2[right] <=> k \in own[at] /\ s <= k
  <2>1. lows \in SUBSET Int /\ highs \in SUBSET Int
    BY <1>5
  <2>2. /\ own2 \in [NodePages -> SUBSET Int]
        /\ own2[left] = lows /\ own2[right] = highs
        /\ \A p \in NodePages \ {left, right} : own2[p] = own[p]
    BY <2>1, <1>5, <1>8, <1>9
  <2> HIDE DEF own2
  <2> QED BY <2>2, <1>8 DEF GrowKeys
<1>18. /\ GrowHeights(h, h2, left, right)
       /\ h2[left] = h[at] /\ h2[right] = h[at]
       /\ \A p \in NodePages \ {left, right, at} : h2[p] = h[p]
  BY <1>5, <1>8, <1>9 DEF GrowHeights
<1> HIDE DEF own2, h2
<1>19. Routed(low, own2, left) /\ Routed(high, own2, right)
  <2>1. \A i \in 1 .. Len(wide.cells) + 1 : own2[Child(wide, i)] = own[Child(wide, i)]
    <3> TAKE i \in 1 .. Len(wide.cells) + 1
    <3> DEFINE c == Child(wide, i)
    <3>1. c \in T /\ c \in NodePages
      BY <1>6
    <3> HIDE DEF c
    <3>2. own2[c] = own[c]
      BY <3>1, <1>9, <1>17
    <3> QED BY <3>2 DEF c
  <2>2. Routed(LowNode(wide), own2, left) /\ Routed(HighNode(wide), own2, right)
    <3>1. s = Promoted(wide) /\ Len(wide.cells) = InternalMax + 1 /\ wide \in Internal
      BY <1>5 DEF s
    <3>2. Routed(wide, own, at) /\ own[at] \subseteq Int /\ Convex(own[at])
      BY <1>5
    <3>3. /\ \A k \in Int : k \in own2[left] <=> k \in own[at] /\ k < s
          /\ \A k \in Int : k \in own2[right] <=> k \in own[at] /\ s <= k
      BY <1>17
    <3> QED BY <2>1, <3>1, <3>2, <3>3, HalvesRouted
  <2> QED BY <2>2 DEF low, high
<1>20. Routed(leftNode, own2, left) /\ Routed(rightNode, own2, right)
  BY <1>15, <1>16, <1>19 DEF Routed, Between
<1>21. \A c \in Kids(low) \cup Kids(high) :
         c \in NodePages \ {left, right, at} /\ mem[c] \in Leaf \cup Internal /\ h2[c] = h[c]
  BY <1>5, <1>6, <1>9, <1>18
<1>22. /\ \A c \in Kids(low) : mem'[c].parent = left
       /\ \A c \in Kids(high) : mem'[c].parent = right
  <2>1. \A c \in Kids(low) : mem'[c] = [mem[c] EXCEPT !.parent = left]
    BY <1>12, <1>21
  <2>2. \A c \in Kids(high) : mem'[c] = [mem[c] EXCEPT !.parent = right]
    BY <1>12, <1>21
  <2>3. \A c \in Kids(low) \cup Kids(high) : mem[c] \in Leaf \cup Internal
    BY <1>21
  <2>4. ASSUME NEW c \in Kids(low) PROVE mem'[c].parent = left
    <3>1. mem[c] \in Leaf \cup Internal /\ mem'[c] = [mem[c] EXCEPT !.parent = left]
      BY <2>4, <2>1, <2>3
    <3> QED BY <3>1 DEF Leaf, Internal
  <2>5. ASSUME NEW c \in Kids(high) PROVE mem'[c].parent = right
    <3>1. mem[c] \in Leaf \cup Internal /\ mem'[c] = [mem[c] EXCEPT !.parent = right]
      BY <2>5, <2>2, <2>3
    <3> QED BY <3>1 DEF Leaf, Internal
  <2> QED BY <2>4, <2>5
<1>23. Parented(mem', T \cup {left, right}, h2, left)
  <2>1. \A c \in Kids(low) : c \in T /\ c # RootPage /\ mem'[c].parent = left /\ h2[left] = h2[c] + 1
    BY <1>6, <1>18, <1>21, <1>22
  <2> QED BY <2>1, <1>6, <1>10, <1>15, <1>16 DEF Parented
<1>24. Parented(mem', T \cup {left, right}, h2, right)
  <2>1. \A c \in Kids(high) :
          c \in T /\ c # RootPage /\ mem'[c].parent = right /\ h2[right] = h2[c] + 1
    BY <1>6, <1>18, <1>21, <1>22
  <2> QED BY <2>1, <1>6, <1>10, <1>15, <1>16 DEF Parented
<1>25. Rehomed(m, mem', T, at, left, right)
  <2> SUFFICES ASSUME NEW c \in T \ {RootPage}, m[c].parent = at
               PROVE  \E q \in {left, right} :
                        /\ mem'[c].parent = q
                        /\ \E i \in 1 .. Len(mem'[q].cells) + 1 : Child(mem'[q], i) = c
    BY DEF Rehomed
  <2>1. c \in Kids(low) \cup Kids(high)
    BY <1>6
  <2>2. CASE c \in Kids(high)
    <3>1. mem'[c].parent = right
      BY <2>2, <1>22
    <3>2. \E i \in 1 .. Len(mem'[right].cells) + 1 : Child(mem'[right], i) = c
      BY <2>2, <1>6, <1>10, <1>15, <1>16
    <3> QED BY <3>1, <3>2
  <2>3. CASE c \in Kids(low)
    <3>1. mem'[c].parent = left
      BY <2>3, <1>22
    <3>2. \E i \in 1 .. Len(mem'[left].cells) + 1 : Child(mem'[left], i) = c
      BY <2>3, <1>6, <1>10, <1>15, <1>16
    <3> QED BY <3>1, <3>2
  <2> QED BY <2>1, <2>2, <2>3
<1>26. Grow(m, mem', T, own2, h2, left, right, s)
  <2>1. m[RootPage].type = "internal" /\ at = RootPage
    BY <1>5, <1>8
  <2>2. \A p \in NodePages \ {left, right, RootPage} :
          \/ mem'[p] = m[p]
          \/ m[p].parent = RootPage /\ \E q \in {left, right} : mem'[p] = [m[p] EXCEPT !.parent = q]
    <3> TAKE p \in NodePages \ {left, right, RootPage}
    <3>1. p \in NodePages \ {left, right, at} /\ m[p] = mem[p]
      BY <1>5, <1>8
    <3>2. CASE p \in Kids(low) \cup Kids(high)
      BY <3>1, <3>2, <1>6, <1>8, <1>12
    <3>3. CASE p \notin Kids(low) \cup Kids(high)
      BY <3>1, <3>3, <1>12
    <3> QED BY <3>2, <3>3
  <2>3. mem'[RootPage] = RootOver(m[RootPage], [key |-> s, left |-> left, right |-> right])
    BY <1>8, <1>10, <1>14
  <2>4. /\ mem'[left].type = "internal" /\ ~ mem'[left].root /\ mem'[left].parent = RootPage
        /\ mem'[right].type = "internal" /\ ~ mem'[right].root /\ mem'[right].parent = RootPage
    BY <1>8, <1>10, <1>15
  <2>5. Routed(mem'[left], own2, left) /\ Routed(mem'[right], own2, right)
    BY <1>10, <1>20
  <2>6. Rehomed(m, mem', T, RootPage, left, right)
    BY <1>8, <1>25
  <2> HIDE DEF up
  <2> QED BY <2>1, <2>2, <2>3, <2>4, <2>5, <2>6, <1>23, <1>24 DEF Grow
<1>27. SearchTree(mem', numPages + 2, T \cup {left, right}, own2, h2)
  <2> HIDE DEF up
  <2> QED BY <1>4, <1>7, <1>9, <1>13, <1>17, <1>18, <1>26, GrowKeepsTree
<1>28. KeptEmpty(T, own, T \cup {left, right}, own2)
  <2>1. mem'[left].type = "internal" /\ mem'[right].type = "internal"
    BY <1>10, <1>15
  <2>2. mem'[at].type = "internal"
    BY <1>10, <1>14 DEF RootOver
  <2>3. ASSUME NEW p \in T \ {at}
        PROVE  mem'[p].type = mem[p].type /\ mem'[p].cells = mem[p].cells /\ own2[p] = own[p]
    <3>1. p \in NodePages \ {left, right, at}
      BY <2>3, <1>8, <1>9
    <3>2. mem[p] \in Leaf \cup Internal
      BY <3>1, <1>5
    <3>3. mem'[p] = mem[p] \/ \E q : mem'[p] = [mem[p] EXCEPT !.parent = q]
      BY <3>1, <1>12
    <3> QED BY <3>1, <3>2, <3>3, <1>17 DEF Leaf, Internal
  <2> QED BY <2>1, <2>2, <2>3 DEF KeptEmpty
<1>29. \E T2, o2, g2 : SearchTree(View', numPages', T2, o2, g2) /\ KeptEmpty(T, own, T2, o2)
  BY <1>1, <1>13, <1>27, <1>28
<1> QED BY <1>1, <1>29, TreeAgain

-----------------------------------------------------------------------------
\* A step of a statement, unless it runs out of pages, goes on to a tree.
TreeStatement ==
  \/ BeginInsert \/ BeginSelect \/ BeginDelete \/ BeginUpdate
  \/ Descend \/ Lookup \/ Duplicate \/ InsertIntoLeaf
  \/ SplitRootLeaf \/ SplitLeaf \/ NoPageForLeaf
  \/ InsertSeparator \/ SplitRootNode \/ SplitNode
  \/ ToFirstLeaf \/ DeleteRow \/ DeleteNext \/ UpdateLeaf

LEMMA StatementGoesOn ==
  ASSUME IInv, IInv', TreeInv, TreeStatement, NEW T, NEW own, NEW h, TreeAt(T, own, h)
  PROVE  Onward(T, own)
<1>1. CASE BeginInsert \/ BeginSelect \/ BeginDelete \/ BeginUpdate
  BY <1>1, BeginsTree
<1>2. CASE Descend
  BY <1>2, DescendTree
<1>3. CASE Lookup \/ Duplicate \/ NoPageForLeaf
  BY <1>3, QuietsTree
<1>4. CASE InsertIntoLeaf
  BY <1>4, InsertIntoLeafTree
<1>5. CASE SplitRootLeaf
  BY <1>5, SplitRootLeafTree
<1>6. CASE SplitLeaf
  BY <1>6, SplitLeafTree
<1>7. CASE InsertSeparator
  BY <1>7, InsertSeparatorTree
<1>8. CASE SplitNode
  BY <1>8, SplitNodeTree
<1>9. CASE SplitRootNode
  BY <1>9, SplitRootNodeTree
<1>10. CASE ToFirstLeaf
  BY <1>10, ToFirstLeafTree
<1>11. CASE DeleteRow
  BY <1>11, DeleteRowTree
<1>12. CASE DeleteNext
  BY <1>12, DeleteNextTree
<1>13. CASE UpdateLeaf
  BY <1>13, UpdateLeafTree
<1> QED BY <1>1, <1>2, <1>3, <1>4, <1>5, <1>6, <1>7, <1>8, <1>9, <1>10, <1>11, <1>12,
           <1>13 DEF TreeStatement

\* A statement takes its step in a tree, and not in the file.
LEMMA StatementFacts ==
  ASSUME IInv, TreeStatement
  PROVE  /\ result.code # "error" /\ disk' = disk /\ filePages' = filePages
         /\ dirty \subseteq dirty'
<1>1. result.code # "error"
  <2>1. pc = "idle" => result.code # "error"
    BY DEF TreeStatement, BeginInsert, BeginSelect, BeginDelete, BeginUpdate, Begin, Descend,
           Lookup, Duplicate, InsertIntoLeaf, SplitRootLeaf, SplitLeaf, NoPageForLeaf,
           AtFullLeaf, AtInsertLeaf, InsertSeparator, SplitRootNode, SplitNode, AtFullNode,
           ToFirstLeaf, DeleteRow, DeleteNext, UpdateLeaf
  <2> QED BY <2>1 DEF IInv, StepInv
<1>2. disk' = disk /\ filePages' = filePages /\ dirty \subseteq dirty'
  BY DEF TreeStatement, BeginInsert, BeginSelect, BeginDelete, BeginUpdate, Begin, Descend,
         Lookup, Duplicate, InsertIntoLeaf, SplitRootLeaf, SplitLeaf, NoPageForLeaf,
         InsertSeparator, SplitRootNode, SplitNode, ToFirstLeaf, DeleteRow, DeleteNext,
         UpdateLeaf, Write, pager
<1> QED BY <1>1, <1>2

\* Every step keeps the tree, but for a restart that brings back parent pointers that
\* were not saved.
LEMMA NextTree ==
  IInv /\ IInv' /\ TreeInv /\ [Next]_vars /\ [Restart => ParentsSaved]_vars => TreeInv'
<1> SUFFICES ASSUME IInv, IInv', TreeInv, [Next]_vars, [Restart => ParentsSaved]_vars
             PROVE  TreeInv'
  OBVIOUS
<1>1. CASE TreeStatement
  <2>1. result.code # "error" /\ disk' = disk /\ filePages' = filePages
    BY <1>1, StatementFacts
  <2>2. PICK T, own, h : TreeAt(T, own, h)
    BY <2>1 DEF TreeInv
  <2>3. Onward(T, own)
    BY <1>1, <2>2, StatementGoesOn
  <2>4. (\E T2, own2, h2 : SearchTree(disk, filePages, T2, own2, h2))'
    BY <2>1 DEF TreeInv
  <2> QED BY <2>3, <2>4 DEF Onward, TreeInv
<1>2. CASE SplitRootLeafHalfway \/ NoPagesForRootNode \/ NoPageForNode \/ Crash
  BY <1>2, HopelessTree
<1>3. CASE Restart /\ ParentsSaved
  BY <1>3, RestartTree
<1>4. CASE UNCHANGED vars
  <2>1. /\ mem' = mem /\ numPages' = numPages /\ disk' = disk /\ filePages' = filePages
        /\ pc' = pc /\ at' = at /\ sep' = sep /\ stmt' = stmt /\ result' = result
    BY <1>4 DEF vars, pager, control
  <2>2. View' = View
    BY <2>1 DEF View
  <2>3. \A T, own, h : TreeAt(T, own, h) => TreeAt(T, own, h)'
    BY <2>1, <2>2 DEF TreeAt, Placed, Done
  <2>4. (\E T, own, h : SearchTree(disk, filePages, T, own, h))'
    BY <2>1 DEF TreeInv
  <2> QED BY <2>1, <2>3, <2>4 DEF TreeInv
<1> QED BY <1>1, <1>2, <1>3, <1>4 DEF Next, Step, TreeStatement

\* The tree is a search tree as long as the database is not reopened after an
\* internal node was split.
THEOREM TreeHolds == Spec /\ [][Restart => ParentsSaved]_vars => []TreeInv
<1>1. Init => TreeInv
  BY InitTree
<1> QED BY <1>1, NextTree, InvariantHolds, PTL DEF Spec
=============================================================================
