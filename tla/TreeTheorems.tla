---------------------------- MODULE TreeTheorems ----------------------------
(***************************************************************************)
(* What follows from the search tree of module TreeProofs: between two     *)
(* statements the properties of module BTreeProperties, to its user the    *)
(* table of module DurableTable, which the tree implements, and to a       *)
(* SELECT the properties of module Scan.                                   *)
(*                                                                         *)
(* The properties speak of recursive functions on the pages.  Such a       *)
(* function exists because each of its arguments leads to smaller ones,    *)
(* those of a lower height, or those that are nearer the end of the chain. *)
(*                                                                         *)
(* For the table there is a lemma on the rows of the pages for each action *)
(* that writes to them, and one on the step of the table it amounts to.    *)
(* The search tree says why a statement need not look further than the     *)
(* leaf that it comes to, and why a walk that ends has seen all leaves.    *)
(*                                                                         *)
(* For the scans the invariant, ScanInv, says which cells the cursor is    *)
(* past, that those are what it has shown, and that the bytes an emptied   *)
(* leaf keeps are those of a row whose key that leaf still owns.           *)
(***************************************************************************)
EXTENDS TreeProofs, Scan

-----------------------------------------------------------------------------
\* Between two statements the pages themselves are the tree.
LEMMA SettledTree ==
  ASSUME IInv, TreeInv, Settled
  PROVE  /\ mem \in [NodePages -> Leaf \cup Internal]
         /\ InUse \subseteq NodePages /\ RootPage \in NodePages
         /\ \E T, own, h : SearchTree(mem, numPages, T, own, h)
<1>1. pc = "idle" /\ result.code # "error"
  BY DEF Settled
<1>2. PICK T, own, h : SearchTree(View, numPages, T, own, h)
  BY <1>1 DEF TreeInv, TreeAt
<1>3. SearchTree(mem, numPages, T, own, h) /\ mem \in [NodePages -> Leaf \cup Internal]
  BY <1>1, <1>2, ViewPages
<1>4. InUse \subseteq NodePages
  <2>1. numPages \in 2 .. MaxPages
    BY DEF IInv, TypeOK
  <2>2. 1 .. numPages - 1 \subseteq 1 .. MaxPages - 1
    BY <2>1, CapacityAssumption
  <2> QED BY <2>2, PagesAreNodePages DEF InUse
<1>5. RootPage \in NodePages
  BY <1>3 DEF SearchTree, Typed
<1> QED BY <1>3, <1>4, <1>5

\* What a page of a tree is, and what one of no tree is not.
LEMMA TreePages ==
  ASSUME NEW m, NEW count, NEW T, NEW own, NEW h, SearchTree(m, count, T, own, h)
  PROVE  /\ T \subseteq NodePages /\ RootPage \in T /\ own[RootPage] = Int
         /\ h \in [NodePages -> Nat] /\ m \in [NodePages -> Leaf \cup Internal]
         /\ \A p \in NodePages : m[p].type = "internal" => p \in T /\ m[p] \in Internal
         /\ \A p \in NodePages \ T : m[p].type = "leaf" /\ m[p].link = 0 /\ m[p].cells = <<>>
         /\ \A p \in T : /\ own[p] # {} /\ own[p] \subseteq Int /\ Convex(own[p])
                         /\ h[p] <= h[RootPage]
                         /\ m[p].type \in {"leaf", "internal"}
         /\ \A p \in T : m[p].type = "leaf" =>
              h[p] = 1 /\ Filled(m[p], own, p) /\ Chained(m, T, own, p)
         /\ \A p \in T : m[p].type = "internal" =>
              m[p] \in Internal /\ Routed(m[p], own, p) /\ Parented(m, T, h, p)
<1>1. /\ Typed(m, count, T, own, h) /\ \A p \in T : PageOK(m, T, own, h, p)
      /\ \A p \in NodePages \ T : Empty(m[p])
  BY DEF SearchTree
<1>2. /\ T \subseteq NodePages /\ RootPage \in T /\ own[RootPage] = Int
      /\ h \in [NodePages -> Nat] /\ m \in [NodePages -> Leaf \cup Internal]
      /\ own \in [NodePages -> SUBSET Int]
  BY <1>1 DEF Typed
<1>3. \A p \in NodePages : /\ m[p].type = "internal" => m[p] \in Internal
                           /\ m[p].type \in {"leaf", "internal"}
  BY <1>2, PageTypes
<1>4. \A p \in NodePages \ T : m[p].type = "leaf" /\ m[p].link = 0 /\ m[p].cells = <<>>
  BY <1>1 DEF Empty
<1>5. \A p \in NodePages : m[p].type = "internal" => p \in T
  BY <1>4
<1>6. \A p \in T : /\ own[p] # {} /\ own[p] \subseteq Int /\ Convex(own[p])
                   /\ h[p] <= h[RootPage]
  BY <1>1, <1>2 DEF PageOK
<1> QED BY <1>1, <1>2, <1>3, <1>4, <1>5, <1>6 DEF PageOK

-----------------------------------------------------------------------------
\* Every child of an internal node points back at it.
LEMMA ParentsArePointedAt == ASSUME IInv, TreeInv PROVE ParentPointers
<1> SUFFICES ASSUME Settled, NEW p \in InUse, mem[p].type = "internal", NEW c \in Kids(mem[p])
             PROVE  mem[c].parent = p /\ ~ mem[c].root
  BY DEF ParentPointers
<1>1. PICK T, own, h : SearchTree(mem, numPages, T, own, h)
  BY SettledTree
<1>2. p \in NodePages
  BY SettledTree
<1>3. mem[p] \in Internal /\ Parented(mem, T, h, p)
  BY <1>1, <1>2, TreePages
<1>4. PICK i \in 1 .. Len(mem[p].cells) + 1 : Child(mem[p], i) = c
  BY <1>3, InternalFields
<1>5. c \in T /\ c # RootPage /\ mem[c].parent = p
  BY <1>3, <1>4 DEF Parented
<1> QED BY <1>1, <1>5, RootIsRoot

\* As long as the database is not reopened after an internal node was split, parent
\* pointers can be trusted.
THEOREM ParentPointersHold ==
  Spec /\ [][Restart => ParentsSaved]_vars => []ParentPointers
<1>1. IInv /\ TreeInv => ParentPointers
  BY ParentsArePointedAt
<1> QED BY <1>1, InvariantHolds, TreeHolds, PTL

-----------------------------------------------------------------------------
\* A recursive walk down the tree comes to an end: next[p] is the child that it goes to.
LEMMA WalkDownExists ==
  ASSUME NEW m, NEW count, NEW T, NEW own, NEW h, SearchTree(m, count, T, own, h), NEW next,
         \A p \in T : m[p].type = "internal" => next[p] \in T /\ h[p] = h[next[p]] + 1
  PROVE  \E f : f = [p \in NodePages |-> IF m[p].type = "leaf" THEN p ELSE f[next[p]]]
<1> DEFINE S == NodePages
           F == [f \in [S -> S] |->
                  [p \in S |-> IF m[p].type = "leaf" THEN p ELSE f[next[p]]]]
           g == [p \in S |-> IF p \in T THEN h[p] ELSE 0]
           N == h[RootPage] + 1
<1>1. /\ T \subseteq S /\ RootPage \in T /\ h \in [S -> Nat]
      /\ \A p \in S : m[p].type = "internal" => p \in T
      /\ \A p \in S : m[p].type \in {"leaf", "internal"}
      /\ \A p \in T : h[p] <= h[RootPage]
  BY TreePages
<1>2. \A p \in S : m[p].type # "leaf" => /\ p \in T /\ next[p] \in S /\ g[next[p]] < g[p]
  <2> TAKE p \in S
  <2> HAVE m[p].type # "leaf"
  <2>1. p \in T /\ next[p] \in T /\ h[p] = h[next[p]] + 1
    BY <1>1
  <2>2. h[next[p]] \in Nat /\ next[p] \in S
    BY <2>1, <1>1
  <2> QED BY <2>1, <2>2, <1>1
<1>3. g \in [S -> Nat] /\ N \in Nat /\ \A p \in S : g[p] < N
  BY <1>1
<1> HIDE DEF g, N
<1>4. F \in [[S -> S] -> [S -> S]]
  <2>1. ASSUME NEW f \in [S -> S]
        PROVE  [p \in S |-> IF m[p].type = "leaf" THEN p ELSE f[next[p]]] \in [S -> S]
    BY <1>2
  <2> QED BY <2>1
<1>5. Descends(F, S, S, g)
  <2> SUFFICES ASSUME NEW f1 \in [S -> S], NEW f2 \in [S -> S], NEW p \in S,
                      \A q \in S : g[q] < g[p] => f1[q] = f2[q]
               PROVE  F[f1][p] = F[f2][p]
    BY DEF Descends
  <2> QED BY <1>2
<1>6. \E f \in [S -> S] : f = F[f]
  <2>1. [p \in S |-> p] \in [S -> S]
    OBVIOUS
  <2> HIDE DEF F, S
  <2>2. Recursive(F, S, S, g, N)
    BY <2>1, <1>3, <1>4, <1>5 DEF Recursive
  <2> QED BY <2>2, RecursionHasSolution
<1> QED BY <1>6

\* leaf_node_for_key ends at the leaf that owns the key.
LEMMA LeafForOwns ==
  ASSUME NEW T, NEW own, NEW h, SearchTree(mem, numPages, T, own, h), NEW k \in Int
  PROVE  /\ LeafFor(k) \in T /\ mem[LeafFor(k)].type = "leaf" /\ k \in own[LeafFor(k)]
<1> DEFINE next == [p \in T |-> ChildFor(mem[p], k)]
           down == CHOOSE f : f = [p \in NodePages |-> IF mem[p].type = "leaf" THEN p
                                                       ELSE f[ChildFor(mem[p], k)]]
<1>1. /\ T \subseteq NodePages /\ RootPage \in T /\ own[RootPage] = Int /\ h \in [NodePages -> Nat]
      /\ \A p \in NodePages : mem[p].type = "internal" => p \in T /\ mem[p] \in Internal
      /\ \A p \in T : mem[p].type \in {"leaf", "internal"}
      /\ \A p \in T : own[p] # {}
      /\ \A p \in NodePages : mem[p].type \in {"leaf", "internal"}
  BY TreePages
<1>2. \A p \in T : mem[p].type = "internal" =>
        ChildFor(mem[p], k) \in T /\ h[p] = h[ChildFor(mem[p], k)] + 1
  <2> TAKE p \in T
  <2> HAVE mem[p].type = "internal"
  <2>1. mem[p] \in Internal /\ Routed(mem[p], own, p) /\ Parented(mem, T, h, p)
    BY TreePages
  <2>2. PICK i \in 1 .. Len(mem[p].cells) + 1 : ChildFor(mem[p], k) = Child(mem[p], i)
    BY <2>1, RouteExists DEF Routed
  <2> QED BY <2>1, <2>2 DEF Parented
<1>3. down = [p \in NodePages |-> IF mem[p].type = "leaf" THEN p ELSE down[ChildFor(mem[p], k)]]
  <2>1. \E f : f = [p \in NodePages |-> IF mem[p].type = "leaf" THEN p ELSE f[next[p]]]
    <3>1. \A p \in T : mem[p].type = "internal" => next[p] \in T /\ h[p] = h[next[p]] + 1
      BY <1>2
    <3> HIDE DEF next, down
    <3> QED BY <3>1, WalkDownExists
  <2>2. PICK f : f = [p \in NodePages |-> IF mem[p].type = "leaf" THEN p ELSE f[next[p]]]
    BY <2>1
  <2>3. \A p \in NodePages : mem[p].type # "leaf" => next[p] = ChildFor(mem[p], k)
    BY <1>1
  <2>4. f = [p \in NodePages |-> IF mem[p].type = "leaf" THEN p ELSE f[ChildFor(mem[p], k)]]
    BY <2>2, <2>3
  <2> QED BY <2>4
<1>4. LeafFor(k) = down[RootPage]
  BY DEF LeafFor
<1> HIDE DEF down, next
<1> DEFINE Arrives(p) == down[p] \in T /\ mem[down[p]].type = "leaf" /\ k \in own[down[p]]
           Bad == {n \in Nat : \E p \in T : h[p] = n /\ k \in own[p] /\ ~ Arrives(p)}
<1>5. Bad = {}
  <2> SUFFICES ASSUME Bad # {} PROVE FALSE
    OBVIOUS
  <2>1. PICK n \in Bad : \A j \in Bad : n <= j
    <3>1. Bad \in SUBSET Nat
      OBVIOUS
    <3> HIDE DEF Bad
    <3> QED BY <3>1, LeastNumber
  <2>2. PICK p \in T : h[p] = n /\ k \in own[p] /\ ~ Arrives(p)
    BY <2>1
  <2>3. mem[p].type = "internal"
    BY <2>2, <1>1, <1>3
  <2> DEFINE c == ChildFor(mem[p], k)
  <2>4. c \in T /\ k \in own[c] /\ h[p] = h[c] + 1
    BY <2>2, <2>3, RouteDown
  <2>5. down[p] = down[c]
    BY <2>3, <1>1, <1>3
  <2> HIDE DEF c
  <2>6. h[c] \in Bad /\ h[c] < n
    BY <2>2, <2>4, <2>5, <1>1
  <2> QED BY <2>1, <2>6
<1>6. Arrives(RootPage)
  <2>1. h[RootPage] \in Nat
    BY <1>1
  <2> QED BY <2>1, <1>1, <1>5
<1> QED BY <1>4, <1>6

LEMMA RowsAreFound == ASSUME IInv, TreeInv PROVE EveryRowIsFound
<1> SUFFICES ASSUME Settled, NEW p \in InUse, mem[p].type = "leaf",
                    NEW i \in 1 .. Len(mem[p].cells)
             PROVE  LeafFor(mem[p].cells[i].key) = p
  BY DEF EveryRowIsFound
<1> DEFINE k == mem[p].cells[i].key
<1>1. PICK T, own, h : SearchTree(mem, numPages, T, own, h)
  BY SettledTree
<1>2. p \in T
  <2>1. mem[p].cells # <<>> /\ p \in NodePages
    BY SettledTree
  <2> QED BY <2>1, <1>1, TreePages
<1>3. h[p] = 1 /\ k \in own[p] /\ k \in Int
  <2>1. h[p] = 1 /\ Filled(mem[p], own, p) /\ own[p] \subseteq Int
    BY <1>1, <1>2, TreePages
  <2> QED BY <2>1 DEF Filled
<1> HIDE DEF k
<1>4. LeafFor(k) \in T /\ mem[LeafFor(k)].type = "leaf" /\ k \in own[LeafFor(k)]
  BY <1>1, <1>3, LeafForOwns
<1>5. h[LeafFor(k)] = 1 /\ Disjoint(T, own, h)
  BY <1>1, <1>4, TreePages DEF SearchTree
<1> QED BY <1>2, <1>3, <1>4, <1>5 DEF Disjoint, k

\* Under the same condition, every row that is stored is found by its key.
THEOREM RowsFound == Spec /\ [][Restart => ParentsSaved]_vars => []EveryRowIsFound
<1>1. IInv /\ TreeInv => EveryRowIsFound
  BY RowsAreFound
<1> QED BY <1>1, InvariantHolds, TreeHolds, PTL

-----------------------------------------------------------------------------
\* Leaf q has the last, or the first, of the keys that p owns.
EndsWith(T, own, p, q) ==
  /\ q \in T /\ mem[q].type = "leaf" /\ own[q] \subseteq own[p]
  /\ \A x \in own[q] : \A y \in own[p] : x <= y => y \in own[q]

StartsWith(T, own, p, q) ==
  /\ q \in T /\ mem[q].type = "leaf" /\ own[q] \subseteq own[p]
  /\ \A x \in own[q] : \A y \in own[p] : y <= x => y \in own[q]

LEMMA LastLeafEnds ==
  ASSUME NEW T, NEW own, NEW h, SearchTree(mem, numPages, T, own, h), NEW p0 \in T
  PROVE  EndsWith(T, own, p0, LastLeaf[p0])
<1> DEFINE next == [p \in NodePages |-> mem[p].link]
           last == CHOOSE f : f = [p \in NodePages |-> IF mem[p].type = "leaf" THEN p
                                                       ELSE f[mem[p].link]]
<1>1. /\ T \subseteq NodePages /\ RootPage \in T /\ h \in [NodePages -> Nat]
      /\ \A p \in NodePages : mem[p].type = "internal" => p \in T /\ mem[p] \in Internal
      /\ \A p \in NodePages : mem[p].type \in {"leaf", "internal"}
  BY TreePages
<1>2. ASSUME NEW p \in T, mem[p].type = "internal"
      PROVE  LET c == mem[p].link
             IN  /\ c \in T /\ h[p] = h[c] + 1 /\ own[c] \subseteq own[p]
                 /\ \A x \in own[c] : \A y \in own[p] : x <= y => y \in own[c]
  <2> DEFINE n == Len(mem[p].cells)
  <2>1. mem[p] \in Internal /\ Routed(mem[p], own, p) /\ Parented(mem, T, h, p)
    BY <1>2, TreePages
  <2>2. n \in Nat /\ n >= 1 /\ \A i \in 1 .. n : mem[p].cells[i].key \in Int
    BY <2>1, InternalFields DEF Routed
  <2> HIDE DEF n
  <2>3. Child(mem[p], n + 1) = mem[p].link /\ n + 1 \in 1 .. n + 1
    BY <2>2 DEF Child, n
  <2> DEFINE c == mem[p].link
  <2>4. c \in T /\ h[p] = h[c] + 1
    BY <2>1, <2>3 DEF Parented, n
  <2>5. own[p] \subseteq Int /\ own[c] \subseteq Int
    BY <2>4, TreePages
  <2>6. \A k \in Int : k \in own[c] <=> k \in own[p] /\ mem[p].cells[n].key <= k
    <3> TAKE k \in Int
    <3>1. k \in own[c] <=> k \in own[p] /\ Between(mem[p], n + 1, k)
      BY <2>1, <2>3 DEF Routed, n
    <3>2. Between(mem[p], n + 1, k) <=> mem[p].cells[(n + 1) - 1].key <= k
      <4>1. n + 1 > 1 /\ ~ (n + 1 <= n)
        BY <2>2
      <4> QED BY <4>1 DEF Between, n
    <3>3. (n + 1) - 1 = n
      BY <2>2
    <3> QED BY <3>1, <3>2, <3>3
  <2>7. mem[p].cells[n].key \in Int
    BY <2>2
  <2> HIDE DEF c
  <2>8. own[c] \subseteq own[p]
    BY <2>5, <2>6
  <2>9. ASSUME NEW x \in own[c], NEW y \in own[p], x <= y PROVE y \in own[c]
    <3>1. x \in Int /\ y \in Int /\ mem[p].cells[n].key <= x
      BY <2>5, <2>6
    <3>2. mem[p].cells[n].key <= y
      BY <3>1, <2>7, <2>9
    <3> QED BY <3>1, <3>2, <2>6
  <2> QED BY <2>4, <2>8, <2>9 DEF c
<1>3. last = [p \in NodePages |-> IF mem[p].type = "leaf" THEN p ELSE last[mem[p].link]]
  <2>1. \E f : f = [p \in NodePages |-> IF mem[p].type = "leaf" THEN p ELSE f[next[p]]]
    <3>1. \A p \in T : mem[p].type = "internal" => next[p] \in T /\ h[p] = h[next[p]] + 1
      BY <1>1, <1>2
    <3> HIDE DEF next, last
    <3> QED BY <3>1, WalkDownExists
  <2>2. PICK f : f = [p \in NodePages |-> IF mem[p].type = "leaf" THEN p ELSE f[next[p]]]
    BY <2>1
  <2>3. f = [p \in NodePages |-> IF mem[p].type = "leaf" THEN p ELSE f[mem[p].link]]
    BY <2>2
  <2> QED BY <2>3
<1>4. LastLeaf = last
  BY DEF LastLeaf
<1> HIDE DEF last, next
<1> DEFINE Bad == {n \in Nat : \E p \in T : h[p] = n /\ ~ EndsWith(T, own, p, last[p])}
<1>5. Bad = {}
  <2> SUFFICES ASSUME Bad # {} PROVE FALSE
    OBVIOUS
  <2>1. PICK n \in Bad : \A j \in Bad : n <= j
    <3>1. Bad \in SUBSET Nat
      OBVIOUS
    <3> HIDE DEF Bad
    <3> QED BY <3>1, LeastNumber
  <2>2. PICK p \in T : h[p] = n /\ ~ EndsWith(T, own, p, last[p])
    BY <2>1
  <2>3. CASE mem[p].type = "leaf"
    <3>1. last[p] = p
      BY <2>3, <1>1, <1>3
    <3> QED BY <3>1, <2>2, <2>3 DEF EndsWith
  <2>4. CASE mem[p].type = "internal"
    <3> DEFINE c == mem[p].link
    <3>1. /\ c \in T /\ h[p] = h[c] + 1 /\ own[c] \subseteq own[p]
          /\ \A x \in own[c] : \A y \in own[p] : x <= y => y \in own[c]
      BY <2>4, <1>2
    <3>2. last[p] = last[c]
      BY <2>4, <1>1, <1>3
    <3> HIDE DEF c
    <3>3. EndsWith(T, own, c, last[c])
      <4>1. h[c] \in Nat /\ h[c] < n
        BY <2>2, <3>1, <1>1
      <4> QED BY <4>1, <3>1, <2>1
    <3>4. EndsWith(T, own, p, last[c])
      BY <3>1, <3>3 DEF EndsWith
    <3> QED BY <3>2, <3>4, <2>2
  <2> QED BY <2>3, <2>4, <1>1
<1>6. h[p0] \in Nat
  BY <1>1
<1> QED BY <1>4, <1>5, <1>6

LEMMA FirstLeafStarts ==
  ASSUME NEW T, NEW own, NEW h, SearchTree(mem, numPages, T, own, h), NEW p0 \in T
  PROVE  StartsWith(T, own, p0, FirstLeaf[p0])
<1> DEFINE next == [p \in NodePages |-> Child(mem[p], 1)]
           leftmost == CHOOSE f : f = [p \in NodePages |-> IF mem[p].type = "leaf" THEN p
                                                        ELSE f[Child(mem[p], 1)]]
<1>1. /\ T \subseteq NodePages /\ RootPage \in T /\ h \in [NodePages -> Nat]
      /\ \A p \in NodePages : mem[p].type = "internal" => p \in T /\ mem[p] \in Internal
      /\ \A p \in NodePages : mem[p].type \in {"leaf", "internal"}
  BY TreePages
<1>2. ASSUME NEW p \in T, mem[p].type = "internal"
      PROVE  LET c == Child(mem[p], 1)
             IN  /\ c \in T /\ h[p] = h[c] + 1 /\ own[c] \subseteq own[p]
                 /\ \A x \in own[c] : \A y \in own[p] : y <= x => y \in own[c]
  <2> DEFINE n == Len(mem[p].cells)
             c == Child(mem[p], 1)
  <2>1. mem[p] \in Internal /\ Routed(mem[p], own, p) /\ Parented(mem, T, h, p)
    BY <1>2, TreePages
  <2>2. /\ n \in Nat /\ 1 <= n /\ 1 \in 1 .. n + 1 /\ 1 \in 1 .. n
        /\ mem[p].cells[1].key \in Int
    BY <2>1, InternalFields DEF Routed
  <2>3. c \in T /\ h[p] = h[c] + 1
    BY <2>1, <2>2 DEF Parented
  <2>4. own[p] \subseteq Int /\ own[c] \subseteq Int
    BY <2>3, TreePages
  <2>5. \A k \in Int : k \in own[c] <=> k \in own[p] /\ k < mem[p].cells[1].key
    <3> TAKE k \in Int
    <3>1. k \in own[c] <=> k \in own[p] /\ Between(mem[p], 1, k)
      BY <2>1, <2>2 DEF Routed
    <3>2. Between(mem[p], 1, k) <=> k < mem[p].cells[1].key
      BY <2>2 DEF Between
    <3> QED BY <3>1, <3>2
  <2> HIDE DEF c
  <2>6. own[c] \subseteq own[p]
    BY <2>4, <2>5
  <2>7. ASSUME NEW x \in own[c], NEW y \in own[p], y <= x PROVE y \in own[c]
    <3>1. x \in Int /\ y \in Int /\ x < mem[p].cells[1].key
      BY <2>4, <2>5
    <3>2. y < mem[p].cells[1].key
      BY <3>1, <2>2, <2>7
    <3> QED BY <3>1, <3>2, <2>5
  <2> QED BY <2>3, <2>6, <2>7 DEF c
<1>3. leftmost = [p \in NodePages |->
                    IF mem[p].type = "leaf" THEN p ELSE leftmost[Child(mem[p], 1)]]
  <2>1. \E f : f = [p \in NodePages |-> IF mem[p].type = "leaf" THEN p ELSE f[next[p]]]
    <3>1. \A p \in T : mem[p].type = "internal" => next[p] \in T /\ h[p] = h[next[p]] + 1
      BY <1>1, <1>2
    <3> HIDE DEF next, leftmost
    <3> QED BY <3>1, WalkDownExists
  <2>2. PICK f : f = [p \in NodePages |-> IF mem[p].type = "leaf" THEN p ELSE f[next[p]]]
    BY <2>1
  <2>3. f = [p \in NodePages |-> IF mem[p].type = "leaf" THEN p ELSE f[Child(mem[p], 1)]]
    BY <2>2
  <2> QED BY <2>3
<1>4. FirstLeaf = leftmost
  BY DEF FirstLeaf
<1> HIDE DEF leftmost, next
<1> DEFINE Bad == {n \in Nat : \E p \in T : h[p] = n /\ ~ StartsWith(T, own, p, leftmost[p])}
<1>5. Bad = {}
  <2> SUFFICES ASSUME Bad # {} PROVE FALSE
    OBVIOUS
  <2>1. PICK n \in Bad : \A j \in Bad : n <= j
    <3>1. Bad \in SUBSET Nat
      OBVIOUS
    <3> HIDE DEF Bad
    <3> QED BY <3>1, LeastNumber
  <2>2. PICK p \in T : h[p] = n /\ ~ StartsWith(T, own, p, leftmost[p])
    BY <2>1
  <2>3. CASE mem[p].type = "leaf"
    <3>1. leftmost[p] = p
      BY <2>3, <1>1, <1>3
    <3> QED BY <3>1, <2>2, <2>3 DEF StartsWith
  <2>4. CASE mem[p].type = "internal"
    <3> DEFINE c == Child(mem[p], 1)
    <3>1. /\ c \in T /\ h[p] = h[c] + 1 /\ own[c] \subseteq own[p]
          /\ \A x \in own[c] : \A y \in own[p] : y <= x => y \in own[c]
      BY <2>4, <1>2
    <3>2. leftmost[p] = leftmost[c]
      BY <2>4, <1>1, <1>3
    <3> HIDE DEF c
    <3>3. StartsWith(T, own, c, leftmost[c])
      <4>1. h[c] \in Nat /\ h[c] < n
        BY <2>2, <3>1, <1>1
      <4> QED BY <4>1, <3>1, <2>1
    <3>4. StartsWith(T, own, p, leftmost[c])
      BY <3>1, <3>3 DEF StartsWith
    <3> QED BY <3>2, <3>4, <2>2
  <2> QED BY <2>3, <2>4, <1>1
<1>6. h[p0] \in Nat
  BY <1>1
<1> QED BY <1>4, <1>5, <1>6

LEMMA LeavesAreChained == ASSUME IInv, TreeInv PROVE ChainIsTheLeaves
<1> SUFFICES ASSUME Settled
             PROVE  /\ mem[LastLeaf[RootPage]].link = 0
                    /\ \A p \in InUse : mem[p].type = "internal" =>
                         \A i \in 1 .. Len(mem[p].cells) :
                           mem[LastLeaf[Child(mem[p], i)]].link = FirstLeaf[Child(mem[p], i + 1)]
  BY DEF ChainIsTheLeaves
<1>1. PICK T, own, h : SearchTree(mem, numPages, T, own, h)
  BY SettledTree
<1>2. Disjoint(T, own, h) /\ RootPage \in T /\ own[RootPage] = Int
  BY <1>1, TreePages DEF SearchTree
<1>3. \A q \in T : mem[q].type = "leaf" =>
        /\ h[q] = 1 /\ Chained(mem, T, own, q)
        /\ own[q] # {} /\ own[q] \subseteq Int /\ Convex(own[q])
  BY <1>1, TreePages
<1>4. mem[LastLeaf[RootPage]].link = 0
  <2> DEFINE q == LastLeaf[RootPage]
  <2>1. EndsWith(T, own, RootPage, q)
    BY <1>1, <1>2, LastLeafEnds
  <2> HIDE DEF q
  <2>2. q \in T /\ mem[q].type = "leaf"
    BY <2>1 DEF EndsWith
  <2>3. SUFFICES ASSUME mem[q].link # 0 PROVE FALSE
    BY DEF q
  <2>4. PICK k \in own[q] : k + 1 \in own[mem[q].link] \ own[q]
    BY <2>2, <2>3, <1>3 DEF Chained
  <2>5. k \in Int /\ k + 1 \in Int /\ k <= k + 1
    BY <2>2, <1>3
  <2> QED BY <2>1, <2>4, <2>5, <1>2 DEF EndsWith
<1>5. ASSUME NEW p \in InUse, mem[p].type = "internal", NEW i \in 1 .. Len(mem[p].cells)
      PROVE  mem[LastLeaf[Child(mem[p], i)]].link = FirstLeaf[Child(mem[p], i + 1)]
  <2> DEFINE n == Len(mem[p].cells)
             s == mem[p].cells[i].key
             c == Child(mem[p], i)
             d == Child(mem[p], i + 1)
             a == LastLeaf[c]
             b == FirstLeaf[d]
  <2>1. p \in NodePages
    BY SettledTree
  <2>2. /\ p \in T /\ mem[p] \in Internal /\ Routed(mem[p], own, p) /\ Parented(mem, T, h, p)
        /\ own[p] \subseteq Int /\ Convex(own[p])
    BY <2>1, <1>1, <1>5, TreePages
  <2>3. /\ n \in Nat /\ s \in Int /\ i \in 1 .. n /\ i \in 1 .. n + 1 /\ i + 1 \in 1 .. n + 1
        /\ \A j \in 1 .. n : mem[p].cells[j].key \in Int /\ mem[p].cells[j].key \in own[p]
    BY <2>2, InternalFields DEF Routed
  <2>4. c \in T /\ d \in T
    BY <2>2, <2>3 DEF Parented
  <2>5. s - 1 \in own[c] /\ \A k \in own[c] : k \in Int /\ k < s
    <3>1. \A k \in Int : k \in own[c] <=> k \in own[p] /\ Between(mem[p], i, k)
      BY <2>2, <2>3 DEF Routed
    <3>2. own[c] \subseteq Int
      BY <2>4, <1>1, TreePages
    <3>3. i > 1 => i - 1 \in 1 .. n /\ mem[p].cells[i - 1].key < s
      <4> SUFFICES ASSUME i > 1 PROVE i - 1 \in 1 .. n /\ mem[p].cells[i - 1].key < s
        OBVIOUS
      <4>1. PICK j \in 1 .. n : j = i - 1 /\ j < i
        BY <2>3
      <4> QED BY <4>1, <2>2, <2>3 DEF Routed, Ascends
    <3>4. i > 1 => mem[p].cells[i - 1].key <= s - 1 /\ s - 1 \in own[p]
      <4> SUFFICES ASSUME i > 1
                   PROVE  mem[p].cells[i - 1].key <= s - 1 /\ s - 1 \in own[p]
        OBVIOUS
      <4> DEFINE y == mem[p].cells[i - 1].key
      <4>1. y \in own[p] /\ y \in Int /\ y < s /\ s \in own[p]
        BY <3>3, <2>3
      <4> HIDE DEF y, s
      <4>2. y <= s - 1 /\ s - 1 <= s /\ s - 1 \in Int
        BY <4>1, <2>3
      <4>3. s - 1 \in own[p]
        BY <4>1, <4>2, <2>2 DEF Convex
      <4> QED BY <4>2, <4>3 DEF y
    <3>5. i = 1 => s - 1 \in own[p]
      BY <2>2 DEF Routed
    <3> HIDE DEF s, c
    <3>6. s - 1 \in Int /\ s - 1 < s
      BY <2>3
    <3>7. s - 1 \in own[p] /\ Between(mem[p], i, s - 1)
      <4>1. i > 1 \/ i = 1
        BY <2>3
      <4> QED BY <4>1, <3>4, <3>5, <3>6 DEF Between, s
    <3>8. \A k \in own[c] : k < s
      BY <2>3, <3>1, <3>2 DEF Between, s
    <3> QED BY <3>1, <3>2, <3>6, <3>7, <3>8
  <2>6. s \in own[d] /\ \A k \in own[d] : k \in Int /\ s <= k
    <3>1. \A k \in Int : k \in own[d] <=> k \in own[p] /\ Between(mem[p], i + 1, k)
      BY <2>2, <2>3 DEF Routed
    <3>2. own[d] \subseteq Int
      BY <2>4, <1>1, TreePages
    <3>3. \A k \in Int : Between(mem[p], i + 1, k) <=>
            s <= k /\ (i + 1 <= n => k < mem[p].cells[i + 1].key)
      <4>1. i + 1 > 1 /\ (i + 1) - 1 = i
        BY <2>3
      <4> HIDE DEF d
      <4> QED BY <4>1 DEF Between
    <3>4. i + 1 <= n => s < mem[p].cells[i + 1].key
      <4> SUFFICES ASSUME i + 1 <= n PROVE s < mem[p].cells[i + 1].key
        OBVIOUS
      <4>1. PICK j \in 1 .. n : j = i + 1 /\ i < j
        BY <2>3
      <4> QED BY <4>1, <2>2, <2>3 DEF Routed, Ascends
    <3>5. s <= s /\ s \in own[p]
      BY <2>3
    <3> HIDE DEF s, d
    <3> QED BY <3>1, <3>2, <3>3, <3>4, <3>5, <2>3
  <2>7. EndsWith(T, own, c, a) /\ StartsWith(T, own, d, b)
    BY <2>4, <1>1, LastLeafEnds, FirstLeafStarts
  <2> HIDE DEF s, c, d, a, b, n
  <2>8. /\ a \in T /\ mem[a].type = "leaf" /\ own[a] \subseteq own[c]
        /\ b \in T /\ mem[b].type = "leaf" /\ own[b] \subseteq own[d]
    BY <2>7 DEF EndsWith, StartsWith
  <2>9. s - 1 \in own[a]
    <3>1. PICK k \in own[a] : TRUE
      BY <2>8, <1>3
    <3>2. k \in Int /\ k < s
      BY <2>5, <2>8
    <3>3. k <= s - 1
      BY <2>3, <3>2
    <3> QED BY <3>3, <2>5, <2>7 DEF EndsWith
  <2>10. s \in own[b]
    <3>1. PICK k \in own[b] : TRUE
      BY <2>8, <1>3
    <3>2. s <= k
      BY <2>6, <2>8
    <3> QED BY <3>2, <2>6, <2>7 DEF StartsWith
  <2>11. s \notin own[a] /\ (s - 1) + 1 = s
    <3>1. s \notin own[c]
      BY <2>3, <2>5
    <3> QED BY <3>1, <2>3, <2>8
  <2>12. mem[a].link # 0
    BY <2>8, <2>9, <2>11, <1>3 DEF Chained
  <2>13. PICK k \in own[a] : k + 1 \in own[mem[a].link] \ own[a]
    BY <2>8, <2>12, <1>3 DEF Chained
  <2>14. k = s - 1
    <3>1. k \in Int /\ k < s
      BY <2>5, <2>8
    <3>2. SUFFICES ASSUME k + 1 <= s - 1 PROVE FALSE
      BY <3>1, <2>3
    <3>3. k <= k + 1 /\ k + 1 \in Int
      BY <3>1
    <3>4. k + 1 \in own[a]
      BY <3>2, <3>3, <2>8, <2>9, <1>3 DEF Convex
    <3> QED BY <3>4, <2>13
  <2>15. s \in own[mem[a].link] /\ mem[a].link \in T /\ mem[mem[a].link].type = "leaf"
    BY <2>8, <2>11, <2>12, <2>13, <2>14, <1>3 DEF Chained
  <2>16. mem[a].link = b
    BY <2>3, <2>8, <2>10, <2>15, <1>2, <1>3 DEF Disjoint
  <2> QED BY <2>16 DEF a, b, c, d
<1> QED BY <1>4, <1>5

\* Under the same condition, the leaves are chained in the order of the tree, and a
\* scan, an UPDATE or a DELETE comes to all of them.
THEOREM ChainHolds == Spec /\ [][Restart => ParentsSaved]_vars => []ChainIsTheLeaves
<1>1. IInv /\ TreeInv => ChainIsTheLeaves
  BY LeavesAreChained
<1> QED BY <1>1, InvariantHolds, TreeHolds, PTL

-----------------------------------------------------------------------------
\* What the definition of Height makes of heights f at a page p.
Level(f, p) ==
  IF mem[p].type = "leaf" THEN 1
  ELSE LET below == {f[c] : c \in Kids(mem[p])}
       IN  IF Cardinality(below) = 1 /\ 0 \notin below THEN 1 + Max(below) ELSE 0

LEMMA LevelAbove ==
  ASSUME NEW f, NEW p, mem[p].type # "leaf", NEW n \in Nat, n # 0,
         Kids(mem[p]) # {}, \A c \in Kids(mem[p]) : f[c] = n
  PROVE  Level(f, p) = n + 1
<1> DEFINE below == {f[c] : c \in Kids(mem[p])}
<1>1. below = {n}
  OBVIOUS
<1>2. Cardinality({n}) = 1
  BY FS_Singleton
<1>3. Max({n}) = n
  BY DEF Max
<1>4. Level(f, p) = IF Cardinality(below) = 1 /\ 0 \notin below THEN 1 + Max(below) ELSE 0
  BY DEF Level
<1> HIDE DEF below
<1> QED BY <1>1, <1>2, <1>3, <1>4

LEMMA TreeIsBalanced == ASSUME IInv, TreeInv PROVE Balanced
<1> SUFFICES ASSUME Settled PROVE Height[RootPage] > 0
  BY DEF Balanced
<1>1. PICK T, own, h : SearchTree(mem, numPages, T, own, h)
  BY SettledTree
<1>2. /\ T \subseteq NodePages /\ RootPage \in T /\ h \in [NodePages -> Nat]
      /\ \A p \in NodePages : mem[p].type = "internal" => p \in T /\ mem[p] \in Internal
      /\ \A p \in NodePages : mem[p].type \in {"leaf", "internal"}
      /\ \A p \in T : mem[p].type = "leaf" => h[p] = 1
  BY <1>1, TreePages
<1>3. ASSUME NEW p \in T, mem[p].type = "internal"
      PROVE  /\ Kids(mem[p]) # {} /\ \A c \in Kids(mem[p]) : c \in T /\ h[p] = h[c] + 1
             /\ h[p] - 1 \in Nat
  <2>1. mem[p] \in Internal /\ Parented(mem, T, h, p)
    BY <1>1, <1>3, TreePages
  <2>2. \A c \in Kids(mem[p]) : c \in T /\ h[p] = h[c] + 1
    BY <2>1, InternalFields DEF Parented
  <2>3. mem[p].link \in Kids(mem[p])
    BY DEF Kids
  <2> HIDE DEF Kids
  <2>4. PICK c \in Kids(mem[p]) : h[c] \in Nat /\ h[p] = h[c] + 1
    BY <2>2, <2>3, <1>2
  <2> QED BY <2>2, <2>3, <2>4
<1>4. \A p \in T : h[p] # 0
  <2> TAKE p \in T
  <2>1. CASE mem[p].type = "leaf"
    BY <2>1, <1>2
  <2>2. CASE mem[p].type = "internal"
    BY <2>2, <1>3
  <2> QED BY <2>1, <2>2, <1>2
<1>5. Height = [p \in NodePages |-> Level(Height, p)]
  <2> DEFINE hh == [p \in NodePages |-> IF mem[p].type = "leaf" THEN 1 ELSE h[p]]
  <2>1. \A p \in T : hh[p] = h[p]
    BY <1>2
  <2>2. ASSUME NEW p \in NodePages PROVE hh[p] = Level(hh, p)
    <3>1. CASE mem[p].type = "leaf"
      BY <3>1 DEF Level
    <3>2. CASE mem[p].type # "leaf"
      <4>1. p \in T /\ mem[p].type = "internal"
        BY <3>2, <1>2
      <4> DEFINE n == h[p] - 1
      <4>2. n \in Nat /\ Kids(mem[p]) # {} /\ \A c \in Kids(mem[p]) : c \in T /\ h[p] = h[c] + 1
        BY <4>1, <1>3
      <4>3. h[p] = n + 1
        BY <1>2
      <4>4. \A c \in Kids(mem[p]) : h[c] = n /\ hh[c] = n
        BY <4>2, <2>1, <1>2
      <4> HIDE DEF n, hh
      <4>5. n # 0
        BY <4>2, <4>4, <1>4
      <4>6. Level(hh, p) = n + 1
        BY <3>2, <4>2, <4>4, <4>5, LevelAbove
      <4> QED BY <4>1, <4>3, <4>6, <2>1
    <3> QED BY <3>1, <3>2
  <2>3. hh = [p \in NodePages |-> Level(hh, p)]
    BY <2>2
  <2> HIDE DEF hh
  <2>4. \E f : f = [p \in NodePages |-> Level(f, p)]
    BY <2>3
  <2>5. Height = CHOOSE f : f = [p \in NodePages |-> Level(f, p)]
    BY DEF Height, Level
  <2> QED BY <2>4, <2>5
<1> DEFINE Bad == {n \in Nat : \E p \in T : h[p] = n /\ Height[p] # n}
<1>6. Bad = {}
  <2> SUFFICES ASSUME Bad # {} PROVE FALSE
    OBVIOUS
  <2>1. PICK n \in Bad : \A j \in Bad : n <= j
    <3>1. Bad \in SUBSET Nat
      OBVIOUS
    <3> HIDE DEF Bad
    <3> QED BY <3>1, LeastNumber
  <2>2. PICK p \in T : h[p] = n /\ Height[p] # n
    BY <2>1
  <2>3. Height[p] = Level(Height, p)
    BY <1>2, <1>5
  <2>4. CASE mem[p].type = "leaf"
    BY <2>2, <2>3, <2>4, <1>2 DEF Level
  <2>5. CASE mem[p].type = "internal"
    <3>1. /\ Kids(mem[p]) # {} /\ \A c \in Kids(mem[p]) : c \in T /\ h[p] = h[c] + 1
          /\ h[p] - 1 \in Nat
      BY <2>5, <1>3
    <3>2. ASSUME NEW c \in Kids(mem[p]) PROVE Height[c] = n - 1
      <4>1. c \in T /\ h[c] \in Nat /\ n = h[c] + 1
        BY <3>1, <2>2, <1>2
      <4>2. h[c] < n
        BY <4>1
      <4>3. h[c] \notin Bad
        BY <2>1, <4>1, <4>2
      <4> QED BY <4>1, <4>3
    <3>3. n - 1 # 0
      <4>1. PICK c \in Kids(mem[p]) : c \in T /\ h[p] = h[c] + 1
        BY <3>1
      <4>2. h[c] \in Nat /\ h[c] # 0
        BY <4>1, <1>2, <1>4
      <4> QED BY <4>1, <4>2, <2>2
    <3>4. n - 1 \in Nat /\ (n - 1) + 1 = n
      BY <3>1, <2>2
    <3>5. Level(Height, p) = (n - 1) + 1
      BY <2>5, <3>1, <3>2, <3>3, <3>4, LevelAbove
    <3> QED BY <3>4, <3>5, <2>2, <2>3
  <2> QED BY <2>4, <2>5, <1>2
<1>7. Height[RootPage] = h[RootPage] /\ h[RootPage] \in Nat /\ h[RootPage] # 0
  BY <1>2, <1>4, <1>6
<1> QED BY <1>7

\* Under the same condition, all leaves are at one depth.
THEOREM BalanceHolds == Spec /\ [][Restart => ParentsSaved]_vars => []Balanced
<1>1. IInv /\ TreeInv => Balanced
  BY TreeIsBalanced
<1> QED BY <1>1, InvariantHolds, TreeHolds, PTL

-----------------------------------------------------------------------------
\* The leaves whose keys are all above those of p.
After(T, own, p) ==
  {q \in T : mem[q].type = "leaf" /\ \A x \in own[p] : \A y \in own[q] : x < y}

\* The leaf that follows p in the chain lies after it, and fewer leaves lie after that.
LEMMA NextLeafAfter ==
  ASSUME NEW T, NEW own, NEW h, SearchTree(mem, numPages, T, own, h),
         NEW p \in T, mem[p].type = "leaf", mem[p].link # 0
  PROVE  /\ mem[p].link \in T /\ mem[p].link \in After(T, own, p)
         /\ After(T, own, mem[p].link) \subseteq After(T, own, p)
         /\ mem[p].link \notin After(T, own, mem[p].link)
<1> DEFINE q == mem[p].link
<1>1. /\ \A l \in T : mem[l].type = "leaf" =>
           /\ h[l] = 1 /\ Chained(mem, T, own, l)
           /\ own[l] # {} /\ own[l] \subseteq Int /\ Convex(own[l])
      /\ Disjoint(T, own, h)
  BY TreePages DEF SearchTree
<1>2. PICK k \in own[p] : k + 1 \in own[q] \ own[p]
  BY <1>1 DEF Chained
<1>3. q \in T /\ mem[q].type = "leaf"
  BY <1>1 DEF Chained
<1> HIDE DEF q
<1>4. /\ own[p] \subseteq Int /\ Convex(own[p]) /\ own[q] \subseteq Int /\ Convex(own[q])
      /\ own[q] # {} /\ h[p] = 1 /\ h[q] = 1 /\ k \in Int
  BY <1>1, <1>2, <1>3
<1>5. p # q
  BY <1>2
<1>6. ASSUME NEW x \in own[p] PROVE x \in Int /\ x <= k
  <2>1. x \in Int
    BY <1>4
  <2>2. SUFFICES ASSUME k + 1 <= x PROVE FALSE
    BY <2>1, <1>4
  <2>3. k <= k + 1 /\ k + 1 \in Int
    BY <1>4
  <2> QED BY <2>2, <2>3, <1>2, <1>4 DEF Convex
<1>7. ASSUME NEW y \in own[q] PROVE y \in Int /\ k < y
  <2>1. y \in Int
    BY <1>4
  <2>2. SUFFICES ASSUME y <= k PROVE FALSE
    BY <2>1, <1>4
  <2>3. k <= k + 1
    BY <1>4
  <2>4. k \in own[q]
    BY <2>2, <2>3, <1>2, <1>4 DEF Convex
  <2> QED BY <2>4, <1>1, <1>2, <1>3, <1>4, <1>5 DEF Disjoint
<1>8. \A x \in own[p] : \A y \in own[q] : x < y
  BY <1>4, <1>6, <1>7
<1>9. ASSUME NEW l \in After(T, own, q) PROVE l \in After(T, own, p)
  <2>1. l \in T /\ mem[l].type = "leaf" /\ \A x \in own[q] : \A y \in own[l] : x < y
    BY DEF After
  <2>2. own[l] \subseteq Int
    BY <2>1, <1>1
  <2>3. PICK z \in own[q] : z \in Int
    BY <1>4
  <2>4. ASSUME NEW x \in own[p], NEW y \in own[l] PROVE x < y
    <3>1. x < z /\ z < y /\ x \in Int /\ y \in Int
      BY <2>1, <2>2, <2>3, <1>6, <1>8
    <3> QED BY <3>1, <2>3
  <2> QED BY <2>1, <2>4 DEF After
<1>10. q \notin After(T, own, q)
  <2>1. PICK z \in own[q] : z \in Int
    BY <1>4
  <2>2. ~ (z < z)
    BY <2>1
  <2> QED BY <2>1, <2>2 DEF After
<1>11. q \in After(T, own, p)
  BY <1>3, <1>8 DEF After
<1> QED BY <1>3, <1>9, <1>10, <1>11 DEF q

\* What a walk along the chain comes to lies after where it begins.
LEMMA LaterIsAfter ==
  ASSUME NEW T, NEW own, NEW h, SearchTree(mem, numPages, T, own, h), IInv,
         NEW p0 \in T, mem[p0].type = "leaf"
  PROVE  Later[p0] \subseteq After(T, own, p0)
<1> DEFINE S == NodePages
           V == SUBSET NodePages
           goes(p) == mem[p].type = "leaf" /\ mem[p].link # 0
           F == [f \in [S -> V] |->
                  [p \in S |-> IF mem[p].type # "leaf" \/ mem[p].link = 0 THEN {}
                               ELSE {mem[p].link} \cup f[mem[p].link]]]
           g == [p \in S |-> Cardinality(After(T, own, p))]
           N == Cardinality(S) + 1
<1>1. /\ T \subseteq S /\ \A p \in S \ T : mem[p].link = 0
  BY TreePages
<1>2. IsFiniteSet(S) /\ Cardinality(S) \in Nat
  <2>1. IsFiniteSet(1 .. MaxPages - 1)
    BY CapacityAssumption, FS_Interval
  <2>2. IsFiniteSet(S)
    BY <2>1, PagesAreNodePages
  <2> QED BY <2>2, FS_CardinalityType
<1>3. \A p \in S : IsFiniteSet(After(T, own, p)) /\ g[p] \in Nat /\ g[p] <= Cardinality(S)
  <2> TAKE p \in S
  <2>1. After(T, own, p) \in SUBSET S
    BY <1>1 DEF After
  <2>2. IsFiniteSet(After(T, own, p)) /\ Cardinality(After(T, own, p)) <= Cardinality(S)
    BY <2>1, <1>2, FS_Subset
  <2>3. Cardinality(After(T, own, p)) \in Nat
    BY <2>2, FS_CardinalityType
  <2> QED BY <2>2, <2>3
<1>4. ASSUME NEW p \in S, goes(p)
      PROVE  /\ p \in T /\ mem[p].link \in T /\ mem[p].link \in S
             /\ mem[p].link \in After(T, own, p)
             /\ After(T, own, mem[p].link) \subseteq After(T, own, p)
             /\ g[mem[p].link] < g[p]
  <2> DEFINE q == mem[p].link
  <2>1. p \in T
    BY <1>1, <1>4
  <2>2. /\ q \in T /\ q \in After(T, own, p) /\ After(T, own, q) \subseteq After(T, own, p)
        /\ q \notin After(T, own, q)
    BY <2>1, <1>4, NextLeafAfter
  <2>3. q \in S
    BY <2>2, <1>1
  <2> HIDE DEF q
  <2>4. Cardinality(After(T, own, q)) < Cardinality(After(T, own, p))
    <3>1. /\ Cardinality(After(T, own, q)) <= Cardinality(After(T, own, p))
          /\ Cardinality(After(T, own, q)) # Cardinality(After(T, own, p))
      BY <2>2, <1>3, FS_Subset
    <3>2. Cardinality(After(T, own, q)) \in Nat /\ Cardinality(After(T, own, p)) \in Nat
      BY <2>3, <1>3, FS_CardinalityType
    <3> QED BY <3>1, <3>2
  <2> QED BY <2>1, <2>2, <2>3, <2>4 DEF q
<1>5. g \in [S -> Nat] /\ N \in Nat /\ \A p \in S : g[p] < N
  BY <1>2, <1>3
<1>6. \A p \in S : g[p] \in Nat
  BY <1>5
<1> HIDE DEF g, N
<1>7. F \in [[S -> V] -> [S -> V]]
  <2>1. ASSUME NEW f \in [S -> V]
        PROVE  [p \in S |-> IF mem[p].type # "leaf" \/ mem[p].link = 0 THEN {}
                            ELSE {mem[p].link} \cup f[mem[p].link]] \in [S -> V]
    <3>1. ASSUME NEW p \in S, goes(p) PROVE {mem[p].link} \cup f[mem[p].link] \in V
      BY <3>1, <1>4
    <3> QED BY <3>1
  <2> QED BY <2>1
<1>8. Descends(F, S, V, g)
  <2> SUFFICES ASSUME NEW f1 \in [S -> V], NEW f2 \in [S -> V], NEW p \in S,
                      \A q \in S : g[q] < g[p] => f1[q] = f2[q]
               PROVE  F[f1][p] = F[f2][p]
    BY DEF Descends
  <2> QED BY <1>4
<1>9. \E f \in [S -> V] : f = F[f]
  <2>1. [p \in S |-> {}] \in [S -> V]
    OBVIOUS
  <2> HIDE DEF F, S, V
  <2>2. Recursive(F, S, V, g, N)
    BY <2>1, <1>5, <1>7, <1>8 DEF Recursive
  <2> QED BY <2>2, RecursionHasSolution
<1>10. Later = [p \in S |-> IF mem[p].type # "leaf" \/ mem[p].link = 0 THEN {}
                            ELSE {mem[p].link} \cup Later[mem[p].link]]
  <2>1. PICK f \in [S -> V] :
          f = [p \in S |-> IF mem[p].type # "leaf" \/ mem[p].link = 0 THEN {}
                           ELSE {mem[p].link} \cup f[mem[p].link]]
    BY <1>9
  <2> QED BY <2>1 DEF Later
<1> HIDE DEF F
<1> DEFINE Bad == {n \in Nat : \E p \in T :
                     mem[p].type = "leaf" /\ g[p] = n /\ ~ (Later[p] \subseteq After(T, own, p))}
<1>11. Bad = {}
  <2> SUFFICES ASSUME Bad # {} PROVE FALSE
    OBVIOUS
  <2>1. PICK n \in Bad : \A j \in Bad : n <= j
    <3>1. Bad \in SUBSET Nat
      OBVIOUS
    <3> HIDE DEF Bad
    <3> QED BY <3>1, LeastNumber
  <2>2. PICK p \in T : mem[p].type = "leaf" /\ g[p] = n /\ ~ (Later[p] \subseteq After(T, own, p))
    BY <2>1
  <2>3. p \in S
    BY <1>1
  <2>4. CASE mem[p].link = 0
    <3>1. Later[p] = {}
      BY <2>3, <2>4, <1>10
    <3> QED BY <3>1, <2>2
  <2>5. CASE mem[p].link # 0
    <3> DEFINE q == mem[p].link
    <3>1. /\ q \in T /\ q \in S /\ q \in After(T, own, p)
          /\ After(T, own, q) \subseteq After(T, own, p) /\ g[q] < g[p]
      BY <2>2, <2>3, <2>5, <1>4
    <3>2. Later[p] = {q} \cup Later[q]
      BY <2>2, <2>3, <2>5, <1>10
    <3> HIDE DEF q
    <3>3. mem[q].type = "leaf"
      BY <3>1 DEF After
    <3>4. g[q] \in Nat /\ g[q] < n
      BY <3>1, <2>2, <1>6
    <3>5. g[q] \notin Bad
      BY <3>4, <2>1
    <3>6. Later[q] \subseteq After(T, own, q)
      BY <3>1, <3>3, <3>4, <3>5
    <3> QED BY <3>1, <3>2, <3>6, <2>2
  <2> QED BY <2>4, <2>5
<1>12. g[p0] \in Nat
  BY <1>1, <1>6
<1> QED BY <1>11, <1>12

LEMMA ScansAscend == ASSUME IInv, TreeInv PROVE ScanIsSorted
<1> SUFFICES ASSUME Settled, NEW p \in InUse, mem[p].type = "leaf",
                    NEW i \in 1 .. Len(mem[p].cells)
             PROVE  /\ \A j \in i + 1 .. Len(mem[p].cells) :
                         mem[p].cells[i].key < mem[p].cells[j].key
                    /\ \A q \in Later[p] : \A j \in 1 .. Len(mem[q].cells) :
                         mem[p].cells[i].key < mem[q].cells[j].key
  BY DEF ScanIsSorted
<1>1. PICK T, own, h : SearchTree(mem, numPages, T, own, h)
  BY SettledTree
<1>2. p \in T
  <2>1. mem[p].cells # <<>> /\ p \in NodePages
    BY SettledTree
  <2> QED BY <2>1, <1>1, TreePages
<1>3. \A q \in T : mem[q].type = "leaf" => Filled(mem[q], own, q)
  BY <1>1, TreePages
<1>4. \A j \in i + 1 .. Len(mem[p].cells) : mem[p].cells[i].key < mem[p].cells[j].key
  <2> DEFINE n == Len(mem[p].cells)
  <2>1. n \in Nat
    <3>1. mem[p] \in Leaf
      BY <1>1, <1>2, TreePages, PageTypes
    <3> QED BY <3>1, LenProperties DEF Leaf
  <2>2. Ascends(mem[p].cells)
    BY <1>2, <1>3 DEF Filled
  <2>3. i \in 1 .. n
    OBVIOUS
  <2>4. \A a, b \in 1 .. n : a < b => mem[p].cells[a].key < mem[p].cells[b].key
    BY <2>2 DEF Ascends
  <2> HIDE DEF n
  <2>5. \A j \in i + 1 .. n : j \in 1 .. n /\ i < j
    BY <2>1, <2>3
  <2>6. \A j \in i + 1 .. n : mem[p].cells[i].key < mem[p].cells[j].key
    BY <2>3, <2>4, <2>5
  <2> QED BY <2>6 DEF n
<1>5. ASSUME NEW q \in Later[p], NEW j \in 1 .. Len(mem[q].cells)
      PROVE  mem[p].cells[i].key < mem[q].cells[j].key
  <2>1. q \in After(T, own, p)
    BY <1>1, <1>2, LaterIsAfter
  <2>2. mem[p].cells[i].key \in own[p] /\ mem[q].cells[j].key \in own[q]
    BY <2>1, <1>2, <1>3 DEF Filled, After
  <2> QED BY <2>1, <2>2 DEF After
<1> QED BY <1>4, <1>5

\* Under the same condition, a scan along the chain returns the rows in the order of
\* their keys.
THEOREM ScanOrderHolds == Spec /\ [][Restart => ParentsSaved]_vars => []ScanIsSorted
<1>1. IInv /\ TreeInv => ScanIsSorted
  BY ScansAscend
<1> QED BY <1>1, InvariantHolds, TreeHolds, PTL

-----------------------------------------------------------------------------
\* The condition is met as long as no internal node is split: every other step marks
\* each page that it writes to.
SavedParents == result.code # "error" => ParentsSaved

LEMMA WriteSaves ==
  ASSUME NEW new, NEW marked, NEW pages, ParentsSaved, Write(new, marked, pages),
         \A p \in NodePages \ marked : new[p] = mem[p]
  PROVE  ParentsSaved'
BY DEF Write, ParentsSaved

LEMMA StepSaves ==
  ASSUME IInv, SavedParents, Step, ~ (SplitNode \/ SplitRootNode) PROVE SavedParents'
<1>1. ParentsSaved /\ mem \in [NodePages -> LeafNode \cup InternalNode]
  BY StepFacts DEF SavedParents, IInv, TypeOK, StepInv, Step, Descend, Lookup, AtInsertLeaf,
     Duplicate, InsertIntoLeaf, AtFullLeaf, SplitRootLeaf, SplitRootLeafHalfway, NoPageForLeaf,
     SplitLeaf, InsertSeparator, AtFullNode, NoPagesForRootNode, NoPageForNode, ToFirstLeaf,
     DeleteRow, DeleteNext, UpdateLeaf
<1>2. CASE UNCHANGED <<mem, dirty, disk>>
  BY <1>1, <1>2 DEF SavedParents, ParentsSaved
<1>3. CASE InsertIntoLeaf
  BY <1>1, <1>3, WriteSaves DEF InsertIntoLeaf, SavedParents
<1>4. CASE SplitRootLeaf
  <2> DEFINE wide == WithRow(mem[at].cells, stmt.key, stmt.row)
             up == [key |-> HighCells(wide)[1].key, left |-> numPages + 1, right |-> numPages]
             low == [NewLeaf(at) EXCEPT !.root = FALSE, !.link = numPages,
                                        !.cells = LowCells(wide)]
             high == RightLeaf(wide)
             top == RootOver(mem[at], up)
             new == [mem EXCEPT ![numPages] = high, ![numPages + 1] = low, ![at] = top]
  <2>1. Write(new, {numPages, numPages + 1, at}, numPages + 2)
    BY <1>1, <1>4, StepFacts, PagesAreNodePages DEF SplitRootLeaf, AtFullLeaf, AtInsertLeaf
  <2> HIDE DEF low, high, top
  <2>2. \A p \in NodePages \ {numPages, numPages + 1, at} : new[p] = mem[p]
    BY <1>1
  <2> QED BY <1>1, <2>1, <2>2, WriteSaves DEF SavedParents
<1>5. CASE SplitLeaf
  <2> DEFINE wide == WithRow(mem[at].cells, stmt.key, stmt.row)
             high == [RightLeaf(wide) EXCEPT !.link = mem[at].link]
             low == LowCells(wide)
             new == [mem EXCEPT ![numPages] = high, ![at].cells = low, ![at].link = numPages]
  <2>1. Write(new, {numPages, at}, numPages + 1)
    BY <1>5 DEF SplitLeaf
  <2> HIDE DEF low, high
  <2>2. \A p \in NodePages \ {numPages, at} : new[p] = mem[p]
    BY <1>1
  <2> QED BY <1>1, <2>1, <2>2, WriteSaves DEF SavedParents
<1>6. CASE InsertSeparator
  BY <1>1, <1>6, WriteSaves DEF InsertSeparator, SavedParents
<1>7. CASE DeleteRow
  BY <1>1, <1>7, WriteSaves DEF DeleteRow, SavedParents
<1>8. CASE UpdateLeaf
  <2> DEFINE hits == Matches(mem[at].cells)
             cells == [i \in 1 .. Len(mem[at].cells) |->
                         IF i \in hits THEN [mem[at].cells[i] EXCEPT !.row = stmt.row]
                                       ELSE mem[at].cells[i]]
             new == [mem EXCEPT ![at].cells = cells]
             marked == IF hits = {} THEN {} ELSE {at}
  <2>1. Write(new, marked, numPages) /\ pc = "walk"
    BY <1>8 DEF UpdateLeaf
  <2>2. mem[at] \in Leaf /\ at \in NodePages
    BY <2>1, StepFacts DEF LeafNode
  <2>3. hits = {} => cells = mem[at].cells
    <3>1. mem[at].cells = [i \in 1 .. Len(mem[at].cells) |-> mem[at].cells[i]]
      BY <2>2 DEF Leaf
    <3> QED BY <3>1
  <2> HIDE DEF cells
  <2>4. [mem[at] EXCEPT !.cells = mem[at].cells] = mem[at]
    BY <2>2 DEF Leaf
  <2>5. hits = {} => new[at] = mem[at]
    BY <1>1, <2>2, <2>3, <2>4
  <2>6. \A p \in NodePages \ {at} : new[p] = mem[p]
    BY <1>1
  <2> HIDE DEF hits, new
  <2>7. \A p \in NodePages \ marked : new[p] = mem[p]
    BY <2>5, <2>6
  <2> QED BY <1>1, <2>1, <2>7, WriteSaves DEF SavedParents
<1>9. CASE SplitRootLeafHalfway \/ NoPageForNode
  BY <1>9 DEF SplitRootLeafHalfway, NoPageForNode, Finish, Reply, SavedParents
<1> QED
  BY <1>2, <1>3, <1>4, <1>5, <1>6, <1>7, <1>8, <1>9 DEF Step, Descend, Lookup, Duplicate,
     NoPageForLeaf, NoPagesForRootNode, ToFirstLeaf, DeleteNext, pager

LEMMA BeginSaves ==
  ASSUME SavedParents, BeginInsert \/ BeginSelect \/ BeginDelete \/ BeginUpdate
  PROVE  SavedParents'
BY DEF BeginInsert, BeginSelect, BeginDelete, BeginUpdate, Begin, pager, SavedParents,
   ParentsSaved

LEMMA NextSaves ==
  IInv /\ SavedParents /\ [Next]_vars /\ [~ (SplitNode \/ SplitRootNode)]_vars => SavedParents'
<1> SUFFICES ASSUME IInv, SavedParents, [Next]_vars, [~ (SplitNode \/ SplitRootNode)]_vars
             PROVE  SavedParents'
  OBVIOUS
<1>1. CASE UNCHANGED vars
  BY <1>1 DEF vars, pager, control, SavedParents, ParentsSaved
<1>2. CASE Step /\ ~ (SplitNode \/ SplitRootNode)
  BY <1>2, StepSaves
<1>3. CASE Restart \/ Crash
  BY <1>3 DEF Restart, Crash, SavedParents, ParentsSaved
<1> QED BY <1>1, <1>2, <1>3, BeginSaves DEF Next

\* What a clean restart would lose is nothing, as long as no internal node has been
\* split: a split is the only step that leaves a page that it writes to unmarked.  The
\* theorems above hold without a condition for all histories of that kind.
THEOREM OnlyNodeSplitsLose ==
  Spec /\ [][~ (SplitNode \/ SplitRootNode)]_vars => [][Restart => ParentsSaved]_vars
<1>1. Init => SavedParents
  BY DEF Init, SavedParents, ParentsSaved
<1>2. SavedParents => [Restart => ParentsSaved]_vars
  BY DEF Restart, SavedParents
<1> QED BY <1>1, <1>2, NextSaves, InvariantHolds, PTL DEF Spec

-----------------------------------------------------------------------------
\* The table: the rows of the pages (LeafCells) after each action, and then the step of
\* module DurableTable that the action amounts to.

\* Page p is a leaf that holds the row c.
Holds(m, p, c) == m[p].type = "leaf" /\ \E i \in 1 .. Len(m[p].cells) : m[p].cells[i] = c

LEMMA RowsOfPages ==
  ASSUME NEW m \in [NodePages -> Leaf \cup Internal]
  PROVE  \A c : c \in LeafCells(m) <=> \E p \in NodePages : Holds(m, p, c)
<1>1. ASSUME NEW p \in NodePages, m[p].type = "leaf"
      PROVE  \A c : c \in Range(m[p].cells) <=> Holds(m, p, c)
  <2>1. m[p].cells \in Seq(LeafCell)
    BY <1>1, PageTypes DEF Leaf
  <2>2. DOMAIN m[p].cells = 1 .. Len(m[p].cells)
    BY <2>1, LenProperties
  <2> QED BY <2>2, <1>1 DEF Range, Holds
<1>2. \A c : c \in LeafCells(m) <=>
             \E p \in NodePages : m[p].type = "leaf" /\ c \in Range(m[p].cells)
  BY DEF LeafCells
<1> QED BY <1>1, <1>2 DEF Holds

\* The rows of the pages, where N is added to those of the pages P.
RowsChange(m, m2, P, N) ==
  /\ P \subseteq NodePages
  /\ \A p \in NodePages \ P : \A c : Holds(m2, p, c) <=> Holds(m, p, c)
  /\ \A c : (\E p \in P : Holds(m2, p, c)) <=> (\E p \in P : Holds(m, p, c)) \/ c \in N

LEMMA RowsAdded ==
  ASSUME NEW m \in [NodePages -> Leaf \cup Internal], NEW m2 \in [NodePages -> Leaf \cup Internal],
         NEW P, NEW N, RowsChange(m, m2, P, N)
  PROVE  LeafCells(m2) = LeafCells(m) \cup N
<1>1. \A c : c \in LeafCells(m2) <=>
             (\E p \in NodePages \ P : Holds(m2, p, c)) \/ (\E p \in P : Holds(m2, p, c))
  BY RowsOfPages DEF RowsChange
<1>2. \A c : c \in LeafCells(m) <=>
             (\E p \in NodePages \ P : Holds(m, p, c)) \/ (\E p \in P : Holds(m, p, c))
  BY RowsOfPages DEF RowsChange
<1>3. \A c : c \in LeafCells(m2) <=> c \in LeafCells(m) \/ c \in N
  BY <1>1, <1>2 DEF RowsChange
<1> QED BY <1>3

\* The rows of the pages, where none is changed.
LEMMA RowsStay ==
  ASSUME NEW m \in [NodePages -> Leaf \cup Internal], NEW m2 \in [NodePages -> Leaf \cup Internal],
         \A p \in NodePages : \/ m2[p].type = m[p].type /\ m2[p].cells = m[p].cells
                              \/ m2[p].type # "leaf" /\ m[p].type # "leaf"
                              \/ m2[p].type # "leaf" /\ m[p].cells = <<>>
  PROVE  LeafCells(m2) = LeafCells(m)
<1>1. ASSUME NEW p \in NodePages, NEW c PROVE Holds(m2, p, c) <=> Holds(m, p, c)
  <2>1. CASE m2[p].type = m[p].type /\ m2[p].cells = m[p].cells
    BY <2>1 DEF Holds
  <2>2. CASE m2[p].type # "leaf" /\ m[p].type # "leaf"
    BY <2>2 DEF Holds
  <2>3. CASE m2[p].type # "leaf" /\ m[p].cells = <<>>
    <3>1. Len(m[p].cells) = 0 /\ 1 .. 0 = {}
      BY <2>3
    <3> QED BY <3>1, <2>3 DEF Holds
  <2> QED BY <2>1, <2>2, <2>3
<1>2. \A c : c \in LeafCells(m2) <=> c \in LeafCells(m)
  BY <1>1, RowsOfPages
<1> QED BY <1>2

\* Every row is in the tree, in the leaf that owns its key, and no key is there twice.
LEMMA RowsAreOwned ==
  ASSUME NEW m, NEW count, NEW T, NEW own, NEW h, SearchTree(m, count, T, own, h),
         NEW c, NEW p \in NodePages, Holds(m, p, c)
  PROVE  p \in T /\ c.key \in own[p] /\ c.key \in Int /\ c \in LeafCell
<1>1. /\ m \in [NodePages -> Leaf \cup Internal] /\ own \in [NodePages -> SUBSET Int]
  BY DEF SearchTree, Typed
<1>2. m[p].type = "leaf" /\ m[p].cells \in Seq(LeafCell)
  BY <1>1, PageTypes DEF Holds, Leaf
<1>3. PICK i \in 1 .. Len(m[p].cells) : m[p].cells[i] = c
  BY DEF Holds
<1>4. p \in T
  <2>1. SUFFICES ASSUME p \notin T PROVE FALSE
    OBVIOUS
  <2>2. m[p].cells = <<>>
    BY <2>1 DEF SearchTree, Empty
  <2>3. Len(m[p].cells) = 0 /\ 1 .. 0 = {}
    BY <2>2
  <2> QED BY <2>3, <1>3
<1>5. Filled(m[p], own, p)
  BY <1>2, <1>4 DEF SearchTree, PageOK
<1>6. c.key \in own[p]
  BY <1>3, <1>5 DEF Filled
<1> QED BY <1>1, <1>2, <1>3, <1>4, <1>6, ElementOfSeq

LEMMA RowsOnce ==
  ASSUME NEW m, NEW count, NEW T, NEW own, NEW h, SearchTree(m, count, T, own, h),
         NEW c, NEW p \in NodePages, Holds(m, p, c),
         NEW d, NEW q \in NodePages, Holds(m, q, d), c.key = d.key
  PROVE  c = d /\ p = q
<1>1. /\ p \in T /\ c.key \in own[p] /\ q \in T /\ c.key \in own[q] /\ c.key \in Int
  BY RowsAreOwned
<1>2. m[p].type = "leaf" /\ m[q].type = "leaf"
  BY DEF Holds
<1>3. h[p] = 1 /\ h[q] = 1 /\ Filled(m[p], own, p)
  BY <1>1, <1>2 DEF SearchTree, PageOK
<1>4. p = q
  BY <1>1, <1>3 DEF SearchTree, Disjoint
<1>5. PICK i \in 1 .. Len(m[p].cells) : m[p].cells[i] = c
  BY DEF Holds
<1>6. PICK j \in 1 .. Len(m[p].cells) : m[p].cells[j] = d
  BY <1>4 DEF Holds
<1>7. Len(m[p].cells) \in Nat
  <2>1. m[p].cells \in Seq(LeafCell)
    BY <1>2, PageTypes DEF SearchTree, Typed, Leaf
  <2> QED BY <2>1, LenProperties
<1>8. i = j
  <2>1. ~ (i < j) /\ ~ (j < i)
    BY <1>1, <1>3, <1>5, <1>6 DEF Filled, Ascends
  <2> QED BY <2>1, <1>7
<1> QED BY <1>4, <1>5, <1>6, <1>8

-----------------------------------------------------------------------------
\* What an INSERT or a lookup by key sees of the table in the leaf that it comes to.
TheRow == [key |-> stmt.key, row |-> stmt.row]

LEMMA PageValues ==
  ASSUME IInv
  PROVE  /\ mem \in [NodePages -> Leaf \cup Internal]
         /\ disk \in [NodePages -> Leaf \cup Internal]
         /\ numPages \in Nat /\ numPages >= 2 /\ numPages <= MaxPages
         /\ \A p \in Int : 1 <= p /\ p < MaxPages => p \in NodePages
<1>1. disk \in [NodePages -> LeafNode \cup InternalNode] /\ numPages \in 2 .. MaxPages
  BY DEF IInv, TypeOK
<1>2. disk \in [NodePages -> Leaf \cup Internal]
  BY <1>1 DEF LeafNode, InternalNode
<1>3. numPages \in Nat /\ numPages >= 2 /\ numPages <= MaxPages
  BY <1>1, CapacityAssumption
<1>4. \A p \in Int : 1 <= p /\ p < MaxPages => p \in NodePages
  BY CapacityAssumption DEF NodePages, PageNum
<1> QED BY <1>2, <1>3, <1>4, ViewPages

LEMMA LeafHasKey ==
  ASSUME IInv, TreeInv, pc = "descend", mem[at].type = "leaf"
  PROVE  \A c : c \in LeafCells(mem) /\ c.key = stmt.key <=>
                \E i \in 1 .. Len(mem[at].cells) : mem[at].cells[i] = c /\ c.key = stmt.key
<1>1. PICK T, own, h :
        /\ SearchTree(mem, numPages, T, own, h) /\ Placed(T, own) /\ at \in T /\ h[at] = 1
  BY LeafOfTree
<1>2. /\ at \in NodePages /\ mem \in [NodePages -> Leaf \cup Internal]
  BY LeafOfTree
<1>3. stmt.key \in own[at]
  BY <1>1 DEF Placed
<1>4. ASSUME NEW c, NEW p \in NodePages, Holds(mem, p, c), c.key = stmt.key PROVE p = at
  <2>1. p \in T /\ stmt.key \in own[p] /\ stmt.key \in Int
    BY <1>1, <1>4, RowsAreOwned
  <2>2. h[p] = 1
    BY <2>1, <1>1, <1>4 DEF Holds, SearchTree, PageOK
  <2> QED BY <2>1, <2>2, <1>1, <1>3 DEF SearchTree, Disjoint
<1> QED BY <1>2, <1>4, RowsOfPages DEF Holds

\* Pages that are not in use hold nothing.
LEMMA SparePages ==
  ASSUME IInv, TreeInv, pc # "idle", NEW p \in NodePages, p >= numPages
  PROVE  mem[p].type = "leaf" /\ mem[p].cells = <<>> /\ p # at /\ \A c : ~ Holds(mem, p, c)
<1>1. PICK T, own, h : TreeAt(T, own, h) /\ at \in T
  BY RunningTree
<1>2. T \subseteq 1 .. numPages - 1 /\ \A q \in NodePages \ T : Empty(View[q])
  BY <1>1 DEF TreeAt, SearchTree, Typed
<1>3. p \notin T /\ p # at
  <2>1. p \in Nat /\ numPages \in Nat
    BY PageValues DEF NodePages, PageNum
  <2>2. p \notin 1 .. numPages - 1
    BY <2>1
  <2> QED BY <1>1, <1>2, <2>2
<1>4. View[p] = mem[p]
  BY <1>3, PageValues DEF View
<1>5. mem[p].type = "leaf" /\ mem[p].cells = <<>>
  BY <1>2, <1>3, <1>4 DEF Empty
<1>6. Len(mem[p].cells) = 0 /\ 1 .. 0 = {}
  BY <1>5
<1> QED BY <1>3, <1>5, <1>6 DEF Holds

LEMMA WiderLeaf ==
  ASSUME IInv, TreeInv, AtInsertLeaf, ~ HasKey(mem[at].cells, stmt.key)
  PROVE  LET wide == WithRow(mem[at].cells, stmt.key, stmt.row)
         IN  /\ wide \in Seq(LeafCell) /\ Len(wide) = Len(mem[at].cells) + 1
             /\ \A c : (\E i \in 1 .. Len(wide) : wide[i] = c)
                       <=> c = TheRow \/ Holds(mem, at, c)
             /\ \A c \in LeafCells(mem) : c.key # stmt.key
             /\ TheRow \in LeafCell /\ TheRow \notin LeafCells(mem)
<1> DEFINE wide == WithRow(mem[at].cells, stmt.key, stmt.row)
<1>1. pc = "descend" /\ stmt.op = "insert" /\ mem[at].type = "leaf"
  BY DEF AtInsertLeaf
<1>2. PICK T, own, h :
        /\ SearchTree(mem, numPages, T, own, h) /\ Placed(T, own) /\ at \in T
        /\ Filled(mem[at], own, at)
  BY <1>1, LeafOfTree
<1>3. mem[at].cells \in Seq(LeafCell) /\ stmt.key \in Keys /\ stmt.row \in Rows
  BY <1>1, LeafOfTree, StepFacts, StatementFields DEF ControlOK
<1> DEFINE row == [key |-> stmt.key, row |-> stmt.row]
<1>4. /\ wide \in Seq(LeafCell) /\ Len(wide) = Len(mem[at].cells) + 1
      /\ \A i \in 1 .. Len(wide) : \/ wide[i] = row
                                   \/ \E j \in 1 .. Len(mem[at].cells) : wide[i] = mem[at].cells[j]
      /\ \E i \in 1 .. Len(wide) : wide[i] = row
      /\ \A j \in 1 .. Len(mem[at].cells) : \E i \in 1 .. Len(wide) : wide[i] = mem[at].cells[j]
  <2>1. Ascends(mem[at].cells) /\ ~ HasKey(mem[at].cells, stmt.key)
    BY <1>2 DEF Filled
  <2>2. Wider(WithRow(mem[at].cells, stmt.key, stmt.row), mem[at].cells, row)
    BY <2>1, <1>3, WithRowCells
  <2> HIDE DEF row
  <2>3. Wider(wide, mem[at].cells, row)
    BY <2>2
  <2> HIDE DEF wide
  <2> QED BY <2>3 DEF Wider
<1>0. row = TheRow
  BY DEF TheRow
<1> HIDE DEF wide, row
<1>5. \A c : (\E i \in 1 .. Len(wide) : wide[i] = c) <=> c = TheRow \/ Holds(mem, at, c)
  BY <1>0, <1>1, <1>4 DEF Holds
<1>6. \A c \in LeafCells(mem) : c.key # stmt.key
  BY <1>1, LeafHasKey DEF HasKey
<1>7. TheRow \in LeafCell /\ TheRow.key = stmt.key
  BY <1>3 DEF TheRow, LeafCell
<1> QED BY <1>4, <1>5, <1>6, <1>7 DEF wide

\* The halves of a full leaf with one more row have its rows.
LEMMA HalvesRows ==
  ASSUME IInv, TreeInv, AtFullLeaf
  PROVE  LET wide == WithRow(mem[at].cells, stmt.key, stmt.row)
             low  == LowCells(wide)
             high == HighCells(wide)
         IN  /\ \A c : (\E i \in 1 .. Len(low) : low[i] = c)
                       \/ (\E i \in 1 .. Len(high) : high[i] = c)
                       <=> c = TheRow \/ Holds(mem, at, c)
<1> DEFINE wide == WithRow(mem[at].cells, stmt.key, stmt.row)
           low  == LowCells(wide)
           high == HighCells(wide)
           n    == LeafMax + 1 - LeafMid
<1>1. AtInsertLeaf /\ ~ HasKey(mem[at].cells, stmt.key) /\ Len(mem[at].cells) >= LeafMax
  BY DEF AtFullLeaf
<1>2. /\ wide \in Seq(LeafCell) /\ Len(wide) = Len(mem[at].cells) + 1
      /\ \A c : (\E i \in 1 .. Len(wide) : wide[i] = c) <=> c = TheRow \/ Holds(mem, at, c)
  BY <1>1, WiderLeaf
<1>3. Len(mem[at].cells) \in Nat /\ Len(mem[at].cells) <= LeafMax
  <2>1. mem[at] \in LeafNode
    BY FullLeafFacts
  <2> QED BY <2>1, LenProperties DEF LeafNode, Leaf
<1> HIDE DEF wide
<1>4. Len(wide) = LeafMax + 1
  BY <1>1, <1>2, <1>3, CapacityAssumption
<1>5. /\ LeafMid \in 1 .. LeafMax /\ Len(low) = LeafMid /\ Len(high) = n
      /\ \A i \in 1 .. LeafMid : low[i] = wide[i]
      /\ \A i \in 1 .. n : high[i] = wide[LeafMid + i]
  BY <1>2, <1>4, LeafHalvesCells
<1> HIDE DEF low, high
<1>6. ASSUME NEW c
      PROVE  (\E i \in 1 .. Len(low) : low[i] = c) \/ (\E i \in 1 .. Len(high) : high[i] = c)
             <=> \E i \in 1 .. Len(wide) : wide[i] = c
  <2>1. ASSUME NEW i \in 1 .. Len(low), low[i] = c PROVE \E j \in 1 .. Len(wide) : wide[j] = c
    <3>1. i \in 1 .. Len(wide) /\ wide[i] = c
      BY <2>1, <1>4, <1>5, CapacityAssumption
    <3> QED BY <3>1
  <2>2. ASSUME NEW i \in 1 .. Len(high), high[i] = c PROVE \E j \in 1 .. Len(wide) : wide[j] = c
    <3>1. LeafMid + i \in 1 .. Len(wide) /\ wide[LeafMid + i] = c
      BY <2>2, <1>4, <1>5, CapacityAssumption
    <3> QED BY <3>1
  <2>3. ASSUME NEW i \in 1 .. Len(wide), wide[i] = c
        PROVE  (\E j \in 1 .. Len(low) : low[j] = c) \/ (\E j \in 1 .. Len(high) : high[j] = c)
    <3>1. CASE i <= LeafMid
      <4>1. i \in 1 .. Len(low) /\ low[i] = c
        BY <3>1, <2>3, <1>4, <1>5, CapacityAssumption
      <4> QED BY <4>1
    <3>2. CASE i > LeafMid
      <4>1. i - LeafMid \in 1 .. n /\ LeafMid + (i - LeafMid) = i
        BY <3>2, <2>3, <1>4, <1>5, CapacityAssumption
      <4>2. i - LeafMid \in 1 .. Len(high) /\ high[i - LeafMid] = c
        BY <4>1, <2>3, <1>5
      <4> QED BY <4>2
    <3> QED BY <3>1, <3>2, <1>5, <1>4, CapacityAssumption
  <2> QED BY <2>1, <2>2, <2>3
<1> QED BY <1>2, <1>6 DEF low, high, wide

-----------------------------------------------------------------------------
\* The rows that each step leaves in the pages.
LEMMA NextPages == ASSUME IInv' PROVE mem' \in [NodePages -> Leaf \cup Internal]
<1>1. mem' \in [NodePages -> LeafNode \cup InternalNode]
  BY DEF IInv, TypeOK
<1> QED BY <1>1 DEF LeafNode, InternalNode

LEMMA InsertIntoLeafRows ==
  ASSUME IInv, IInv', TreeInv, InsertIntoLeaf
  PROVE  LeafCells(mem') = LeafCells(mem) \cup {TheRow}
<1> DEFINE wide == WithRow(mem[at].cells, stmt.key, stmt.row)
<1>1. /\ AtInsertLeaf /\ ~ HasKey(mem[at].cells, stmt.key) /\ mem[at].type = "leaf"
      /\ pc = "descend" /\ mem' = [mem EXCEPT ![at].cells = wide]
  BY DEF InsertIntoLeaf, AtInsertLeaf, Write
<1>2. \A c : (\E i \in 1 .. Len(wide) : wide[i] = c) <=> c = TheRow \/ Holds(mem, at, c)
  BY <1>1, WiderLeaf
<1>3. mem \in [NodePages -> Leaf \cup Internal] /\ at \in NodePages /\ mem[at] \in Leaf
  BY <1>1, LeafOfTree
<1> HIDE DEF wide
<1>4. mem'[at].type = "leaf" /\ mem'[at].cells = wide
  BY <1>1, <1>3 DEF Leaf
<1>5. \A p \in NodePages \ {at} : mem'[p] = mem[p]
  BY <1>1, <1>3
<1>6. \A c : Holds(mem', at, c) <=> Holds(mem, at, c) \/ c \in {TheRow}
  BY <1>2, <1>4 DEF Holds
<1>7. \A p \in NodePages \ {at} : \A c : Holds(mem', p, c) <=> Holds(mem, p, c)
  BY <1>5 DEF Holds
<1>8. RowsChange(mem, mem', {at}, {TheRow})
  <2>1. {at} \subseteq NodePages
    BY <1>3
  <2> QED BY <2>1, <1>6, <1>7 DEF RowsChange
<1> QED BY <1>3, <1>8, NextPages, RowsAdded

LEMMA SplitLeafRows ==
  ASSUME IInv, IInv', TreeInv, SplitLeaf
  PROVE  LeafCells(mem') = LeafCells(mem) \cup {TheRow}
<1> DEFINE wide == WithRow(mem[at].cells, stmt.key, stmt.row)
           low  == LowCells(wide)
           high == HighCells(wide)
           r    == numPages
           rightNode == [RightLeaf(wide) EXCEPT !.link = mem[at].link]
<1>1. /\ AtFullLeaf /\ r < MaxPages
      /\ mem' = [mem EXCEPT ![r] = rightNode, ![at].cells = low, ![at].link = r]
  BY DEF SplitLeaf, Write
<1>2. pc = "descend" /\ mem[at].type = "leaf"
  BY <1>1 DEF AtFullLeaf, AtInsertLeaf
<1>3. \A c : (\E i \in 1 .. Len(low) : low[i] = c) \/ (\E i \in 1 .. Len(high) : high[i] = c)
             <=> c = TheRow \/ Holds(mem, at, c)
  BY <1>1, HalvesRows
<1>4. mem \in [NodePages -> Leaf \cup Internal] /\ at \in NodePages /\ mem[at] \in Leaf
  BY <1>2, LeafOfTree
<1>5. r \in NodePages /\ r # at /\ \A c : ~ Holds(mem, r, c)
  BY <1>1, <1>2, PageValues, SparePages
<1>6. rightNode.type = "leaf" /\ rightNode.cells = high
  BY DEF RightLeaf, NewLeaf, ZeroPage
<1> HIDE DEF wide, low, high, rightNode, r
<1>7. /\ mem'[r] = rightNode /\ mem'[at] = [mem[at] EXCEPT !.cells = low, !.link = r]
      /\ \A p \in NodePages \ {at, r} : mem'[p] = mem[p]
  BY <1>1, <1>4, <1>5
<1>8. mem'[at].type = "leaf" /\ mem'[at].cells = low
  BY <1>4, <1>7 DEF Leaf
<1>9. \A c : (\E p \in {at, r} : Holds(mem', p, c))
             <=> (\E p \in {at, r} : Holds(mem, p, c)) \/ c \in {TheRow}
  <2>1. \A c : Holds(mem', r, c) <=> \E i \in 1 .. Len(high) : high[i] = c
    BY <1>6, <1>7 DEF Holds
  <2>2. \A c : Holds(mem', at, c) <=> \E i \in 1 .. Len(low) : low[i] = c
    BY <1>8 DEF Holds
  <2> QED BY <2>1, <2>2, <1>3, <1>5
<1>10. \A p \in NodePages \ {at, r} : \A c : Holds(mem', p, c) <=> Holds(mem, p, c)
  BY <1>7 DEF Holds
<1>11. RowsChange(mem, mem', {at, r}, {TheRow})
  <2>1. {at, r} \subseteq NodePages
    BY <1>4, <1>5
  <2> QED BY <2>1, <1>9, <1>10 DEF RowsChange
<1> QED BY <1>4, <1>11, NextPages, RowsAdded

LEMMA SplitRootLeafRows ==
  ASSUME IInv, IInv', TreeInv, SplitRootLeaf
  PROVE  LeafCells(mem') = LeafCells(mem) \cup {TheRow}
<1> DEFINE wide == WithRow(mem[at].cells, stmt.key, stmt.row)
           low  == LowCells(wide)
           high == HighCells(wide)
           r    == numPages
           l    == numPages + 1
           up   == [key |-> high[1].key, left |-> l, right |-> r]
           rightNode == RightLeaf(wide)
           leftNode  == [NewLeaf(at) EXCEPT !.root = FALSE, !.link = r, !.cells = low]
           rootNode  == RootOver(mem[at], up)
<1>1. /\ AtFullLeaf /\ l < MaxPages
      /\ mem' = [mem EXCEPT ![r] = rightNode, ![l] = leftNode, ![at] = rootNode]
  BY DEF SplitRootLeaf, Write
<1>2. pc = "descend" /\ mem[at].type = "leaf"
  BY <1>1 DEF AtFullLeaf, AtInsertLeaf
<1>3. \A c : (\E i \in 1 .. Len(low) : low[i] = c) \/ (\E i \in 1 .. Len(high) : high[i] = c)
             <=> c = TheRow \/ Holds(mem, at, c)
  BY <1>1, HalvesRows
<1>4. mem \in [NodePages -> Leaf \cup Internal] /\ at \in NodePages /\ mem[at] \in Leaf
  BY <1>2, LeafOfTree
<1>5. /\ r \in NodePages /\ r # at /\ \A c : ~ Holds(mem, r, c)
      /\ l \in NodePages /\ l # at /\ \A c : ~ Holds(mem, l, c)
      /\ l # r
  <2>1. r \in NodePages /\ l \in NodePages /\ r >= numPages /\ l >= numPages /\ l # r
    <3>1. l < MaxPages /\ numPages \in Nat /\ numPages >= 2
      BY <1>1, PageValues
    <3>2. \A p \in Int : 1 <= p /\ p < MaxPages => p \in NodePages
      BY PageValues
    <3>3. r \in Int /\ l \in Int /\ 1 <= r /\ 1 <= l /\ r < MaxPages
      BY <3>1, CapacityAssumption
    <3> QED BY <3>1, <3>2, <3>3
  <2> HIDE DEF l, r
  <2> QED BY <2>1, <1>2, SparePages
<1>6. /\ rightNode.type = "leaf" /\ rightNode.cells = high
      /\ leftNode.type = "leaf" /\ leftNode.cells = low
  <2> HIDE DEF low, high, r, l
  <2>1. leftNode.type = "leaf" /\ leftNode.cells = low
    BY DEF NewLeaf, ZeroPage
  <2>2. rightNode.type = "leaf" /\ rightNode.cells = high
    BY DEF RightLeaf, NewLeaf, ZeroPage, high
  <2> QED BY <2>1, <2>2
<1>7. rootNode.type = "internal"
  <2> HIDE DEF up
  <2> QED BY <1>4 DEF RootOver, Leaf
<1> HIDE DEF wide, low, high, up, rightNode, leftNode, rootNode, r, l
<1>8. /\ mem'[r] = rightNode /\ mem'[l] = leftNode /\ mem'[at] = rootNode
      /\ \A p \in NodePages \ {at, r, l} : mem'[p] = mem[p]
  BY <1>1, <1>4, <1>5
<1>9. \A c : (\E p \in {at, r, l} : Holds(mem', p, c))
             <=> (\E p \in {at, r, l} : Holds(mem, p, c)) \/ c \in {TheRow}
  <2>1. \A c : ~ Holds(mem', at, c)
    BY <1>7, <1>8 DEF Holds
  <2>2. \A c : Holds(mem', r, c) <=> \E i \in 1 .. Len(high) : high[i] = c
    BY <1>6, <1>8 DEF Holds
  <2>3. \A c : Holds(mem', l, c) <=> \E i \in 1 .. Len(low) : low[i] = c
    BY <1>6, <1>8 DEF Holds
  <2> QED BY <2>1, <2>2, <2>3, <1>3, <1>5
<1>10. \A p \in NodePages \ {at, r, l} : \A c : Holds(mem', p, c) <=> Holds(mem, p, c)
  BY <1>8 DEF Holds
<1>11. RowsChange(mem, mem', {at, r, l}, {TheRow})
  <2>1. {at, r, l} \subseteq NodePages
    BY <1>4, <1>5
  <2> QED BY <2>1, <1>9, <1>10 DEF RowsChange
<1> QED BY <1>4, <1>11, NextPages, RowsAdded

LEMMA HalfwayRows ==
  ASSUME IInv, IInv', TreeInv, SplitRootLeafHalfway
  PROVE  LeafCells(mem') \in {LeafCells(mem), LeafCells(mem) \cup {TheRow}}
<1> DEFINE wide == WithRow(mem[at].cells, stmt.key, stmt.row)
           low  == LowCells(wide)
           high == HighCells(wide)
           r    == numPages
           rightNode == RightLeaf(wide)
           more == {c \in {TheRow} : \E i \in 1 .. Len(high) : high[i] = c}
<1>1. AtFullLeaf /\ r + 1 = MaxPages /\ mem' = [mem EXCEPT ![r] = rightNode]
  BY DEF SplitRootLeafHalfway, Write
<1>2. pc = "descend" /\ mem[at].type = "leaf"
  BY <1>1 DEF AtFullLeaf, AtInsertLeaf
<1>3. \A c : (\E i \in 1 .. Len(high) : high[i] = c) => c = TheRow \/ Holds(mem, at, c)
  BY <1>1, HalvesRows
<1>4. mem \in [NodePages -> Leaf \cup Internal] /\ at \in NodePages /\ mem[at] \in Leaf
  BY <1>2, LeafOfTree
<1>5. r \in NodePages /\ r # at /\ \A c : ~ Holds(mem, r, c)
  BY <1>1, <1>2, PageValues, SparePages
<1>6. rightNode.type = "leaf" /\ rightNode.cells = high
  BY DEF RightLeaf, NewLeaf, ZeroPage
<1> HIDE DEF wide, low, high, rightNode, r
<1>7. mem'[r] = rightNode /\ \A p \in NodePages \ {r} : mem'[p] = mem[p]
  BY <1>1, <1>4, <1>5
<1>8. \A p \in NodePages \ {at, r} : \A c : Holds(mem', p, c) <=> Holds(mem, p, c)
  BY <1>7 DEF Holds
<1>9. \A c : (\E p \in {at, r} : Holds(mem', p, c))
             <=> (\E p \in {at, r} : Holds(mem, p, c)) \/ c \in more
  <2>1. \A c : Holds(mem', r, c) <=> \E i \in 1 .. Len(high) : high[i] = c
    BY <1>6, <1>7 DEF Holds
  <2>2. \A c : Holds(mem', at, c) <=> Holds(mem, at, c)
    BY <1>4, <1>5, <1>7 DEF Holds
  <2> QED BY <2>1, <2>2, <1>3, <1>5
<1>11. more = {} \/ more = {TheRow}
  OBVIOUS
<1> HIDE DEF more
<1>12. LeafCells(mem') = LeafCells(mem) \cup more
  <2>1. {at, r} \subseteq NodePages
    BY <1>4, <1>5
  <2>2. RowsChange(mem, mem', {at, r}, more)
    BY <2>1, <1>8, <1>9 DEF RowsChange
  <2> QED BY <2>2, <1>4, NextPages, RowsAdded
<1> QED BY <1>11, <1>12

SameRows(m, m2) ==
  \A p \in NodePages : m2[p].type = m[p].type /\ m2[p].cells = m[p].cells

LEMMA AdoptRows ==
  ASSUME NEW pages \in [NodePages -> LeafNode \cup InternalNode],
         NEW kids, NEW parent \in PageNum
  PROVE  /\ Adopt(pages, kids, parent) \in [NodePages -> LeafNode \cup InternalNode]
         /\ SameRows(pages, Adopt(pages, kids, parent))
<1> DEFINE new == Adopt(pages, kids, parent)
<1>1. new \in [NodePages -> LeafNode \cup InternalNode]
  BY AdoptProperties
<1>2. ASSUME NEW p \in NodePages
      PROVE  new[p].type = pages[p].type /\ new[p].cells = pages[p].cells
  <2>1. pages[p] \in Leaf \cup Internal
    BY DEF LeafNode, InternalNode
  <2> QED BY <2>1 DEF Adopt, Leaf, Internal
<1> HIDE DEF new
<1>3. SameRows(pages, new)
  BY <1>2 DEF SameRows
<1> QED BY <1>1, <1>3 DEF new

\* Separators move no rows.
LEMMA SeparatorRows ==
  ASSUME IInv, IInv', TreeInv,
         InsertSeparator \/ SplitRootNode \/ NoPagesForRootNode \/ SplitNode \/ NoPageForNode
  PROVE  LeafCells(mem') = LeafCells(mem)
<1> DEFINE wide == WithSeparator(mem[at], sep)
           low  == LowNode(wide)
           high == HighNode(wide)
<1>1. pc = "separator"
  BY DEF InsertSeparator, SplitRootNode, NoPagesForRootNode, SplitNode, NoPageForNode, AtFullNode
<1>2. /\ mem \in [NodePages -> Leaf \cup Internal]
      /\ mem \in [NodePages -> LeafNode \cup InternalNode]
      /\ at \in NodePages /\ mem[at].type = "internal"
      /\ mem[at] \in Internal
  BY <1>1, StepFacts, ViewPages DEF InternalNode
<1>3. CASE InsertSeparator
  <2>1. mem' = [mem EXCEPT ![at] = wide]
    BY <1>3 DEF InsertSeparator, Write
  <2>2. wide.type = "internal"
    <3>1. wide \in Internal
      BY <1>1, SeparatorFacts
    <3> QED BY <3>1 DEF Internal
  <2> HIDE DEF wide
  <2>3. \A p \in NodePages : \/ mem'[p].type = mem[p].type /\ mem'[p].cells = mem[p].cells
                             \/ mem'[p].type # "leaf" /\ mem[p].type # "leaf"
    BY <2>1, <2>2, <1>2
  <2> QED BY <2>3, <1>2, NextPages, RowsStay
<1>4. CASE NoPagesForRootNode
  BY <1>4 DEF NoPagesForRootNode
<1>5. CASE NoPageForNode
  <2>1. mem' = [mem EXCEPT ![at] = Wiped(@)]
    BY <1>5 DEF NoPageForNode
  <2>2. Wiped(mem[at]).type = "internal"
    BY <1>2 DEF Wiped, Internal
  <2>3. \A p \in NodePages : \/ mem'[p].type = mem[p].type /\ mem'[p].cells = mem[p].cells
                             \/ mem'[p].type # "leaf" /\ mem[p].type # "leaf"
    BY <2>1, <2>2, <1>2
  <2> QED BY <2>3, <1>2, NextPages, RowsStay
<1>6. CASE SplitNode
  <2> DEFINE r == numPages
             adopted == Adopt(mem, Kids(high), r)
  <2>1. /\ AtFullNode /\ r < MaxPages
        /\ mem' = [adopted EXCEPT ![at] = low, ![r] = high]
    BY <1>6 DEF SplitNode, Write
  <2>2. low.type = "internal" /\ high.type = "internal"
    BY <2>1, FullNodeFacts
  <2> HIDE DEF low, high
  <2>3. r \in NodePages /\ r # at /\ mem[r].cells = <<>>
    <3>1. r \in NodePages /\ r >= numPages
      BY <2>1, PageValues
    <3> QED BY <3>1, <1>1, SparePages
  <2>4. /\ DOMAIN adopted = NodePages
        /\ \A p \in NodePages : adopted[p].type = mem[p].type /\ adopted[p].cells = mem[p].cells
    BY <1>2, <2>1, <2>3 DEF Adopt, Leaf, Internal
  <2> HIDE DEF adopted, r
  <2>5. /\ mem'[at] = low /\ mem'[r] = high
        /\ \A p \in NodePages \ {at, r} : mem'[p] = adopted[p]
    BY <2>1, <2>3, <2>4, <1>2
  <2>6. \A p \in NodePages : \/ mem'[p].type = mem[p].type /\ mem'[p].cells = mem[p].cells
                             \/ mem'[p].type # "leaf" /\ mem[p].type # "leaf"
                             \/ mem'[p].type # "leaf" /\ mem[p].cells = <<>>
    BY <2>2, <2>3, <2>4, <2>5, <1>2
  <2> QED BY <2>6, <1>2, NextPages, RowsStay
<1>7. CASE SplitRootNode
  <2> DEFINE l == numPages
             r == numPages + 1
             leftNode == [low EXCEPT !.parent = at]
             rightNode == [high EXCEPT !.parent = at]
             rootNode == RootOver(mem[at], [key |-> Promoted(wide), left |-> l, right |-> r])
             adopted == Adopt(Adopt(mem, Kids(low), l), Kids(high), r)
  <2>1. /\ AtFullNode /\ r < MaxPages
        /\ mem' = [adopted EXCEPT ![l] = leftNode, ![r] = rightNode, ![at] = rootNode]
    BY <1>7 DEF SplitRootNode, Write
  <2>2. low \in Internal /\ high \in Internal
    <3>1. low \in InternalNode /\ high \in InternalNode
      BY <2>1, FullNodeFacts
    <3> HIDE DEF low, high
    <3> QED BY <3>1 DEF InternalNode
  <2> HIDE DEF low, high, wide
  <2>3. leftNode.type = "internal" /\ rightNode.type = "internal" /\ rootNode.type = "internal"
    BY <2>2, <1>2 DEF Internal, RootOver
  <2> HIDE DEF leftNode, rightNode, rootNode
  <2>4. /\ l \in NodePages /\ l # at /\ mem[l].cells = <<>>
        /\ r \in NodePages /\ r # at /\ mem[r].cells = <<>> /\ l # r
    <3>1. r \in NodePages /\ l \in NodePages /\ r >= numPages /\ l >= numPages /\ l # r
      <4>1. r < MaxPages /\ numPages \in Nat /\ numPages >= 2
        BY <2>1, PageValues
      <4>2. \A p \in Int : 1 <= p /\ p < MaxPages => p \in NodePages
        BY PageValues
      <4>3. r \in Int /\ l \in Int /\ 1 <= r /\ 1 <= l /\ l < MaxPages
        BY <4>1, CapacityAssumption
      <4> QED BY <4>1, <4>2, <4>3
    <3> HIDE DEF l, r
    <3> QED BY <3>1, <1>1, SparePages
  <2> HIDE DEF l, r
  <2>5. /\ DOMAIN adopted = NodePages
        /\ \A p \in NodePages : adopted[p].type = mem[p].type /\ adopted[p].cells = mem[p].cells
    <3> DEFINE once == Adopt(mem, Kids(low), l)
    <3>1. l \in PageNum /\ r \in PageNum
      BY <2>4 DEF NodePages
    <3>2. once \in [NodePages -> LeafNode \cup InternalNode] /\ SameRows(mem, once)
      BY <1>2, <3>1, AdoptRows
    <3> HIDE DEF once
    <3>3. /\ Adopt(once, Kids(high), r) \in [NodePages -> LeafNode \cup InternalNode]
          /\ SameRows(once, Adopt(once, Kids(high), r))
      BY <3>1, <3>2, AdoptRows
    <3>4. adopted = Adopt(once, Kids(high), r)
      BY DEF adopted, once
    <3> HIDE DEF adopted
    <3>5. adopted \in [NodePages -> LeafNode \cup InternalNode] /\ SameRows(once, adopted)
      BY <3>3, <3>4
    <3> QED BY <3>2, <3>5 DEF SameRows
  <2> HIDE DEF adopted
  <2>6. /\ mem'[at] = rootNode /\ mem'[l] = leftNode /\ mem'[r] = rightNode
        /\ \A p \in NodePages \ {at, l, r} : mem'[p] = adopted[p]
    BY <2>1, <2>4, <2>5, <1>2
  <2>7. \A p \in NodePages : \/ mem'[p].type = mem[p].type /\ mem'[p].cells = mem[p].cells
                             \/ mem'[p].type # "leaf" /\ mem[p].type # "leaf"
                             \/ mem'[p].type # "leaf" /\ mem[p].cells = <<>>
    BY <2>3, <2>4, <2>5, <2>6, <1>2
  <2> QED BY <2>7, <1>2, NextPages, RowsStay
<1> QED BY <1>3, <1>4, <1>5, <1>6, <1>7

\* A restart keeps the rows, for all that it loses are parent pointers.
LEMMA RestartRows ==
  ASSUME IInv, IInv', Restart
  PROVE  LeafCells(mem') = LeafCells(mem) /\ disk' = mem'
<1>1. mem' = Flushed /\ disk' = Flushed /\ result.code # "error"
  BY DEF Restart
<1>2. /\ mem \in [NodePages -> Leaf \cup Internal] /\ disk \in [NodePages -> Leaf \cup Internal]
      /\ mem \in [NodePages -> LeafNode \cup InternalNode]
      /\ disk \in [NodePages -> LeafNode \cup InternalNode]
      /\ MemInv
  BY <1>1, PageValues DEF IInv, TypeOK
<1>3. ASSUME NEW p \in NodePages
      PROVE  mem'[p].type = mem[p].type /\ mem'[p].cells = mem[p].cells
  <2>1. CASE p \in dirty
    BY <2>1, <1>1 DEF Flushed
  <2>2. CASE p \notin dirty
    <3>1. /\ mem'[p] = disk[p] /\ mem[p] \in LeafNode \cup InternalNode
          /\ disk[p] \in LeafNode \cup InternalNode
      BY <2>2, <1>1, <1>2 DEF Flushed
    <3>2. [mem[p] EXCEPT !.parent = 0] = [disk[p] EXCEPT !.parent = 0]
      BY <2>2, <1>2 DEF MemInv
    <3>3. disk[p].type = mem[p].type /\ disk[p].cells = mem[p].cells
      BY <3>1, <3>2, SameButParent
    <3> QED BY <3>1, <3>3
  <2> QED BY <2>1, <2>2
<1> QED BY <1>1, <1>2, <1>3, NextPages, RowsStay

\* DELETE removes no row but those that it selects, and UPDATE changes no other.
LEMMA DeleteRowRows ==
  ASSUME IInv, IInv', TreeInv, DeleteRow
  PROVE  LeafCells(mem') \ stmt.where = LeafCells(mem) \ stmt.where
<1>1. PICK i \in Matches(mem[at].cells) :
        Write([mem EXCEPT ![at].cells = RemoveAt(@, i)], {at}, numPages)
  BY DEF DeleteRow
<1> DEFINE old == mem[at].cells
           less == RemoveAt(old, i)
<1>2. pc = "walk" /\ mem' = [mem EXCEPT ![at].cells = less]
  BY <1>1 DEF DeleteRow, Write
<1>3. mem[at].type = "leaf" /\ i \in 1 .. Len(old) /\ old[i] \in stmt.where
  BY <1>1, <1>2, StepFacts DEF Matches
<1>4. PICK T, own, h : SearchTree(mem, numPages, T, own, h) /\ at \in T /\ Filled(mem[at], own, at)
  BY <1>2, <1>3, LeafOfTree
<1>5. /\ old \in Seq(LeafCell) /\ at \in NodePages /\ mem[at] \in Leaf
      /\ mem \in [NodePages -> Leaf \cup Internal] /\ Len(old) \in Nat
  <2>1. old \in Seq(LeafCell)
    BY <1>2, <1>3, LeafOfTree
  <2> QED BY <2>1, <1>2, <1>3, LeafOfTree, LenProperties
<1>6. /\ Len(less) = Len(old) - 1
      /\ \A j \in 1 .. Len(less) : less[j] = old[IF j < i THEN j ELSE j + 1]
  BY <1>3, <1>4, <1>5, RemoveAtCells DEF Filled
<1> HIDE DEF less
<1>7. /\ mem'[at].type = "leaf" /\ mem'[at].cells = less
      /\ \A p \in NodePages \ {at} : mem'[p] = mem[p]
  BY <1>2, <1>5 DEF Leaf
<1> HIDE DEF old
<1>8. ASSUME NEW c, c \notin stmt.where
      PROVE  (\E j \in 1 .. Len(less) : less[j] = c) <=> \E j \in 1 .. Len(old) : old[j] = c
  <2>1. ASSUME NEW j \in 1 .. Len(less), less[j] = c PROVE \E l \in 1 .. Len(old) : old[l] = c
    <3>1. PICK l \in 1 .. Len(old) : l = IF j < i THEN j ELSE j + 1
      BY <1>3, <1>5, <1>6
    <3> QED BY <3>1, <2>1, <1>6
  <2>2. ASSUME NEW j \in 1 .. Len(old), old[j] = c PROVE \E l \in 1 .. Len(less) : less[l] = c
    <3>1. j # i
      BY <2>2, <1>3, <1>8
    <3>2. CASE j < i
      <4>1. j \in 1 .. Len(less)
        BY <3>2, <1>3, <1>5, <1>6
      <4>2. less[j] = c
        BY <4>1, <3>2, <2>2, <1>6
      <4> QED BY <4>1, <4>2
    <3>3. CASE j > i
      <4>1. j - 1 \in 1 .. Len(less) /\ ~ (j - 1 < i) /\ (j - 1) + 1 = j
        BY <3>3, <1>3, <1>5, <1>6
      <4>2. less[j - 1] = c
        BY <4>1, <2>2, <1>6
      <4> QED BY <4>1, <4>2
    <3> QED BY <3>1, <3>2, <3>3, <1>3, <1>5
  <2> QED BY <2>1, <2>2
<1>9. ASSUME NEW c, c \notin stmt.where, NEW p \in NodePages
      PROVE  Holds(mem', p, c) <=> Holds(mem, p, c)
  <2>1. CASE p = at
    BY <2>1, <1>3, <1>7, <1>8, <1>9 DEF Holds, old
  <2>2. CASE p # at
    BY <2>2, <1>7 DEF Holds
  <2> QED BY <2>1, <2>2
<1>10. \A c : c \notin stmt.where => (c \in LeafCells(mem') <=> c \in LeafCells(mem))
  BY <1>5, <1>9, NextPages, RowsOfPages
<1> QED BY <1>10

Rewritten(c) == IF c \in stmt.where THEN [c EXCEPT !.row = stmt.row] ELSE c

LEMMA RewrittenOnce ==
  ASSUME NEW c \in LeafCell, stmt.row \in Rows
  PROVE  /\ Rewritten(Rewritten(c)) = Rewritten(c)
         /\ Rewritten(c) \in stmt.where => Rewritten(c).row = stmt.row
<1>1. CASE c \in stmt.where
  <2>1. Rewritten(c) = [c EXCEPT !.row = stmt.row]
    BY <1>1 DEF Rewritten
  <2>2. Rewritten(c) \in LeafCell /\ Rewritten(c).row = stmt.row
    BY <2>1 DEF LeafCell
  <2>3. [Rewritten(c) EXCEPT !.row = stmt.row] = Rewritten(c)
    BY <2>1, <2>2 DEF LeafCell
  <2> QED BY <2>2, <2>3 DEF Rewritten
<1>2. CASE c \notin stmt.where
  BY <1>2 DEF Rewritten
<1> QED BY <1>1, <1>2

LEMMA UpdatedIs == \A S : Updated(S, stmt.where, stmt.row) = {Rewritten(c) : c \in S}
BY DEF Updated, Rewritten

\* The leaf that UPDATE has passed.
LEMMA UpdatedLeaf ==
  ASSUME IInv, TreeInv, UpdateLeaf
  PROVE  /\ pc = "walk" /\ stmt.op = "update" /\ stmt.row \in Rows /\ NextLeaf
         /\ mem[at].type = "leaf" /\ at \in NodePages /\ mem[at].cells \in Seq(LeafCell)
         /\ mem'[at].type = "leaf" /\ Len(mem'[at].cells) = Len(mem[at].cells)
         /\ \A i \in 1 .. Len(mem[at].cells) : mem'[at].cells[i] = Rewritten(mem[at].cells[i])
         /\ \A p \in NodePages \ {at} : mem'[p] = mem[p]
<1> DEFINE old == mem[at].cells
           hits == Matches(old)
           cells == [i \in 1 .. Len(old) |->
                       IF i \in hits THEN [old[i] EXCEPT !.row = stmt.row] ELSE old[i]]
<1>1. /\ pc = "walk" /\ stmt.op = "update" /\ NextLeaf
      /\ mem' = [mem EXCEPT ![at].cells = cells]
  BY DEF UpdateLeaf, Write
<1>2. /\ mem[at].type = "leaf" /\ stmt.row \in Rows
  BY <1>1, StepFacts, StatementFields DEF ControlOK
<1>3. /\ old \in Seq(LeafCell) /\ at \in NodePages /\ mem[at] \in Leaf
      /\ mem \in [NodePages -> Leaf \cup Internal]
  BY <1>1, <1>2, LeafOfTree
<1>4. Len(old) \in Nat
  BY <1>3, LenProperties
<1>5. \A i \in 1 .. Len(old) : cells[i] = Rewritten(old[i])
  BY DEF Matches, Rewritten
<1>6. Len(cells) = Len(old)
  <2> HIDE DEF old, hits
  <2> QED BY <1>4
<1> HIDE DEF cells
<1>7. /\ mem'[at].type = "leaf" /\ mem'[at].cells = cells
      /\ \A p \in NodePages \ {at} : mem'[p] = mem[p]
  BY <1>1, <1>3 DEF Leaf
<1> QED BY <1>1, <1>2, <1>3, <1>5, <1>6, <1>7

LEMMA UpdateLeafRows ==
  ASSUME IInv, IInv', TreeInv, UpdateLeaf
  PROVE  {Rewritten(c) : c \in LeafCells(mem')} = {Rewritten(c) : c \in LeafCells(mem)}
<1>1. /\ stmt.row \in Rows /\ mem[at].type = "leaf" /\ at \in NodePages
      /\ mem[at].cells \in Seq(LeafCell)
      /\ mem'[at].type = "leaf" /\ Len(mem'[at].cells) = Len(mem[at].cells)
      /\ \A i \in 1 .. Len(mem[at].cells) : mem'[at].cells[i] = Rewritten(mem[at].cells[i])
      /\ \A p \in NodePages \ {at} : mem'[p] = mem[p]
  BY UpdatedLeaf
<1>2. \A i \in 1 .. Len(mem[at].cells) : mem[at].cells[i] \in LeafCell
  BY <1>1, ElementOfSeq
<1>3. \A i \in 1 .. Len(mem[at].cells) : Rewritten(mem'[at].cells[i]) = Rewritten(mem[at].cells[i])
  BY <1>1, <1>2, RewrittenOnce
<1>4. ASSUME NEW c \in LeafCells(mem')
      PROVE  \E d \in LeafCells(mem) : Rewritten(c) = Rewritten(d)
  <2>1. PICK p \in NodePages : Holds(mem', p, c)
    BY NextPages, RowsOfPages
  <2>2. CASE p = at
    <3>1. PICK i \in 1 .. Len(mem[at].cells) : mem'[at].cells[i] = c
      BY <2>1, <2>2, <1>1 DEF Holds
    <3>2. mem[at].cells[i] \in LeafCells(mem)
      BY <1>1, PageValues, RowsOfPages DEF Holds
    <3> QED BY <3>1, <3>2, <1>3
  <2>3. CASE p # at
    <3>1. Holds(mem, p, c)
      BY <2>1, <2>3, <1>1 DEF Holds
    <3> QED BY <3>1, PageValues, RowsOfPages
  <2> QED BY <2>2, <2>3
<1>5. ASSUME NEW c \in LeafCells(mem)
      PROVE  \E d \in LeafCells(mem') : Rewritten(c) = Rewritten(d)
  <2>1. PICK p \in NodePages : Holds(mem, p, c)
    BY PageValues, RowsOfPages
  <2>2. CASE p = at
    <3>1. PICK i \in 1 .. Len(mem[at].cells) : mem[at].cells[i] = c
      BY <2>1, <2>2 DEF Holds
    <3>2. Holds(mem', at, mem'[at].cells[i])
      BY <1>1 DEF Holds
    <3>3. mem'[at].cells[i] \in LeafCells(mem')
      BY <3>2, <1>1, NextPages, RowsOfPages
    <3> QED BY <3>1, <3>3, <1>3
  <2>3. CASE p # at
    <3>1. Holds(mem', p, c)
      BY <2>1, <2>3, <1>1 DEF Holds
    <3> QED BY <3>1, NextPages, RowsOfPages
  <2> QED BY <2>2, <2>3
<1> QED BY <1>4, <1>5

\* When the last leaf is done, all rows are.
LEMMA WalkIsDone ==
  ASSUME IInv, NEW T, NEW own, NEW h, SearchTree(mem, numPages, T, own, h), at \in T,
         pc = "walk", Placed(T, own), mem[at].link = 0,
         NEW m \in [NodePages -> Leaf \cup Internal],
         \A q \in NodePages \ {at} : m[q] = mem[q], m[at].type = "leaf", Done(m[at].cells)
  PROVE  \A c \in LeafCells(m) : c \in stmt.where => stmt.op = "update" /\ c.row = stmt.row
<1> SUFFICES ASSUME NEW c \in LeafCells(m), c \in stmt.where
             PROVE  stmt.op = "update" /\ c.row = stmt.row
  OBVIOUS
<1>1. PICK p \in NodePages : Holds(m, p, c)
  BY RowsOfPages
<1>2. mem[at].type = "leaf"
  BY StepFacts
<1>3. Done(m[p].cells)
  <2>1. CASE p = at
    BY <2>1
  <2>2. CASE p # at
    <3>1. Holds(mem, p, c) /\ m[p] = mem[p]
      BY <2>2, <1>1 DEF Holds
    <3>2. p \in T /\ mem[p].type = "leaf"
      BY <3>1, RowsAreOwned DEF Holds
    <3>3. Before(own, p, at)
      BY <3>2, <2>2, <1>2, LastLeafLast
    <3> QED BY <3>1, <3>2, <3>3 DEF Placed
  <2> QED BY <2>1, <2>2
<1> QED BY <1>1, <1>3 DEF Holds, Done

-----------------------------------------------------------------------------
\* Between two statements, lookups find every row there is.
RowsKnown == Settled => Found = LeafCells(mem)

LEMMA AllRowsAreFound == ASSUME IInv, TreeInv PROVE RowsKnown
<1> SUFFICES ASSUME Settled PROVE Found = LeafCells(mem)
  BY DEF RowsKnown
<1>1. PICK T, own, h : SearchTree(mem, numPages, T, own, h)
  BY SettledTree
<1>2. mem \in [NodePages -> Leaf \cup Internal]
  BY SettledTree
<1>3. ASSUME NEW c \in LeafCells(mem) PROVE c \in Range(mem[LeafFor(c.key)].cells)
  <2>1. PICK p \in NodePages : Holds(mem, p, c)
    BY <1>2, <1>3, RowsOfPages
  <2>2. PICK i \in 1 .. Len(mem[p].cells) : mem[p].cells[i] = c
    BY <2>1 DEF Holds
  <2>3. p \in InUse /\ mem[p].type = "leaf"
    <3>1. p \in T /\ mem[p].type = "leaf"
      BY <1>1, <2>1, RowsAreOwned DEF Holds
    <3>2. T \subseteq InUse
      BY <1>1 DEF SearchTree, Typed, InUse
    <3> QED BY <3>1, <3>2
  <2>4. LeafFor(c.key) = p
    BY <2>2, <2>3, RowsAreFound DEF EveryRowIsFound
  <2>5. i \in DOMAIN mem[p].cells
    <3>1. mem[p].cells \in Seq(LeafCell)
      BY <1>2, <2>3, PageTypes DEF Leaf
    <3> QED BY <3>1, LenProperties
  <2> QED BY <2>2, <2>4, <2>5 DEF Range
<1> QED BY <1>3 DEF Found

\* What the table has at each place of a statement.
LEMMA StoredIs ==
  /\ pc = "idle" => Stored = Found
  /\ pc \notin {"idle", "separator", "walk"} => Stored = LeafCells(mem)
  /\ pc = "separator" => Stored = LeafCells(mem) \ {TheRow}
  /\ pc = "walk" /\ stmt.op = "delete" => Stored = LeafCells(mem) \ stmt.where
  /\ pc = "walk" /\ stmt.op = "update" => Stored = {Rewritten(c) : c \in LeafCells(mem)}
<1>0. pc = "idle" => Stored = Found
  BY DEF Stored
<1>1. pc \notin {"idle", "separator", "walk"} => Stored = LeafCells(mem)
  BY DEF Stored
<1>2. pc = "separator" => Stored = LeafCells(mem) \ {TheRow}
  BY DEF Stored, TheRow
<1>3. pc = "walk" /\ stmt.op = "delete" => Stored = LeafCells(mem) \ stmt.where
  BY DEF Stored
<1>4. pc = "walk" /\ stmt.op = "update" => Stored = {Rewritten(c) : c \in LeafCells(mem)}
  <2>1. pc = "walk" /\ stmt.op = "update" =>
          Stored = Updated(LeafCells(mem), stmt.where, stmt.row)
    BY DEF Stored
  <2> QED BY <2>1, UpdatedIs
<1> QED BY <1>0, <1>1, <1>2, <1>3, <1>4

LEMMA StoredNext ==
  /\ pc' = "idle" => Stored' = Found'
  /\ pc' \notin {"idle", "separator", "walk"} => Stored' = LeafCells(mem')
  /\ pc' = "separator" => Stored' = LeafCells(mem') \ {TheRow'}
  /\ pc' = "walk" /\ stmt'.op = "delete" => Stored' = LeafCells(mem') \ stmt'.where
  /\ pc' = "walk" /\ stmt'.op = "update" =>
       Stored' = {IF c \in stmt'.where THEN [c EXCEPT !.row = stmt'.row] ELSE c :
                    c \in LeafCells(mem')}
<1>0. pc' = "idle" => Stored' = Found'
  BY DEF Stored
<1>1. pc' \notin {"idle", "separator", "walk"} => Stored' = LeafCells(mem')
  BY DEF Stored
<1>2. pc' = "separator" => Stored' = LeafCells(mem') \ {TheRow'}
  BY DEF Stored, TheRow
<1>3. pc' = "walk" /\ stmt'.op = "delete" => Stored' = LeafCells(mem') \ stmt'.where
  BY DEF Stored
<1>4. pc' = "walk" /\ stmt'.op = "update" =>
       Stored' = {IF c \in stmt'.where THEN [c EXCEPT !.row = stmt'.row] ELSE c :
                    c \in LeafCells(mem')}
  BY DEF Stored, Updated
<1> QED BY <1>0, <1>1, <1>2, <1>3, <1>4

\* A statement is at work but at the prompt, and the row of an INSERT is in its leaf when
\* a separator goes up.
TableInv ==
  /\ pc = "idle" <=> stmt = NoStmt
  /\ pc = "separator" => TheRow \in LeafCells(mem)

LEMMA InitTable == Init => TableInv
BY DEF Init, TableInv

LEMMA BeginTable ==
  ASSUME TableInv, RowsKnown, NEW s \in Statements, NEW step \in {"descend", "first_leaf"},
         Begin(s, step)
  PROVE  TableInv' /\ Table!Next
<1>1. /\ pc = "idle" /\ stmt = NoStmt /\ stmt' = s /\ pc' = step
      /\ result' = Reply("none", {}) /\ mem' = mem /\ disk' = disk
  BY DEF Begin, TableInv, pager
<1>2. s.op \in {"insert", "select", "delete", "update"}
  BY DEF Statements
<1>3. s # NoStmt
  BY <1>2 DEF NoStmt
<1>4. TableInv'
  BY <1>1, <1>3 DEF TableInv
<1>5. Stored' = Stored
  <2>1. Found = LeafCells(mem)
    BY <1>1 DEF Begin, RowsKnown, Settled
  <2> QED BY <2>1, <1>1, StoredIs, StoredNext
<1>6. s \in Table!Statements
  BY DEF Statements, Wheres, LeafCell, Table!Statements, Table!Wheres, Table!Cell
<1>7. Table!Begin
  BY <1>1, <1>5, <1>6 DEF Table!Begin, Table!NoStmt, NoStmt, Table!Reply, Reply
<1> QED BY <1>4, <1>7 DEF Table!Next

LEMMA BeginsTable ==
  ASSUME TableInv, RowsKnown, BeginInsert \/ BeginSelect \/ BeginDelete \/ BeginUpdate
  PROVE  TableInv' /\ Table!Next
<1>1. CASE BeginInsert
  <2>1. PICK k \in Keys, r \in Rows : Begin([op |-> "insert", key |-> k, row |-> r], "descend")
    BY <1>1 DEF BeginInsert
  <2>2. [op |-> "insert", key |-> k, row |-> r] \in Statements
    BY DEF Statements
  <2> QED BY <2>1, <2>2, BeginTable
<1>2. CASE BeginSelect
  <2>1. PICK k \in Keys : Begin([op |-> "select", key |-> k], "descend")
    BY <1>2 DEF BeginSelect
  <2>2. [op |-> "select", key |-> k] \in Statements
    BY DEF Statements
  <2> QED BY <2>1, <2>2, BeginTable
<1>3. CASE BeginDelete
  <2>1. PICK w \in Wheres : Begin([op |-> "delete", where |-> w], "first_leaf")
    BY <1>3 DEF BeginDelete
  <2>2. [op |-> "delete", where |-> w] \in Statements
    BY DEF Statements
  <2> QED BY <2>1, <2>2, BeginTable
<1>4. CASE BeginUpdate
  <2>1. PICK w \in Wheres, r \in Rows :
          Begin([op |-> "update", where |-> w, row |-> r], "first_leaf")
    BY <1>4 DEF BeginUpdate
  <2>2. [op |-> "update", where |-> w, row |-> r] \in Statements
    BY DEF Statements
  <2> QED BY <2>1, <2>2, BeginTable
<1> QED BY <1>1, <1>2, <1>3, <1>4

\* A statement that ends is at work no more.
LEMMA FinishTable ==
  ASSUME RowsKnown', NEW code, NEW rows, Finish(code, rows)
  PROVE  /\ TableInv' /\ pc' = "idle" /\ stmt' = NoStmt /\ result' = Reply(code, rows)
         /\ Stored' \subseteq LeafCells(mem')
         /\ code # "error" => Stored' = LeafCells(mem')
<1>1. pc' = "idle" /\ stmt' = NoStmt /\ result' = Reply(code, rows)
  BY DEF Finish
<1>2. Stored' = Found' /\ Found' \subseteq LeafCells(mem')
  BY <1>1, StoredNext DEF Found
<1>3. code # "error" => Found' = LeafCells(mem')
  BY <1>1 DEF RowsKnown, Settled, Reply
<1> QED BY <1>1, <1>2, <1>3 DEF TableInv

LEMMA LookupTable ==
  ASSUME IInv, TreeInv, TableInv, RowsKnown', Lookup PROVE TableInv' /\ Table!Next
<1> DEFINE cells == mem[at].cells
           found == {cells[i].row : i \in {j \in 1 .. Len(cells) : cells[j].key = stmt.key}}
<1>1. /\ pc = "descend" /\ stmt.op = "select" /\ mem[at].type = "leaf"
      /\ Finish("success", found) /\ mem' = mem /\ disk' = disk
  BY DEF Lookup, pager
<1>2. \A c : c \in LeafCells(mem) /\ c.key = stmt.key <=>
             \E i \in 1 .. Len(cells) : cells[i] = c /\ c.key = stmt.key
  BY <1>1, LeafHasKey
<1> HIDE DEF cells
<1>3. found = {c.row : c \in {d \in LeafCells(mem) : d.key = stmt.key}}
  BY <1>2
<1> HIDE DEF found
<1>4. Stored = LeafCells(mem) /\ Stored' = LeafCells(mem)
  BY <1>1, StoredIs, FinishTable
<1>5. TableInv' /\ pc' = "idle" /\ stmt' = NoStmt /\ result' = Reply("success", found)
  BY <1>1, FinishTable
<1>6. Table!Select
  BY <1>1, <1>3, <1>4, <1>5
     DEF Table!Select, Table!Finish, Table!NoStmt, NoStmt, Table!Reply, Reply
<1> QED BY <1>5, <1>6 DEF Table!Next

LEMMA DuplicateTable ==
  ASSUME IInv, TreeInv, TableInv, RowsKnown', Duplicate PROVE TableInv' /\ Table!Next
<1>1. /\ pc = "descend" /\ stmt.op = "insert" /\ mem[at].type = "leaf"
      /\ HasKey(mem[at].cells, stmt.key)
      /\ Finish("duplicate", {}) /\ mem' = mem /\ disk' = disk
  BY DEF Duplicate, AtInsertLeaf, pager
<1>2. \E c \in LeafCells(mem) : c.key = stmt.key
  BY <1>1, LeafHasKey DEF HasKey
<1>3. Stored = LeafCells(mem) /\ Stored' = LeafCells(mem)
  BY <1>1, StoredIs, FinishTable
<1>4. TableInv' /\ pc' = "idle" /\ stmt' = NoStmt /\ result' = Reply("duplicate", {})
  BY <1>1, FinishTable
<1>5. Table!InsertDuplicate
  BY <1>1, <1>2, <1>3, <1>4
     DEF Table!InsertDuplicate, Table!Present, Table!Finish, Table!NoStmt, NoStmt,
         Table!Reply, Reply
<1> QED BY <1>4, <1>5 DEF Table!Next

\* An INSERT that ends well, and one that runs out of pages.
LEMMA InsertTable ==
  ASSUME pc \in {"descend", "separator"}, stmt.op = "insert", disk' = disk, RowsKnown',
         \A c \in Stored : c.key # stmt.key,
         \/ Finish("success", {}) /\ LeafCells(mem') = Stored \cup {TheRow}
         \/ Finish("error", {}) /\ LeafCells(mem') \in {Stored, Stored \cup {TheRow}}
  PROVE  TableInv' /\ Table!Next
<1>1. CASE Finish("success", {}) /\ LeafCells(mem') = Stored \cup {TheRow}
  <2>1. /\ TableInv' /\ pc' = "idle" /\ stmt' = NoStmt /\ result' = Reply("success", {})
        /\ Stored' = Stored \cup {[key |-> stmt.key, row |-> stmt.row]}
    BY <1>1, FinishTable DEF TheRow
  <2>2. Table!Insert
    BY <2>1 DEF Table!Insert, Table!Present, Table!Finish, Table!NoStmt, NoStmt,
                Table!Reply, Reply
  <2> QED BY <2>1, <2>2 DEF Table!Next
<1>2. CASE Finish("error", {}) /\ LeafCells(mem') \in {Stored, Stored \cup {TheRow}}
  <2>1. /\ TableInv' /\ pc' = "idle" /\ stmt' = NoStmt /\ result' = Reply("error", {})
        /\ Stored' \subseteq Stored \cup {[key |-> stmt.key, row |-> stmt.row]}
    BY <1>2, FinishTable DEF TheRow
  <2>2. Table!InsertError
    BY <2>1 DEF Table!InsertError, Table!Present, Table!Finish, Table!NoStmt, NoStmt,
                Table!Reply, Reply
  <2> QED BY <2>1, <2>2 DEF Table!Next
<1> QED BY <1>1, <1>2

LEMMA LeafInsertsTable ==
  ASSUME IInv, IInv', TreeInv, TableInv, RowsKnown',
         InsertIntoLeaf \/ SplitRootLeaf \/ SplitRootLeafHalfway \/ NoPageForLeaf
  PROVE  TableInv' /\ Table!Next
<1>1. AtInsertLeaf /\ ~ HasKey(mem[at].cells, stmt.key)
  BY DEF InsertIntoLeaf, SplitRootLeaf, SplitRootLeafHalfway, NoPageForLeaf, AtFullLeaf
<1>2. pc = "descend" /\ stmt.op = "insert"
  BY <1>1 DEF AtInsertLeaf
<1>3. \A c \in LeafCells(mem) : c.key # stmt.key
  BY <1>1, WiderLeaf
<1>4. Stored = LeafCells(mem)
  BY <1>2, StoredIs
<1>5. disk' = disk
  BY DEF InsertIntoLeaf, SplitRootLeaf, SplitRootLeafHalfway, NoPageForLeaf, Write, pager
<1>6. CASE InsertIntoLeaf
  <2>1. Finish("success", {}) /\ LeafCells(mem') = LeafCells(mem) \cup {TheRow}
    BY <1>6, InsertIntoLeafRows DEF InsertIntoLeaf
  <2> QED BY <2>1, <1>2, <1>3, <1>4, <1>5, InsertTable
<1>7. CASE SplitRootLeaf
  <2>1. Finish("success", {}) /\ LeafCells(mem') = LeafCells(mem) \cup {TheRow}
    BY <1>7, SplitRootLeafRows DEF SplitRootLeaf
  <2> QED BY <2>1, <1>2, <1>3, <1>4, <1>5, InsertTable
<1>8. CASE SplitRootLeafHalfway
  <2>1. Finish("error", {}) /\ LeafCells(mem') \in {LeafCells(mem), LeafCells(mem) \cup {TheRow}}
    BY <1>8, HalfwayRows DEF SplitRootLeafHalfway
  <2> QED BY <2>1, <1>2, <1>3, <1>4, <1>5, InsertTable
<1>9. CASE NoPageForLeaf
  <2>1. Finish("error", {}) /\ mem' = mem
    BY <1>9 DEF NoPageForLeaf, pager
  <2> QED BY <2>1, <1>2, <1>3, <1>4, <1>5, InsertTable
<1> QED BY <1>6, <1>7, <1>8, <1>9

\* A leaf is split: the row is in it, and the INSERT not yet at its end.
LEMMA SplitLeafTable ==
  ASSUME IInv, IInv', TreeInv, TableInv, SplitLeaf
  PROVE  TableInv' /\ UNCHANGED Table!vars
<1>1. /\ AtInsertLeaf /\ ~ HasKey(mem[at].cells, stmt.key)
      /\ pc' = "separator" /\ stmt' = stmt /\ result' = result /\ disk' = disk
  BY DEF SplitLeaf, AtFullLeaf, Write
<1>2. pc = "descend"
  BY <1>1 DEF AtInsertLeaf
<1>3. LeafCells(mem') = LeafCells(mem) \cup {TheRow} /\ TheRow \notin LeafCells(mem)
  BY <1>1, SplitLeafRows, WiderLeaf
<1>4. TheRow' = TheRow
  BY <1>1 DEF TheRow
<1>5. Stored' = Stored
  BY <1>1, <1>2, <1>3, <1>4, StoredIs, StoredNext
<1>6. TableInv'
  <2>1. stmt # NoStmt
    BY <1>2 DEF TableInv
  <2> QED BY <2>1, <1>1, <1>3, <1>4 DEF TableInv
<1> QED BY <1>1, <1>2, <1>5, <1>6 DEF Table!vars

\* While a separator goes up, only the row of the INSERT has its key.
LEMMA TheOnlyRow ==
  ASSUME IInv, TreeInv, TableInv, pc = "separator"
  PROVE  /\ \A c \in Stored : c.key # stmt.key
         /\ Stored \cup {TheRow} = LeafCells(mem) /\ stmt.op = "insert"
<1>1. PICK T, own, h : SearchTree(View, numPages, T, own, h)
  BY RunningTree DEF TreeAt
<1>2. /\ mem \in [NodePages -> Leaf \cup Internal]
      /\ at \in NodePages /\ mem[at].type = "internal" /\ stmt.op = "insert"
  BY StepFacts, ViewPages DEF StepInv
<1>3. WithSeparator(mem[at], sep).type = "internal"
  <2>1. WithSeparator(mem[at], sep) \in Internal
    BY SeparatorFacts
  <2> QED BY <2>1 DEF Internal
<1>4. View = [mem EXCEPT ![at] = WithSeparator(mem[at], sep)]
  BY DEF View
<1>5. \A p \in NodePages : \A c : Holds(mem, p, c) => Holds(View, p, c)
  BY <1>2, <1>3, <1>4 DEF Holds
<1>6. Stored = LeafCells(mem) \ {TheRow} /\ TheRow \in LeafCells(mem)
  BY StoredIs DEF TableInv
<1>7. TheRow.key = stmt.key
  BY DEF TheRow
<1>8. ASSUME NEW c \in LeafCells(mem), c.key = stmt.key PROVE c = TheRow
  <2>1. PICK p \in NodePages : Holds(mem, p, c)
    BY <1>2, RowsOfPages
  <2>2. PICK q \in NodePages : Holds(mem, q, TheRow)
    BY <1>2, <1>6, RowsOfPages
  <2>3. Holds(View, p, c) /\ Holds(View, q, TheRow)
    BY <1>5, <2>1, <2>2
  <2>4. \A c1, d1 : \A p1, q1 \in NodePages :
          Holds(View, p1, c1) /\ Holds(View, q1, d1) /\ c1.key = d1.key => c1 = d1
    BY <1>1, RowsOnce
  <2> QED BY <2>3, <2>4, <1>7, <1>8
<1> QED BY <1>2, <1>6, <1>8

LEMMA SeparatorsTable ==
  ASSUME IInv, IInv', TreeInv, TableInv, RowsKnown',
         InsertSeparator \/ SplitRootNode \/ NoPagesForRootNode \/ NoPageForNode
  PROVE  TableInv' /\ Table!Next
<1>1. pc = "separator" /\ disk' = disk
  BY DEF InsertSeparator, SplitRootNode, NoPagesForRootNode, NoPageForNode, AtFullNode, Write
<1>2. Finish("success", {}) \/ Finish("error", {})
  BY DEF InsertSeparator, SplitRootNode, NoPagesForRootNode, NoPageForNode
<1>3. LeafCells(mem') = LeafCells(mem)
  BY SeparatorRows
<1>4. /\ \A c \in Stored : c.key # stmt.key
      /\ Stored \cup {TheRow} = LeafCells(mem) /\ stmt.op = "insert"
  BY <1>1, TheOnlyRow
<1> QED BY <1>1, <1>2, <1>3, <1>4, InsertTable

LEMMA SplitNodeTable ==
  ASSUME IInv, IInv', TreeInv, TableInv, SplitNode
  PROVE  TableInv' /\ UNCHANGED Table!vars
<1>1. /\ pc = "separator" /\ pc' = pc /\ stmt' = stmt /\ result' = result /\ disk' = disk
  BY DEF SplitNode, AtFullNode, Write
<1>2. LeafCells(mem') = LeafCells(mem)
  BY SeparatorRows
<1>3. TheRow' = TheRow
  BY <1>1 DEF TheRow
<1>4. Stored' = Stored
  BY <1>1, <1>2, <1>3, StoredIs, StoredNext
<1>5. TableInv'
  BY <1>1, <1>2, <1>3 DEF TableInv
<1> QED BY <1>1, <1>4, <1>5 DEF Table!vars

-----------------------------------------------------------------------------
\* DELETE and UPDATE take effect on the table where their walk starts.
LEMMA StartTable ==
  ASSUME IInv, TableInv, ToFirstLeaf, mem[at].type # "internal"
  PROVE  TableInv' /\ Table!Next
<1>1. /\ pc = "first_leaf" /\ pc' = "walk" /\ mem' = mem /\ disk' = disk
      /\ stmt' = stmt /\ result' = result
  BY DEF ToFirstLeaf, pager
<1>2. stmt.op \in {"delete", "update"}
  BY <1>1 DEF IInv, StepInv
<1>3. TableInv'
  BY <1>1 DEF TableInv
<1>4. Stored = LeafCells(mem)
  BY <1>1, StoredIs
<1>5. CASE stmt.op = "delete"
  <2>1. Stored' = Stored \ stmt.where
    BY <1>1, <1>4, <1>5, StoredNext
  <2>2. Table!Delete
    BY <2>1, <1>1, <1>5
       DEF Table!Delete, Table!Finish, Table!NoStmt, NoStmt, Table!Reply, Reply
  <2> QED BY <2>2, <1>3 DEF Table!Next
<1>6. CASE stmt.op = "update"
  <2>1. Stored' = Table!Updated(Stored, stmt.where, stmt.row)
    BY <1>1, <1>4, <1>6, StoredNext DEF Table!Updated
  <2>2. Table!Update
    BY <2>1, <1>1, <1>6
       DEF Table!Update, Table!Finish, Table!NoStmt, NoStmt, Table!Reply, Reply
  <2> QED BY <2>2, <1>3 DEF Table!Next
<1> QED BY <1>2, <1>5, <1>6

\* On the way down a tree nothing happens to the table.
LEMMA DownTable ==
  ASSUME TableInv, Descend \/ (ToFirstLeaf /\ mem[at].type = "internal")
  PROVE  TableInv' /\ UNCHANGED Table!vars
<1>1. /\ pc \in {"descend", "first_leaf"} /\ pc' = pc /\ mem' = mem /\ disk' = disk
      /\ stmt' = stmt /\ result' = result
  BY DEF Descend, ToFirstLeaf, pager
<1>2. TableInv'
  BY <1>1 DEF TableInv
<1>3. Stored' = Stored
  BY <1>1, StoredIs, StoredNext
<1> QED BY <1>1, <1>2, <1>3 DEF Table!vars

LEMMA DeleteRowTable ==
  ASSUME IInv, IInv', TreeInv, TableInv, DeleteRow
  PROVE  TableInv' /\ UNCHANGED Table!vars
<1>1. /\ pc = "walk" /\ stmt.op = "delete" /\ pc' = pc /\ stmt' = stmt /\ result' = result
      /\ disk' = disk
  BY DEF DeleteRow, Write, control
<1>2. Stored' = Stored
  BY <1>1, DeleteRowRows, StoredIs, StoredNext
<1>3. TableInv'
  BY <1>1 DEF TableInv
<1> QED BY <1>1, <1>2, <1>3 DEF Table!vars

\* A walk goes on to the next leaf, or ends: either way the table has long changed.
LEMMA NextLeafTable ==
  ASSUME TableInv, RowsKnown', pc = "walk", NextLeaf, disk' = disk,
         mem[at].link # 0 => (pc' = "walk" /\ stmt' = stmt => Stored' = Stored),
         mem[at].link = 0 => LeafCells(mem') = Stored
  PROVE  TableInv' /\ UNCHANGED Table!vars
<1>1. CASE mem[at].link # 0
  <2>1. pc' = pc /\ stmt' = stmt /\ result' = result
    BY <1>1 DEF NextLeaf
  <2>2. TableInv'
    BY <2>1 DEF TableInv
  <2> QED BY <1>1, <2>1, <2>2 DEF Table!vars
<1>2. CASE mem[at].link = 0
  <2>1. Finish("success", {})
    BY <1>2 DEF NextLeaf
  <2>2. /\ TableInv' /\ pc' = "idle" /\ stmt' = NoStmt /\ result' = Reply("success", {})
        /\ Stored' = Stored
    BY <2>1, <1>2, FinishTable
  <2> QED BY <2>2 DEF Table!vars
<1> QED BY <1>1, <1>2

LEMMA DeleteNextTable ==
  ASSUME IInv, TreeInv, TableInv, RowsKnown', DeleteNext
  PROVE  TableInv' /\ UNCHANGED Table!vars
<1>1. /\ pc = "walk" /\ stmt.op = "delete" /\ NextLeaf /\ mem' = mem /\ disk' = disk
      /\ Matches(mem[at].cells) = {}
  BY DEF DeleteNext, pager
<1>2. ASSUME pc' = "walk", stmt' = stmt PROVE Stored' = Stored
  BY <1>1, <1>2, StoredIs, StoredNext
<1>3. ASSUME mem[at].link = 0 PROVE LeafCells(mem') = Stored
  <2>1. mem[at].type = "leaf"
    BY <1>1, StepFacts
  <2>2. PICK T, own, h : SearchTree(mem, numPages, T, own, h) /\ Placed(T, own) /\ at \in T
    BY <1>1, <2>1, LeafOfTree
  <2>3. Done(mem[at].cells)
    BY <1>1 DEF Done, Matches
  <2>4. mem \in [NodePages -> Leaf \cup Internal]
    BY PageValues
  <2>5. \A c \in LeafCells(mem) : c \in stmt.where => stmt.op = "update" /\ c.row = stmt.row
    BY <1>1, <1>3, <2>1, <2>2, <2>3, <2>4, WalkIsDone
  <2>6. LeafCells(mem) \ stmt.where = LeafCells(mem)
    BY <1>1, <2>5
  <2> QED BY <1>1, <2>6, StoredIs
<1> QED BY <1>1, <1>2, <1>3, NextLeafTable

LEMMA UpdateLeafTable ==
  ASSUME IInv, IInv', TreeInv, TableInv, RowsKnown', UpdateLeaf
  PROVE  TableInv' /\ UNCHANGED Table!vars
<1>1. /\ pc = "walk" /\ stmt.op = "update" /\ stmt.row \in Rows /\ NextLeaf
      /\ mem[at].type = "leaf" /\ at \in NodePages /\ mem[at].cells \in Seq(LeafCell)
      /\ mem'[at].type = "leaf" /\ Len(mem'[at].cells) = Len(mem[at].cells)
      /\ \A i \in 1 .. Len(mem[at].cells) : mem'[at].cells[i] = Rewritten(mem[at].cells[i])
      /\ \A p \in NodePages \ {at} : mem'[p] = mem[p]
  BY UpdatedLeaf
<1>2. disk' = disk
  BY DEF UpdateLeaf, Write
<1>3. {Rewritten(c) : c \in LeafCells(mem')} = {Rewritten(c) : c \in LeafCells(mem)}
  BY UpdateLeafRows
<1>4. ASSUME pc' = "walk", stmt' = stmt PROVE Stored' = Stored
  <2>1. Stored' = {IF c \in stmt.where THEN [c EXCEPT !.row = stmt.row] ELSE c :
                     c \in LeafCells(mem')}
    BY <1>1, <1>4, StoredNext
  <2>2. Stored' = {Rewritten(c) : c \in LeafCells(mem')}
    BY <2>1 DEF Rewritten
  <2> QED BY <2>2, <1>1, <1>3, StoredIs
<1>5. ASSUME mem[at].link = 0 PROVE LeafCells(mem') = Stored
  <2>2. PICK T, own, h : SearchTree(mem, numPages, T, own, h) /\ Placed(T, own) /\ at \in T
    BY <1>1, LeafOfTree
  <2>3. Done(mem'[at].cells)
    <3>1. \A i \in 1 .. Len(mem[at].cells) :
            Rewritten(mem[at].cells[i]) \in stmt.where =>
              Rewritten(mem[at].cells[i]).row = stmt.row
      BY <1>1, RewrittenOnce, ElementOfSeq
    <3> QED BY <3>1, <1>1 DEF Done
  <2>4. mem' \in [NodePages -> Leaf \cup Internal]
    BY NextPages
  <2>5. \A c \in LeafCells(mem') : c \in stmt.where => stmt.op = "update" /\ c.row = stmt.row
    <3>1. \A m : /\ m \in [NodePages -> Leaf \cup Internal]
                 /\ \A q \in NodePages \ {at} : m[q] = mem[q]
                 /\ m[at].type = "leaf" /\ Done(m[at].cells)
                 => \A c \in LeafCells(m) :
                      c \in stmt.where => stmt.op = "update" /\ c.row = stmt.row
      BY <1>1, <1>5, <2>2, WalkIsDone
    <3> QED BY <3>1, <1>1, <2>3, <2>4
  <2>6. \A c \in LeafCells(mem') : c \in LeafCell
    <3>1. \A p \in NodePages : mem'[p].type = "leaf" => mem'[p].cells \in Seq(LeafCell)
      BY <2>4, PageTypes DEF Leaf
    <3> QED BY <3>1, <2>4, RowsOfPages, ElementOfSeq DEF Holds
  <2>7. \A c \in LeafCells(mem') : Rewritten(c) = c
    BY <2>5, <2>6 DEF Rewritten, LeafCell
  <2>8. {Rewritten(c) : c \in LeafCells(mem')} = LeafCells(mem')
    BY <2>7
  <2> QED BY <1>1, <1>3, <2>8, StoredIs
<1> QED BY <1>1, <1>2, <1>4, <1>5, NextLeafTable

-----------------------------------------------------------------------------
LEMMA RestartTable ==
  ASSUME IInv, IInv', TableInv, RowsKnown, RowsKnown', Restart
  PROVE  TableInv' /\ Table!Next
<1>1. /\ pc = "idle" /\ result.code # "error"
      /\ pc' = pc /\ stmt' = stmt /\ result' = result
  BY DEF Restart, control
<1>2. stmt = NoStmt /\ TableInv'
  BY <1>1 DEF TableInv
<1>3. Stored' = Stored /\ LeafCells(disk') = Stored
  <2>1. Found = LeafCells(mem) /\ Found' = LeafCells(mem')
    BY <1>1 DEF RowsKnown, Settled
  <2> QED BY <2>1, <1>1, RestartRows, StoredIs, StoredNext
<1>4. Table!Restart
  BY <1>1, <1>2, <1>3 DEF Table!Restart, Table!NoStmt, NoStmt
<1> QED BY <1>2, <1>4 DEF Table!Next

LEMMA CrashTable == ASSUME TableInv, RowsKnown', Crash PROVE TableInv' /\ Table!Next
<1>1. Finish("none", {}) /\ mem' = disk /\ disk' = disk
  BY DEF Crash
<1>2. /\ TableInv' /\ pc' = "idle" /\ stmt' = NoStmt /\ result' = Reply("none", {})
      /\ Stored' = LeafCells(mem')
  BY <1>1, FinishTable
<1>3. Table!Crash
  BY <1>1, <1>2 DEF Table!Crash, Table!Finish, Table!NoStmt, NoStmt, Table!Reply, Reply
<1> QED BY <1>2, <1>3 DEF Table!Next

LEMMA NextTable ==
  IInv /\ IInv' /\ TreeInv /\ RowsKnown /\ RowsKnown' /\ TableInv /\ [Next]_vars
    => TableInv' /\ [Table!Next]_Table!vars
<1> SUFFICES ASSUME IInv, IInv', TreeInv, RowsKnown, RowsKnown', TableInv, [Next]_vars
             PROVE  TableInv' /\ [Table!Next]_Table!vars
  OBVIOUS
<1>1. CASE BeginInsert \/ BeginSelect \/ BeginDelete \/ BeginUpdate
  BY <1>1, BeginsTable
<1>2. CASE Lookup
  BY <1>2, LookupTable
<1>3. CASE Duplicate
  BY <1>3, DuplicateTable
<1>4. CASE InsertIntoLeaf \/ SplitRootLeaf \/ SplitRootLeafHalfway \/ NoPageForLeaf
  BY <1>4, LeafInsertsTable
<1>5. CASE SplitLeaf
  BY <1>5, SplitLeafTable
<1>6. CASE InsertSeparator \/ SplitRootNode \/ NoPagesForRootNode \/ NoPageForNode
  BY <1>6, SeparatorsTable
<1>7. CASE SplitNode
  BY <1>7, SplitNodeTable
<1>8. CASE Descend \/ (ToFirstLeaf /\ mem[at].type = "internal")
  BY <1>8, DownTable
<1>9. CASE ToFirstLeaf /\ mem[at].type # "internal"
  BY <1>9, StartTable
<1>10. CASE DeleteRow
  BY <1>10, DeleteRowTable
<1>11. CASE DeleteNext
  BY <1>11, DeleteNextTable
<1>12. CASE UpdateLeaf
  BY <1>12, UpdateLeafTable
<1>13. CASE Restart
  BY <1>13, RestartTable
<1>14. CASE Crash
  BY <1>14, CrashTable
<1>15. CASE UNCHANGED vars
  <2>1. mem' = mem /\ disk' = disk /\ pc' = pc /\ stmt' = stmt /\ result' = result
    BY <1>15 DEF vars, pager, control
  <2>2. TableInv'
    BY <2>1 DEF TableInv, TheRow
  <2>3. Stored' = Stored
    BY <2>1 DEF Stored, Found, LeafFor
  <2> QED BY <2>1, <2>2, <2>3 DEF Table!vars
<1> QED BY <1>1, <1>2, <1>3, <1>4, <1>5, <1>6, <1>7, <1>8, <1>9, <1>10, <1>11, <1>12,
           <1>13, <1>14, <1>15 DEF Next, Step

\* A new database has an empty table.
LEMMA InitTableRows == Init => Table!Init
<1> SUFFICES ASSUME Init PROVE Table!Init
  OBVIOUS
<1>1. /\ disk = [p \in NodePages |-> IF p < filePages THEN NewLeaf(0) ELSE ZeroPage]
      /\ mem = disk /\ pc = "idle" /\ stmt = NoStmt /\ result = Reply("none", {})
  BY DEF Init
<1>2. \A p \in NodePages : disk[p].cells = <<>>
  BY <1>1 DEF NewLeaf, ZeroPage
<1>3. \A c : \A p \in NodePages : c \notin Range(disk[p].cells)
  BY <1>2 DEF Range
<1>4. LeafCells(disk) = {}
  BY <1>3 DEF LeafCells
<1>5. Stored = {}
  BY <1>1, <1>4, StoredIs DEF Found
<1> QED BY <1>1, <1>4, <1>5 DEF Table!Init, Table!NoStmt, NoStmt, Table!Reply, Reply

\* The tree of pages behaves as a set of rows with distinct keys: each statement has the
\* effect and the reply that module DurableTable gives it, a restart keeps the rows, and
\* a crash brings back those that the file had when it was opened.  This is so as long
\* as no restart loses a parent pointer.
THEOREM TableImplemented == Spec /\ [][Restart => ParentsSaved]_vars => ImplementsTable
<1>1. IInv /\ TreeInv => RowsKnown
  BY AllRowsAreFound
<1>2. IInv /\ IInv' /\ TreeInv /\ RowsKnown /\ RowsKnown' /\ TableInv /\ [Next]_vars
        => TableInv' /\ [Table!Next]_Table!vars
  BY NextTable
<1> QED BY <1>1, <1>2, InitTable, InitTableRows, InvariantHolds, TreeHolds,
           PTL DEF Spec, ImplementsTable, Table!Spec

-----------------------------------------------------------------------------
\* Scans: the bytes of the leaves, where a cursor is, and what it has shown.

\* The bytes of the first cell of a leaf are those of its first row; where the leaf has no
\* row, they are of one whose lookup would end there.
BytesOf(pages, bytes) ==
  \A p \in NodePages : pages[p].type = "leaf" /\ pages[p].cells # <<>> =>
                          bytes[p] = pages[p].cells[1]

OldBytes(pages, T, own, bytes) ==
  \A p \in T : pages[p].type = "leaf" /\ bytes[p] # NoCell => bytes[p].key \in own[p]

\* The scan has come by leaf q, which is where it is or lies before.
Visited(own, q) ==
  mem[q].type = "leaf" /\ (q = cursor.page \/ Before(own, q, cursor.page))

\* The scan is past cell c of leaf q.
Past(q, c) ==
  \E j \in 1 .. Len(mem[q].cells) : c = mem[q].cells[j] /\ (q = cursor.page => j <= cursor.cell)

\* The scan has read cell c from leaf q: it is one of the rows that the scan is past, or
\* the old one of a leaf that has none.
ReadFrom(T, own, q, c) ==
  \/ Past(q, c)
  \/ /\ mem[q].cells = <<>> /\ c = first[q]
     /\ q = cursor.page => cursor.cell = 1
     /\ \E p \in T : Before(own, p, q)

Shows(c) == \E i \in 1 .. Len(shown) : shown[i] = c

\* What a scan has shown, of the rows that it is past.
ShownSoFar(T, own) ==
  /\ ScanAscends
  /\ \A c : Shows(c) =>
       c \in cursor.where /\ \E q \in T : Visited(own, q) /\ ReadFrom(T, own, q, c)
  /\ \A q \in T : \A c : Visited(own, q) /\ Past(q, c) /\ c \in cursor.where => Shows(c)

\* Where a scan is: on its way to the first leaf, or along the leaves.
ScanAt(T, own) ==
  /\ cursor.page \in T /\ cursor.where \in ScanWheres
  /\ mem[cursor.page].type = "internal" =>
       /\ ~ cursor.done /\ cursor.cell = 0 /\ shown = <<>>
       /\ \A k \in own[cursor.page] : k - 1 \in own[cursor.page]
  /\ mem[cursor.page].type = "leaf" => ShownSoFar(T, own)
  /\ cursor.done => /\ mem[cursor.page].link = 0
                    /\ cursor.cell >= Len(mem[cursor.page].cells)

ScanTree(T, own, h) ==
  /\ TreeAt(T, own, h)
  /\ OldBytes(mem, T, own, first)
  /\ cursor # NoCursor => ScanAt(T, own)

\* The inductive invariant of the scans, beside that of the tree.
ScanInv ==
  /\ ScanTypeOK
  /\ BytesOf(mem, first) /\ BytesOf(disk, firstOnDisk)
  /\ cursor = NoCursor => shown = <<>>
  /\ cursor # NoCursor => Settled
  /\ result.code # "error" => /\ \A p \in NodePages \ dirty : first[p] = firstOnDisk[p]
                              /\ \E T, own, h : ScanTree(T, own, h)
  /\ \E T, own, h : SearchTree(disk, filePages, T, own, h) /\ OldBytes(disk, T, own, firstOnDisk)

\* The rows of a leaf.
LEMMA LeafRows ==
  ASSUME NEW m \in [NodePages -> Leaf \cup Internal], NEW p \in NodePages, m[p].type = "leaf"
  PROVE  /\ m[p].cells \in Seq(LeafCell) /\ Len(m[p].cells) \in Nat
         /\ \A j \in 1 .. Len(m[p].cells) : m[p].cells[j] \in LeafCell /\ m[p].cells[j].key \in Int
         /\ m[p].cells # <<>> => 1 \in 1 .. Len(m[p].cells)
<1>1. m[p].cells \in Seq(LeafCell)
  BY PageTypes DEF Leaf
<1> DEFINE cells == m[p].cells
<1> HIDE DEF cells
<1>2. cells \in Seq(LeafCell)
  BY <1>1 DEF cells
<1>3. Len(cells) \in Nat /\ \A j \in 1 .. Len(cells) : cells[j] \in LeafCell
  BY <1>2, LenProperties, ElementOfSeq
<1>4. \A c \in LeafCell : c.key \in Int
  BY KeysAssumption DEF LeafCell
<1>5. cells # <<>> => Len(cells) # 0
  BY <1>2
<1> QED BY <1>2, <1>3, <1>4, <1>5 DEF cells

LEMMA CellsDiffer == NoCell \notin LeafCell
<1>1. \A c \in LeafCell : "row" \in DOMAIN c
  BY DEF LeafCell
<1>2. "row" \notin DOMAIN NoCell
  BY DEF NoCell
<1> QED BY <1>1, <1>2

LEMMA InitScans == ScanInit => ScanInv
<1> SUFFICES ASSUME ScanInit PROVE ScanInv
  OBVIOUS
<1>1. /\ Init /\ cursor = NoCursor /\ shown = <<>>
      /\ first = [p \in NodePages |-> NoCell] /\ firstOnDisk = first
  BY DEF ScanInit
<1>2. TreeInv /\ mem = disk /\ dirty = {} /\ result = Reply("none", {})
  BY <1>1, InitTree DEF Init
<1>3. \A p \in NodePages : disk[p].cells = <<>>
  BY <1>1 DEF Init, NewLeaf, ZeroPage
<1>4. ScanTypeOK
  <2>1. cursor \in [page : PageNum, cell : 0 .. LeafMax, where : ScanWheres \cup {{}},
                    done : BOOLEAN]
    <3>1. 0 \in PageNum /\ 0 \in 0 .. LeafMax
      BY CapacityAssumption DEF PageNum
    <3> QED BY <3>1, <1>1 DEF NoCursor
  <2>2. first \in [NodePages -> LeafCell \cup {NoCell}]
    BY <1>1
  <2> QED BY <2>1, <2>2, <1>1 DEF ScanTypeOK
<1>5. result.code # "error"
  BY <1>2 DEF Reply
<1>6. PICK T, own, h : TreeAt(T, own, h)
  BY <1>2, <1>5 DEF TreeInv
<1>7. ScanTree(T, own, h)
  <2>1. T \subseteq NodePages
    BY <1>6 DEF TreeAt, SearchTree, Typed
  <2> QED BY <2>1, <1>1, <1>6 DEF ScanTree, OldBytes
<1>8. PICK T2, own2, h2 : SearchTree(disk, filePages, T2, own2, h2)
  BY <1>2 DEF TreeInv
<1>9. OldBytes(disk, T2, own2, firstOnDisk)
  <2>1. T2 \subseteq NodePages
    BY <1>8 DEF SearchTree, Typed
  <2> QED BY <2>1, <1>1 DEF OldBytes
<1> QED BY <1>1, <1>2, <1>3, <1>4, <1>7, <1>8, <1>9 DEF ScanInv, BytesOf

-----------------------------------------------------------------------------
\* A statement, which no scan is at work in.
LEMMA StatementsScans ==
  ASSUME IInv, IInv', TreeInv, ScanInv, TreeStep
  PROVE  ScanInv'
<1>1. /\ cursor' = NoCursor /\ shown' = <<>> /\ firstOnDisk' = firstOnDisk
      /\ first' = [p \in NodePages |->
                     IF mem'[p].type = "leaf" /\ mem'[p].cells # <<>> THEN mem'[p].cells[1]
                     ELSE first[p]]
      /\ BeginInsert \/ BeginSelect \/ BeginDelete \/ BeginUpdate \/ Step
  BY DEF TreeStep
<1>2. /\ mem \in [NodePages -> Leaf \cup Internal]
      /\ mem' \in [NodePages -> Leaf \cup Internal]
      /\ mem \in [NodePages -> LeafNode \cup InternalNode]
  BY ViewPages, NextPages
<1>3. /\ first \in [NodePages -> LeafCell \cup {NoCell}]
      /\ firstOnDisk \in [NodePages -> LeafCell \cup {NoCell}]
      /\ BytesOf(mem, first) /\ BytesOf(disk, firstOnDisk)
  BY DEF ScanInv, ScanTypeOK
<1>4. ScanTypeOK'
  <2>1. cursor' \in [page : PageNum, cell : 0 .. LeafMax, where : ScanWheres \cup {{}},
                     done : BOOLEAN]
    <3>1. 0 \in PageNum /\ 0 \in 0 .. LeafMax
      BY CapacityAssumption DEF PageNum
    <3> QED BY <3>1, <1>1 DEF NoCursor
  <2>2. ASSUME NEW p \in NodePages, mem'[p].type = "leaf", mem'[p].cells # <<>>
        PROVE  mem'[p].cells[1] \in LeafCell
    BY <1>2, <2>2, LeafRows
  <2>3. first' \in [NodePages -> LeafCell \cup {NoCell}]
    BY <1>1, <1>3, <2>2
  <2> QED BY <2>1, <2>3, <1>1, <1>3 DEF ScanTypeOK
<1>5. BytesOf(mem', first')
  BY <1>1 DEF BytesOf
<1>6. CASE result'.code = "error"
  <2>1. disk' = disk /\ filePages' = filePages
    <3>1. CASE TreeStatement
      BY <3>1, StatementFacts
    <3>2. CASE SplitRootLeafHalfway \/ NoPagesForRootNode \/ NoPageForNode
      BY <3>2 DEF SplitRootLeafHalfway, NoPagesForRootNode, NoPageForNode, Write
    <3> QED BY <3>1, <3>2, <1>1 DEF Step, TreeStatement
  <2>2. (\E T, own, h : /\ SearchTree(disk, filePages, T, own, h)
                        /\ OldBytes(disk, T, own, firstOnDisk))'
    BY <2>1, <1>1 DEF ScanInv
  <2>3. BytesOf(disk, firstOnDisk)'
    BY <2>1, <1>1, <1>3
  <2>4. (cursor # NoCursor => Settled)'
    BY <1>1
  <2> QED BY <2>2, <2>3, <2>4, <1>1, <1>4, <1>5, <1>6 DEF ScanInv
<1>7. CASE result'.code # "error"
  <2>1. TreeStatement
    <3>1. CASE SplitRootLeafHalfway \/ NoPagesForRootNode \/ NoPageForNode
      <4>1. result' = Reply("error", {})
        BY <3>1 DEF SplitRootLeafHalfway, NoPagesForRootNode, NoPageForNode, Finish
      <4> QED BY <4>1, <1>7 DEF Reply
    <3> QED BY <3>1, <1>1 DEF Step, TreeStatement
  <2>2. /\ result.code # "error" /\ disk' = disk /\ filePages' = filePages
        /\ dirty \subseteq dirty'
    BY <2>1, StatementFacts
  <2>3. PICK T, own, h : ScanTree(T, own, h)
    BY <2>2 DEF ScanInv
  <2>4. TreeAt(T, own, h) /\ OldBytes(mem, T, own, first)
    BY <2>3 DEF ScanTree
  <2>5. Onward(T, own)
    BY <2>1, <2>4, StatementGoesOn
  <2>6. PICK T2, own2, h2 : TreeAt(T2, own2, h2)' /\ KeptEmpty(T, own, T2, own2)
    BY <2>5 DEF Onward
  <2>7. OldBytes(mem, T2, own2, first)'
    <3> SUFFICES ASSUME NEW p \in T2, mem'[p].type = "leaf", first'[p] # NoCell
                 PROVE  first'[p].key \in own2[p]
      BY DEF OldBytes
    <3>1. SearchTree(View', numPages', T2, own2, h2) /\ p \in NodePages
      BY <2>6 DEF TreeAt, SearchTree, Typed
    <3>2. CASE mem'[p].cells = <<>>
      <4>1. p \in T /\ mem[p].type = "leaf" /\ own2[p] = own[p]
        BY <3>2, <2>6 DEF KeptEmpty
      <4>2. first'[p] = first[p]
        BY <3>1, <3>2, <1>1
      <4> QED BY <4>1, <4>2, <2>4 DEF OldBytes
    <3>3. CASE mem'[p].cells # <<>>
      <4>1. View'[p] = mem'[p]
        <5>1. (pc = "separator" => mem[at].type = "internal")'
          BY <1>7 DEF IInv, PointersLead
        <5> QED BY <5>1, <1>2, <3>1 DEF View
      <4>2. Filled(View'[p], own2, p)
        BY <3>1, <4>1 DEF SearchTree, PageOK
      <4>3. 1 \in 1 .. Len(mem'[p].cells)
        BY <3>1, <3>3, <1>2, LeafRows
      <4>4. first'[p] = mem'[p].cells[1]
        BY <3>1, <3>3, <1>1
      <4> QED BY <4>1, <4>2, <4>3, <4>4 DEF Filled
    <3> QED BY <3>2, <3>3
  <2>8. \A p \in NodePages \ dirty' : first'[p] = firstOnDisk'[p]
    <3> SUFFICES ASSUME NEW p \in NodePages \ dirty' PROVE first'[p] = firstOnDisk[p]
      BY <1>1
    <3>1. p \in NodePages \ dirty /\ first[p] = firstOnDisk[p]
      BY <2>2 DEF ScanInv
    <3>2. /\ [mem[p] EXCEPT !.parent = 0] = [disk[p] EXCEPT !.parent = 0]
          /\ [mem'[p] EXCEPT !.parent = 0] = [disk[p] EXCEPT !.parent = 0]
      <4>1. MemInv /\ MemInv'
        BY <1>7, <2>2 DEF IInv
      <4> QED BY <4>1, <3>1, <2>2 DEF MemInv
    <3>3. mem[p] \in Leaf \cup Internal /\ mem'[p] \in Leaf \cup Internal
      BY <1>2
    <3>4. mem'[p].type = mem[p].type /\ mem'[p].cells = mem[p].cells
      BY <3>2, <3>3 DEF Leaf, Internal
    <3> QED BY <3>1, <3>4, <1>1, <1>3 DEF BytesOf
  <2>9. (\E T3, own3, h3 : /\ SearchTree(disk, filePages, T3, own3, h3)
                           /\ OldBytes(disk, T3, own3, firstOnDisk))'
    BY <2>2, <1>1 DEF ScanInv
  <2>10. ScanTree(T2, own2, h2)'
    BY <2>6, <2>7, <1>1 DEF ScanTree
  <2>11. BytesOf(disk, firstOnDisk)'
    BY <2>2, <1>1, <1>3
  <2>12. (cursor # NoCursor => Settled)'
    BY <1>1
  <2> QED BY <2>8, <2>9, <2>10, <2>11, <2>12, <1>1, <1>4, <1>5 DEF ScanInv
<1> QED BY <1>6, <1>7

\* A crash, which may come while a scan is at work, starts over with the bytes of the file.
LEMMA CrashScans ==
  ASSUME IInv, IInv', ScanInv, ScanCrash
  PROVE  ScanInv'
<1>1. /\ cursor' = NoCursor /\ shown' = <<>> /\ firstOnDisk' = firstOnDisk
      /\ first' = firstOnDisk
      /\ disk' = disk /\ filePages' = filePages /\ mem' = disk /\ numPages' = filePages
      /\ pc' = "idle"
  BY DEF ScanCrash, Crash, Finish
<1>2. ScanTypeOK'
  <2>1. cursor' \in [page : PageNum, cell : 0 .. LeafMax, where : ScanWheres \cup {{}},
                     done : BOOLEAN]
    <3>1. 0 \in PageNum /\ 0 \in 0 .. LeafMax
      BY CapacityAssumption DEF PageNum
    <3> QED BY <3>1, <1>1 DEF NoCursor
  <2> QED BY <2>1, <1>1 DEF ScanInv, ScanTypeOK
<1>3. PICK T, own, h : SearchTree(disk, filePages, T, own, h) /\ OldBytes(disk, T, own, firstOnDisk)
  BY DEF ScanInv
<1>4. ScanTree(T, own, h)'
  <2>1. View' = disk
    BY <1>1 DEF View
  <2>2. Placed(T, own)'
    BY <1>1 DEF Placed
  <2>3. TreeAt(T, own, h)'
    BY <2>1, <2>2, <1>1, <1>3 DEF TreeAt
  <2>4. OldBytes(mem, T, own, first)'
    BY <1>1, <1>3
  <2> QED BY <2>3, <2>4, <1>1 DEF ScanTree
<1>5. (\E T3, own3, h3 : /\ SearchTree(disk, filePages, T3, own3, h3)
                         /\ OldBytes(disk, T3, own3, firstOnDisk))'
  BY <1>1, <1>3
<1>6. BytesOf(mem, first)' /\ BytesOf(disk, firstOnDisk)'
  BY <1>1 DEF ScanInv
<1>7. (cursor # NoCursor => Settled)'
  BY <1>1
<1> QED BY <1>1, <1>2, <1>4, <1>5, <1>6, <1>7 DEF ScanInv

\* The bytes of the pages that are flushed go to the file with them.
LEMMA RestartScans ==
  ASSUME IInv, IInv', ScanInv, ScanRestart, ParentsSaved
  PROVE  ScanInv'
<1>1. /\ cursor' = NoCursor /\ shown' = <<>>
      /\ firstOnDisk' = [p \in NodePages |-> IF p \in dirty THEN first[p] ELSE firstOnDisk[p]]
      /\ first' = firstOnDisk'
      /\ pc = "idle" /\ pc' = pc /\ result.code # "error" /\ result' = result
      /\ disk' = Flushed /\ mem' = Flushed
      /\ filePages' = FlushedPages /\ numPages' = FlushedPages /\ dirty' = {}
  BY DEF ScanRestart, Restart, control
<1>2. FlushedPages = numPages
  BY <1>1, TypeOKParts, AllPagesAreFlushed DEF IInv
<1>3. Flushed = mem
  <2>1. \A p \in NodePages : Flushed[p] = mem[p]
    BY DEF ParentsSaved, Flushed
  <2>2. mem = [p \in NodePages |-> mem[p]]
    BY ViewPages
  <2>3. Flushed = [p \in NodePages |-> Flushed[p]]
    BY DEF Flushed
  <2> QED BY <2>1, <2>2, <2>3
<1>4. PICK T, own, h : ScanTree(T, own, h)
  BY <1>1 DEF ScanInv
<1>5. /\ first \in [NodePages -> LeafCell \cup {NoCell}]
      /\ firstOnDisk \in [NodePages -> LeafCell \cup {NoCell}]
      /\ BytesOf(mem, first)
      /\ \A p \in NodePages \ dirty : first[p] = firstOnDisk[p]
  BY <1>1 DEF ScanInv, ScanTypeOK
<1>6. firstOnDisk' = first
  <2>1. \A p \in NodePages : firstOnDisk'[p] = first[p]
    BY <1>1, <1>5
  <2> QED BY <2>1, <1>1, <1>5
<1>7. ScanTypeOK'
  <2>1. cursor' \in [page : PageNum, cell : 0 .. LeafMax, where : ScanWheres \cup {{}},
                     done : BOOLEAN]
    <3>1. 0 \in PageNum /\ 0 \in 0 .. LeafMax
      BY CapacityAssumption DEF PageNum
    <3> QED BY <3>1, <1>1 DEF NoCursor
  <2> QED BY <2>1, <1>1, <1>5, <1>6 DEF ScanTypeOK
<1>8. TreeAt(T, own, h) /\ OldBytes(mem, T, own, first)
  BY <1>4 DEF ScanTree
<1>9. ScanTree(T, own, h)'
  <2>1. View = mem /\ View' = mem
    BY <1>1, <1>3 DEF View
  <2>2. Placed(T, own)'
    BY <1>1 DEF Placed
  <2>3. TreeAt(T, own, h)'
    BY <2>1, <2>2, <1>1, <1>2, <1>8 DEF TreeAt
  <2>4. OldBytes(mem, T, own, first)'
    BY <1>1, <1>3, <1>6, <1>8
  <2> QED BY <2>3, <2>4, <1>1 DEF ScanTree
<1>10. SearchTree(disk, filePages, T, own, h)' /\ OldBytes(disk, T, own, firstOnDisk)'
  BY <1>1, <1>2, <1>3, <1>6, <1>8 DEF TreeAt, View
<1>11. BytesOf(mem, first)' /\ BytesOf(disk, firstOnDisk)'
  BY <1>1, <1>3, <1>5, <1>6
<1>12. (\A p \in NodePages \ dirty : first[p] = firstOnDisk[p])' /\ (cursor # NoCursor => Settled)'
  BY <1>1
<1> QED BY <1>1, <1>7, <1>9, <1>10, <1>11, <1>12 DEF ScanInv

-----------------------------------------------------------------------------
\* A step of a scan leaves the tree and the bytes alone.
LEMMA ScanGoesOn ==
  ASSUME ScanInv, UNCHANGED <<vars, first, firstOnDisk>>, ScanTypeOK', Settled,
         cursor' # NoCursor,
         NEW T, NEW own, NEW h, ScanTree(T, own, h), ScanAt(T, own)'
  PROVE  ScanInv'
<1>1. /\ mem' = mem /\ dirty' = dirty /\ numPages' = numPages /\ disk' = disk
      /\ filePages' = filePages /\ pc' = pc /\ stmt' = stmt /\ at' = at /\ sep' = sep
      /\ result' = result /\ first' = first /\ firstOnDisk' = firstOnDisk
  BY DEF vars, pager, control
<1>2. TreeAt(T, own, h)'
  <2>1. View' = View
    BY <1>1 DEF View
  <2> QED BY <2>1, <1>1 DEF ScanTree, TreeAt, Placed, Done
<1>3. ScanTree(T, own, h)'
  BY <1>1, <1>2 DEF ScanTree
<1>4. Settled'
  BY <1>1 DEF Settled
<1> QED BY <1>1, <1>3, <1>4 DEF ScanInv

\* The page a scan is at.
LEMMA ScanPage ==
  ASSUME IInv, ScanInv, cursor # NoCursor
  PROVE  /\ Settled
         /\ mem \in [NodePages -> Leaf \cup Internal]
         /\ mem \in [NodePages -> LeafNode \cup InternalNode]
         /\ cursor.page \in NodePages
         /\ \E T, own, h : /\ ScanTree(T, own, h) /\ ScanAt(T, own)
                           /\ SearchTree(mem, numPages, T, own, h)
<1>1. Settled
  BY DEF ScanInv
<1>2. PICK T, own, h : ScanTree(T, own, h)
  BY <1>1 DEF ScanInv, Settled
<1>3. SearchTree(mem, numPages, T, own, h) /\ ScanAt(T, own)
  BY <1>1, <1>2 DEF ScanTree, TreeAt, View, Settled
<1>4. cursor.page \in NodePages
  BY <1>3 DEF ScanAt, SearchTree, Typed
<1> QED BY <1>1, <1>2, <1>3, <1>4, ViewPages

\* A scan that comes to the first leaf, or to a page on the way to it.
LEMMA ScanStarts ==
  ASSUME NEW T, NEW own, NEW h, SearchTree(mem, numPages, T, own, h), mem' = mem,
         shown' = <<>>, cursor'.cell = 0, cursor'.done = FALSE, cursor'.page \in T,
         cursor'.where \in ScanWheres, \A k \in own[cursor'.page] : k - 1 \in own[cursor'.page]
  PROVE  ScanAt(T, own)'
<1>1. \A q \in T : ~ Before(own, q, cursor'.page)
  BY NoneBefore
<1>2. mem \in [NodePages -> Leaf \cup Internal] /\ T \subseteq NodePages
  BY DEF SearchTree, Typed
<1>3. CASE mem[cursor'.page].type = "leaf"
  <2>1. ~ \E i : i \in 1 .. Len(shown')
    <3>1. 1 .. 0 = {}
      OBVIOUS
    <3> QED BY <3>1
  <2>2. ASSUME NEW q \in T, Visited(own, q)', NEW c, Past(q, c)' PROVE FALSE
    <3>1. q = cursor'.page
      BY <1>1, <2>2 DEF Visited
    <3>2. PICK j \in 1 .. Len(mem[q].cells) : j <= 0
      BY <3>1, <2>2 DEF Past
    <3>3. Len(mem[q].cells) \in Nat
      BY <3>1, <1>2, <1>3, LeafRows
    <3> QED BY <3>2, <3>3
  <2>3. ScanAscends'
    BY <2>1 DEF ScanAscends
  <2>4. \A c : ~ Shows(c)'
    BY <2>1 DEF Shows
  <2>5. ShownSoFar(T, own)'
    BY <2>2, <2>3, <2>4 DEF ShownSoFar
  <2> QED BY <2>5, <1>3 DEF ScanAt
<1>4. CASE mem[cursor'.page].type # "leaf"
  BY <1>4 DEF ScanAt
<1> QED BY <1>3, <1>4

LEMMA BeginScans ==
  ASSUME IInv, ScanInv, BeginScan
  PROVE  ScanInv'
<1>1. PICK w \in ScanWheres :
        cursor' = [page |-> RootPage, cell |-> 0, where |-> w, done |-> FALSE]
  BY DEF BeginScan
<1>2. /\ pc = "idle" /\ result.code # "error" /\ shown' = <<>>
      /\ UNCHANGED <<vars, first, firstOnDisk>> /\ mem' = mem
  BY DEF BeginScan, vars, pager
<1>3. PICK T, own, h : ScanTree(T, own, h)
  BY <1>2 DEF ScanInv
<1>4. SearchTree(mem, numPages, T, own, h)
  BY <1>2, <1>3 DEF ScanTree, TreeAt, View
<1>5. RootPage \in T /\ own[RootPage] = Int /\ T \subseteq NodePages
  BY <1>4 DEF SearchTree, Typed
<1>6. ScanAt(T, own)'
  <2>1. \A k \in own[RootPage] : k - 1 \in own[RootPage]
    BY <1>5
  <2> QED BY <2>1, <1>1, <1>2, <1>4, <1>5, ScanStarts
<1>7. ScanTypeOK'
  <2>1. RootPage \in PageNum /\ 0 \in 0 .. LeafMax
    BY <1>5, CapacityAssumption DEF NodePages
  <2>2. cursor' \in [page : PageNum, cell : 0 .. LeafMax, where : ScanWheres \cup {{}},
                     done : BOOLEAN]
    BY <1>1, <2>1
  <2> QED BY <2>2, <1>2 DEF ScanInv, ScanTypeOK
<1>8. cursor' # NoCursor /\ Settled
  BY <1>1, <1>2 DEF NoCursor, Settled
<1> QED BY <1>2, <1>3, <1>6, <1>7, <1>8, ScanGoesOn

LEMMA ScanDownScans ==
  ASSUME IInv, ScanInv, ScanDown
  PROVE  ScanInv'
<1>1. /\ ~ cursor.done /\ mem[cursor.page].type = "internal"
      /\ cursor' = [cursor EXCEPT !.page = mem[cursor.page].cells[1].child, !.cell = 0]
      /\ UNCHANGED <<vars, shown, first, firstOnDisk>> /\ mem' = mem
  BY DEF ScanDown, Here, vars, pager
<1>2. cursor # NoCursor /\ ScanTypeOK
  BY <1>1 DEF NoCursor, ScanInv
<1>3. PICK T, own, h : /\ ScanTree(T, own, h) /\ ScanAt(T, own)
                       /\ SearchTree(mem, numPages, T, own, h)
  BY <1>2, ScanPage
<1>4. /\ cursor.page \in T /\ shown = <<>> /\ cursor.where \in ScanWheres
      /\ \A k \in own[cursor.page] : k - 1 \in own[cursor.page]
  BY <1>1, <1>3 DEF ScanAt
<1> DEFINE c == mem[cursor.page].cells[1].child
<1>5. c \in T /\ \A k \in own[c] : k - 1 \in own[c]
  BY <1>1, <1>3, <1>4, FirstChildOwns
<1>6. /\ cursor'.page = c /\ cursor'.cell = 0 /\ cursor'.where = cursor.where
      /\ cursor'.done = FALSE
      /\ cursor' \in [page : PageNum, cell : 0 .. LeafMax, where : ScanWheres \cup {{}},
                      done : BOOLEAN]
  <2> HIDE DEF c
  <2>1. c \in PageNum /\ 0 \in 0 .. LeafMax
    <3>1. T \subseteq NodePages
      BY <1>3 DEF SearchTree, Typed
    <3>2. 0 \in 0 .. LeafMax
      BY CapacityAssumption
    <3> QED BY <3>1, <3>2, <1>5 DEF NodePages
  <2>2. cursor' = [cursor EXCEPT !.page = c, !.cell = 0]
    BY <1>1 DEF c
  <2> QED BY <2>1, <2>2, <1>1, <1>2 DEF ScanTypeOK
<1> HIDE DEF c
<1>7. ScanAt(T, own)'
  BY <1>1, <1>3, <1>4, <1>5, <1>6, ScanStarts
<1>8. ScanTypeOK'
  BY <1>1, <1>2, <1>6 DEF ScanTypeOK
<1>9. cursor' # NoCursor
  BY <1>6 DEF NoCursor
<1> QED BY <1>1, <1>2, <1>3, <1>7, <1>8, <1>9, ScanGoesOn, ScanPage

\* The scan is at the end: it stays where it is.
LEMMA ScanEndScans ==
  ASSUME IInv, ScanInv, ScanEnd
  PROVE  ScanInv'
<1>1. /\ ~ cursor.done /\ mem[cursor.page].type = "leaf"
      /\ cursor.cell >= Len(mem[cursor.page].cells) /\ mem[cursor.page].link = 0
      /\ cursor' = [cursor EXCEPT !.done = TRUE]
      /\ UNCHANGED <<vars, shown, first, firstOnDisk>> /\ mem' = mem /\ first' = first
      /\ shown' = shown
  BY DEF ScanEnd, ScanSpent, Here, vars, pager
<1>2. cursor # NoCursor /\ ScanTypeOK
  BY <1>1 DEF NoCursor, ScanInv
<1>3. PICK T, own, h : /\ ScanTree(T, own, h) /\ ScanAt(T, own)
                       /\ SearchTree(mem, numPages, T, own, h)
  BY <1>2, ScanPage
<1>4. /\ cursor'.page = cursor.page /\ cursor'.cell = cursor.cell
      /\ cursor'.where = cursor.where /\ cursor'.done = TRUE
      /\ cursor' \in [page : PageNum, cell : 0 .. LeafMax, where : ScanWheres \cup {{}},
                      done : BOOLEAN]
  BY <1>1, <1>2 DEF ScanTypeOK
<1>5. ScanTypeOK'
  BY <1>1, <1>2, <1>4 DEF ScanTypeOK
<1>6. ShownSoFar(T, own)'
  <2>1. ShownSoFar(T, own)
    BY <1>1, <1>3 DEF ScanAt
  <2>2. ScanAscends'
    BY <2>1, <1>1 DEF ShownSoFar, ScanAscends
  <2>3. \A q : Visited(own, q)' <=> Visited(own, q)
    BY <1>1, <1>4 DEF Visited
  <2>4. \A q, c : /\ ReadFrom(T, own, q, c)' <=> ReadFrom(T, own, q, c)
                  /\ Past(q, c)' <=> Past(q, c)
    BY <1>1, <1>4 DEF ReadFrom, Past
  <2>5. \A c : Shows(c)' <=> Shows(c)
    BY <1>1 DEF Shows
  <2> QED BY <2>1, <2>2, <2>3, <2>4, <2>5, <1>1, <1>4 DEF ShownSoFar
<1>7. ScanAt(T, own)'
  BY <1>1, <1>3, <1>4, <1>6 DEF ScanAt
<1>8. cursor' # NoCursor
  <2>1. cursor.page # 0
    BY <1>2, ScanPage DEF NodePages
  <2> QED BY <2>1, <1>4 DEF NoCursor
<1> QED BY <1>1, <1>2, <1>3, <1>5, <1>7, <1>8, ScanGoesOn, ScanPage

-----------------------------------------------------------------------------
LEMMA WheresAreCells == \A w \in ScanWheres : w \subseteq LeafCell
BY DEF ScanWheres

\* The key of a row that a scan reads is one that its leaf owns.
LEMMA ReadIsOwned ==
  ASSUME NEW T, NEW own, NEW h, SearchTree(mem, numPages, T, own, h),
         OldBytes(mem, T, own, first), NEW q \in T, mem[q].type = "leaf",
         NEW c \in LeafCell, ReadFrom(T, own, q, c)
  PROVE  c.key \in own[q] /\ c.key \in Int
<1>1. Filled(mem[q], own, q) /\ own[q] \subseteq Int
  BY DEF SearchTree, PageOK, Typed
<1>2. CASE mem[q].cells # <<>>
  BY <1>1, <1>2 DEF ReadFrom, Past, Filled
<1>3. CASE mem[q].cells = <<>> /\ c = first[q]
  BY <1>1, <1>3, CellsDiffer DEF OldBytes
<1>4. CASE mem[q].cells = <<>> /\ \E j \in 1 .. Len(mem[q].cells) : c = mem[q].cells[j]
  BY <1>1, <1>4 DEF Filled
<1> QED BY <1>2, <1>3, <1>4 DEF ReadFrom, Past

\* The next row of a scan comes after all those that it has read.
LEMMA ReadsOn ==
  ASSUME NEW T, NEW own, ShownSoFar(T, own), NEW c, Show(c), shown \in Seq(LeafCell),
         mem' = mem, first' = first, cursor.where \in ScanWheres,
         NEW r \in T, cursor'.page = r, cursor'.where = cursor.where, mem[r].type = "leaf",
         \A q \in T : \A x \in LeafCell :
           Visited(own, q) /\ ReadFrom(T, own, q, x) =>
             /\ Visited(own, q)' /\ ReadFrom(T, own, q, x)'
             /\ c \in LeafCell => x.key < c.key,
         c \in LeafCell => ReadFrom(T, own, r, c)',
         \A q \in T : \A x : Visited(own, q)' /\ Past(q, x)' =>
           x = c \/ (Visited(own, q) /\ Past(q, x))
  PROVE  ShownSoFar(T, own)' /\ shown' \in Seq(LeafCell)
<1>1. /\ ScanAscends /\ cursor.where \subseteq LeafCell
      /\ \A x : Shows(x) =>
           x \in cursor.where /\ \E q \in T : Visited(own, q) /\ ReadFrom(T, own, q, x)
      /\ \A q \in T : \A x : Visited(own, q) /\ Past(q, x) /\ x \in cursor.where => Shows(x)
  BY WheresAreCells DEF ShownSoFar
<1>2. \A x : Shows(x) =>
        /\ x \in cursor'.where
        /\ \E q \in T : Visited(own, q)' /\ ReadFrom(T, own, q, x)'
        /\ c \in LeafCell => x.key < c.key
  BY <1>1
<1>3. CASE c \notin cursor.where
  <2>1. shown' = shown
    BY <1>3 DEF Show
  <2>2. \A x : Shows(x)' <=> Shows(x)
    BY <2>1 DEF Shows
  <2>3. ScanAscends'
    BY <2>1, <1>1 DEF ScanAscends
  <2>4. \A x : Shows(x)' =>
          x \in cursor'.where /\ \E q \in T : Visited(own, q)' /\ ReadFrom(T, own, q, x)'
    BY <2>2, <1>2
  <2>5. \A q \in T : \A x : Visited(own, q)' /\ Past(q, x)' /\ x \in cursor'.where => Shows(x)'
    BY <2>2, <1>1, <1>3
  <2> QED BY <2>1, <2>3, <2>4, <2>5 DEF ShownSoFar
<1>4. CASE c \in cursor.where
  <2> DEFINE n == Len(shown)
  <2>1. c \in LeafCell /\ shown' = Append(shown, c)
    BY <1>1, <1>4 DEF Show
  <2>2. n \in Nat
    BY LenProperties
  <2>3. /\ shown' \in Seq(LeafCell) /\ Len(shown') = n + 1
        /\ \A i \in 1 .. n : shown'[i] = shown[i]
        /\ shown'[n + 1] = c
    BY <2>1, AppendProperties
  <2>4. \A i \in 1 .. n : Shows(shown[i])
    BY DEF Shows
  <2> HIDE DEF n
  <2>5. /\ \A i \in 1 .. n + 1 : i \in 1 .. n \/ i = n + 1
        /\ \A i, j \in 1 .. n + 1 : i < j => i \in 1 .. n
        /\ n + 1 \in 1 .. n + 1 /\ 1 .. n \subseteq 1 .. n + 1
    BY <2>2
  <2>6. ScanAscends'
    <3> SUFFICES ASSUME NEW i \in 1 .. n + 1, NEW j \in 1 .. n + 1, i < j
                 PROVE  shown'[i].key < shown'[j].key
      BY <2>3 DEF ScanAscends
    <3>1. i \in 1 .. n /\ shown'[i] = shown[i]
      BY <2>3, <2>5
    <3>2. CASE j \in 1 .. n
      BY <3>1, <3>2, <2>3, <1>1 DEF ScanAscends, n
    <3>3. CASE j = n + 1
      <4>1. shown[i].key < c.key
        BY <3>1, <2>1, <2>4, <1>2
      <4> QED BY <4>1, <3>1, <3>3, <2>3
    <3> QED BY <3>2, <3>3, <2>5
  <2>7. Visited(own, r)'
    BY DEF Visited
  <2>8. \A x : Shows(x)' <=> Shows(x) \/ x = c
    <3>1. \A x : Shows(x)' <=> \E i \in 1 .. n + 1 : shown'[i] = x
      BY <2>3 DEF Shows
    <3>2. \A x : Shows(x) <=> \E i \in 1 .. n : shown[i] = x
      BY DEF Shows, n
    <3> QED BY <3>1, <3>2, <2>3, <2>5
  <2>9. \A x : Shows(x)' =>
          x \in cursor'.where /\ \E q \in T : Visited(own, q)' /\ ReadFrom(T, own, q, x)'
    <3>1. c \in cursor'.where /\ \E q \in T : Visited(own, q)' /\ ReadFrom(T, own, q, c)'
      BY <2>1, <2>7, <1>4
    <3> QED BY <3>1, <2>8, <1>2
  <2>10. \A q \in T : \A x : Visited(own, q)' /\ Past(q, x)' /\ x \in cursor'.where => Shows(x)'
    BY <2>8, <1>1
  <2> QED BY <2>3, <2>6, <2>9, <2>10 DEF ShownSoFar
<1> QED BY <1>3, <1>4
\* What is known where a scan is at a leaf.
LEMMA ScanLeaf ==
  ASSUME IInv, ScanInv, ~ cursor.done, mem[cursor.page].type = "leaf"
  PROVE  /\ cursor # NoCursor /\ ScanTypeOK /\ Settled
         /\ cursor.cell \in 0 .. LeafMax /\ Len(mem[cursor.page].cells) \in 0 .. LeafMax
         /\ \E T, own, h :
              /\ ScanTree(T, own, h) /\ ScanAt(T, own) /\ ShownSoFar(T, own)
              /\ SearchTree(mem, numPages, T, own, h) /\ cursor.page \in T
<1>1. cursor # NoCursor /\ ScanTypeOK
  BY DEF NoCursor, ScanInv
<1>2. PICK T, own, h : /\ ScanTree(T, own, h) /\ ScanAt(T, own)
                       /\ SearchTree(mem, numPages, T, own, h)
  BY <1>1, ScanPage
<1>3. cursor.page \in T /\ ShownSoFar(T, own)
  BY <1>2 DEF ScanAt
<1>4. Len(mem[cursor.page].cells) \in 0 .. LeafMax
  <2>1. mem[cursor.page] \in LeafNode \cup InternalNode
    BY <1>1, ScanPage
  <2>2. mem[cursor.page] \in LeafNode
    BY <2>1 DEF InternalNode, Internal
  <2> QED BY <2>2, LenProperties DEF LeafNode, Leaf
<1>5. cursor.cell \in 0 .. LeafMax
  BY <1>1 DEF ScanTypeOK
<1> QED BY <1>1, <1>2, <1>3, <1>4, <1>5, ScanPage

LEMMA ScanRowScans ==
  ASSUME IInv, ScanInv, ScanRow
  PROVE  ScanInv'
<1>0. PICK p, k, c : p = cursor.page /\ k = cursor.cell + 1 /\ c = mem[p].cells[k]
  OBVIOUS
<1>1. /\ ~ cursor.done /\ mem[p].type = "leaf" /\ cursor.cell < Len(mem[p].cells)
      /\ Show(c) /\ cursor' = [cursor EXCEPT !.cell = @ + 1]
      /\ UNCHANGED <<vars, first, firstOnDisk>> /\ mem' = mem /\ first' = first
  BY <1>0 DEF ScanRow, Here, vars, pager
<1>2. PICK T, own, h : /\ ScanTree(T, own, h) /\ ScanAt(T, own) /\ ShownSoFar(T, own)
                       /\ SearchTree(mem, numPages, T, own, h) /\ p \in T
  BY <1>0, <1>1, ScanLeaf
<1>3. /\ cursor # NoCursor /\ ScanTypeOK /\ Settled
      /\ cursor.cell \in 0 .. LeafMax /\ Len(mem[p].cells) \in 0 .. LeafMax
  BY <1>0, <1>1, ScanLeaf
<1>4. /\ cursor'.page = p /\ cursor'.cell = k /\ cursor'.where = cursor.where
      /\ cursor'.done = FALSE
  BY <1>0, <1>1, <1>3 DEF ScanTypeOK
<1>5. /\ k \in 1 .. Len(mem[p].cells) /\ k \in 0 .. LeafMax /\ mem[p].cells # <<>>
      /\ \A j \in 1 .. Len(mem[p].cells) : /\ j <= cursor.cell <=> j < k
                                           /\ j <= k <=> j <= cursor.cell \/ j = k
  <2>1. k \in 1 .. Len(mem[p].cells) /\ k \in 0 .. LeafMax
    <3> DEFINE n == Len(mem[p].cells)
    <3>1. n \in Nat /\ n <= LeafMax /\ cursor.cell \in Nat /\ cursor.cell < n
      BY <1>1, <1>3
    <3> HIDE DEF n
    <3>2. k \in 1 .. n /\ k \in 0 .. LeafMax
      BY <3>1, <1>0, CapacityAssumption
    <3> QED BY <3>2 DEF n
  <2>2. \A j \in 1 .. Len(mem[p].cells) : /\ j <= cursor.cell <=> j < k
                                          /\ j <= k <=> j <= cursor.cell \/ j = k
    BY <1>0, <1>3
  <2>3. mem[p].cells # <<>>
    BY <2>1
  <2> QED BY <2>1, <2>2, <2>3
<1>6. /\ Filled(mem[p], own, p) /\ OldBytes(mem, T, own, first)
      /\ c \in LeafCell /\ c.key \in own[p]
  <2>1. Filled(mem[p], own, p)
    BY <1>1, <1>2 DEF SearchTree, PageOK
  <2>2. mem \in [NodePages -> Leaf \cup Internal] /\ p \in NodePages
    BY <1>2 DEF SearchTree, Typed
  <2>3. c \in LeafCell
    BY <2>2, <1>0, <1>1, <1>5, LeafRows
  <2> QED BY <2>1, <2>3, <1>0, <1>2, <1>5 DEF Filled, ScanTree
<1>7. ASSUME NEW q \in T, NEW x \in LeafCell, Visited(own, q), ReadFrom(T, own, q, x)
      PROVE  Visited(own, q)' /\ ReadFrom(T, own, q, x)' /\ x.key < c.key
  <2>1. Visited(own, q)'
    BY <1>0, <1>1, <1>4, <1>7 DEF Visited
  <2>2. CASE Past(q, x)
    <3>1. PICK j \in 1 .. Len(mem[q].cells) :
            x = mem[q].cells[j] /\ (q = p => j <= cursor.cell)
      BY <1>0, <2>2 DEF Past
    <3>2. Past(q, x)'
      BY <3>1, <1>1, <1>4, <1>5 DEF Past
    <3>3. x.key < c.key
      <4>1. CASE q = p
        <5>1. j \in 1 .. Len(mem[p].cells) /\ j < k /\ x = mem[p].cells[j]
          BY <3>1, <4>1, <1>5
        <5> QED BY <5>1, <1>0, <1>5, <1>6 DEF Filled, Ascends
      <4>2. CASE q # p
        <5>1. Before(own, q, p) /\ mem[q].type = "leaf"
          BY <4>2, <1>0, <1>7 DEF Visited
        <5>2. x.key \in own[q]
          BY <5>1, <1>2, <1>6, <1>7, ReadIsOwned
        <5> QED BY <5>1, <5>2, <1>6 DEF Before
      <4> QED BY <4>1, <4>2
    <3> QED BY <2>1, <3>2, <3>3 DEF ReadFrom
  <2>3. CASE ~ Past(q, x)
    <3>1. /\ mem[q].cells = <<>> /\ x = first[q] /\ q # p
          /\ \E r \in T : Before(own, r, q)
      BY <2>3, <1>5, <1>7 DEF ReadFrom
    <3>2. ReadFrom(T, own, q, x)'
      BY <3>1, <1>1, <1>4 DEF ReadFrom
    <3>3. Before(own, q, p) /\ mem[q].type = "leaf"
      BY <3>1, <1>0, <1>7 DEF Visited
    <3>4. x.key \in own[q]
      BY <3>3, <1>2, <1>6, <1>7, ReadIsOwned
    <3> QED BY <2>1, <3>2, <3>3, <3>4, <1>6 DEF Before
  <2> QED BY <2>2, <2>3
<1>8. ReadFrom(T, own, p, c)'
  BY <1>0, <1>1, <1>4, <1>5 DEF ReadFrom, Past
<1>9. ASSUME NEW q \in T, NEW x, Visited(own, q)', Past(q, x)'
      PROVE  x = c \/ (Visited(own, q) /\ Past(q, x))
  <2>1. Visited(own, q)
    BY <1>0, <1>1, <1>4, <1>9 DEF Visited
  <2>2. PICK j \in 1 .. Len(mem[q].cells) : x = mem[q].cells[j] /\ (q = p => j <= k)
    BY <1>1, <1>4, <1>9 DEF Past
  <2>3. (q = p /\ j = k) \/ (q = p => j <= cursor.cell)
    BY <2>2, <1>0, <1>5
  <2> QED BY <2>1, <2>2, <2>3, <1>0 DEF Past
<1>10. ShownSoFar(T, own)' /\ shown' \in Seq(LeafCell)
  <2>1. shown \in Seq(LeafCell) /\ cursor.where \in ScanWheres
    BY <1>2, <1>3 DEF ScanTypeOK, ScanAt
  <2> QED BY <2>1, <1>1, <1>2, <1>4, <1>7, <1>8, <1>9, ReadsOn
<1>11. ScanAt(T, own)'
  BY <1>1, <1>2, <1>4, <1>10 DEF ScanAt
<1>12. ScanTypeOK'
  <2>1. cursor' \in [page : PageNum, cell : 0 .. LeafMax, where : ScanWheres \cup {{}},
                     done : BOOLEAN]
    BY <1>0, <1>1, <1>3, <1>5 DEF ScanTypeOK
  <2> QED BY <2>1, <1>1, <1>3, <1>10 DEF ScanTypeOK
<1>13. cursor' # NoCursor
  BY <1>4 DEF NoCursor
<1> QED BY <1>1, <1>2, <1>3, <1>11, <1>12, <1>13, ScanGoesOn

LEMMA ScanOnScans ==
  ASSUME IInv, ScanInv, ScanOn
  PROVE  ScanInv'
<1>0. PICK p, r, c : p = cursor.page /\ r = mem[p].link /\ c = first[r]
  OBVIOUS
<1>1. /\ ~ cursor.done /\ mem[p].type = "leaf" /\ cursor.cell >= Len(mem[p].cells)
      /\ r # 0 /\ Show(c) /\ cursor' = [cursor EXCEPT !.page = r, !.cell = 1]
      /\ UNCHANGED <<vars, first, firstOnDisk>> /\ mem' = mem /\ first' = first
  BY <1>0 DEF ScanOn, ScanSpent, Here, vars, pager
<1>2. PICK T, own, h : /\ ScanTree(T, own, h) /\ ScanAt(T, own) /\ ShownSoFar(T, own)
                       /\ SearchTree(mem, numPages, T, own, h) /\ p \in T
  BY <1>0, <1>1, ScanLeaf
<1>3. /\ cursor # NoCursor /\ ScanTypeOK /\ Settled
      /\ cursor.cell \in 0 .. LeafMax /\ Len(mem[p].cells) \in 0 .. LeafMax
  BY <1>0, <1>1, ScanLeaf
<1>4. /\ r \in T /\ mem[r].type = "leaf" /\ Before(own, p, r) /\ r \in NodePages
      /\ \A q \in T : mem[q].type = "leaf" /\ Before(own, q, r) => q = p \/ Before(own, q, p)
  <2>1. T \subseteq NodePages
    BY <1>2 DEF SearchTree, Typed
  <2> QED BY <2>1, <1>0, <1>1, <1>2, NextLeafAdds
<1>5. /\ cursor'.page = r /\ cursor'.cell = 1 /\ cursor'.where = cursor.where
      /\ cursor'.done = FALSE
  BY <1>0, <1>1, <1>3 DEF ScanTypeOK
<1>6. \A q \in T : own[q] # {} /\ own[q] \subseteq Int
  BY <1>2 DEF SearchTree, PageOK, Typed
<1>7. ASSUME NEW q \in T, Visited(own, q) PROVE Before(own, q, r) /\ q # r
  <2>1. PICK y \in own[p] : y \in Int
    BY <1>2, <1>6
  <2>2. Before(own, q, r)
    <3>1. CASE q = p
      BY <3>1, <1>4
    <3>2. CASE Before(own, q, p)
      <4> SUFFICES ASSUME NEW x \in own[q], NEW z \in own[r] PROVE x < z
        BY DEF Before
      <4>1. x \in Int /\ z \in Int /\ x < y /\ y < z
        BY <2>1, <3>2, <1>4, <1>6 DEF Before
      <4> QED BY <4>1, <2>1
    <3> QED BY <3>1, <3>2, <1>0, <1>7 DEF Visited
  <2>3. PICK z \in own[r] : z \in Int /\ ~ (z < z)
    BY <1>4, <1>6
  <2> QED BY <2>2, <2>3 DEF Before
<1>8. BytesOf(mem, first) /\ OldBytes(mem, T, own, first)
  BY <1>2 DEF ScanInv, ScanTree
<1>9. c \in LeafCell => c.key \in own[r]
  BY <1>0, <1>4, <1>8, CellsDiffer DEF OldBytes
<1>10. mem[r].cells # <<>> => c = mem[r].cells[1] /\ 1 \in 1 .. Len(mem[r].cells)
  <2>1. mem \in [NodePages -> Leaf \cup Internal]
    BY ViewPages
  <2> QED BY <2>1, <1>0, <1>4, <1>8, LeafRows DEF BytesOf
<1>11. ASSUME NEW q \in T, NEW x \in LeafCell, Visited(own, q), ReadFrom(T, own, q, x)
       PROVE  /\ Visited(own, q)' /\ ReadFrom(T, own, q, x)'
              /\ c \in LeafCell => x.key < c.key
  <2>1. Before(own, q, r) /\ q # r /\ mem[q].type = "leaf"
    BY <1>7, <1>11 DEF Visited
  <2>2. Visited(own, q)'
    BY <2>1, <1>1, <1>5 DEF Visited
  <2>3. ReadFrom(T, own, q, x)'
    <3>1. CASE Past(q, x)
      <4>1. Past(q, x)'
        BY <3>1, <2>1, <1>1, <1>5 DEF Past
      <4> QED BY <4>1 DEF ReadFrom
    <3>2. CASE ~ Past(q, x)
      <4>1. mem[q].cells = <<>> /\ x = first[q] /\ \E s \in T : Before(own, s, q)
        BY <3>2, <1>11 DEF ReadFrom
      <4> QED BY <4>1, <2>1, <1>1, <1>5 DEF ReadFrom
    <3> QED BY <3>1, <3>2
  <2>4. x.key \in own[q]
    BY <2>1, <1>2, <1>8, <1>11, ReadIsOwned
  <2> QED BY <2>1, <2>2, <2>3, <2>4, <1>9 DEF Before
<1>12. ReadFrom(T, own, r, c)'
  <2>1. CASE mem[r].cells # <<>>
    <3>1. Past(r, c)'
      BY <2>1, <1>1, <1>5, <1>10 DEF Past
    <3> QED BY <3>1 DEF ReadFrom
  <2>2. CASE mem[r].cells = <<>>
    BY <2>2, <1>0, <1>1, <1>2, <1>4, <1>5 DEF ReadFrom
  <2> QED BY <2>1, <2>2
<1>13. ASSUME NEW q \in T, NEW x, Visited(own, q)', Past(q, x)'
       PROVE  x = c \/ (Visited(own, q) /\ Past(q, x))
  <2>1. PICK j \in 1 .. Len(mem[q].cells) : x = mem[q].cells[j] /\ (q = r => j <= 1)
    BY <1>1, <1>5, <1>13 DEF Past
  <2>2. mem[q].type = "leaf" /\ (q = r \/ Before(own, q, r))
    BY <1>1, <1>5, <1>13 DEF Visited
  <2>3. mem[q].cells \in Seq(LeafCell) /\ Len(mem[q].cells) \in Nat
    <3>1. mem \in [NodePages -> Leaf \cup Internal] /\ q \in NodePages
      BY <1>2 DEF SearchTree, Typed
    <3> QED BY <3>1, <2>2, LeafRows
  <2>4. CASE q = r
    <3>1. j = 1 /\ mem[r].cells # <<>>
      BY <2>1, <2>3, <2>4
    <3> QED BY <3>1, <2>1, <2>4, <1>10
  <2>5. CASE q # r
    <3>1. Visited(own, q)
      BY <2>2, <2>5, <1>0, <1>4 DEF Visited
    <3>2. q = p => j <= cursor.cell
      <4>1. j \in Nat /\ j <= Len(mem[q].cells)
        BY <2>3
      <4> QED BY <4>1, <2>3, <1>1, <1>3
    <3> QED BY <3>1, <3>2, <2>1, <1>0 DEF Past
  <2> QED BY <2>4, <2>5
<1>14. ShownSoFar(T, own)' /\ shown' \in Seq(LeafCell)
  <2>1. shown \in Seq(LeafCell) /\ cursor.where \in ScanWheres
    BY <1>2, <1>3 DEF ScanTypeOK, ScanAt
  <2> QED BY <2>1, <1>1, <1>2, <1>4, <1>5, <1>11, <1>12, <1>13, ReadsOn
<1>15. ScanAt(T, own)'
  BY <1>1, <1>2, <1>4, <1>5, <1>14 DEF ScanAt
<1>16. ScanTypeOK'
  <2>1. 1 \in 0 .. LeafMax /\ r \in PageNum
    BY <1>4, CapacityAssumption DEF NodePages
  <2>2. cursor' \in [page : PageNum, cell : 0 .. LeafMax, where : ScanWheres \cup {{}},
                     done : BOOLEAN]
    BY <2>1, <1>1, <1>3 DEF ScanTypeOK
  <2> QED BY <2>2, <1>1, <1>3, <1>14 DEF ScanTypeOK
<1>17. cursor' # NoCursor
  BY <1>5 DEF NoCursor
<1> QED BY <1>1, <1>2, <1>3, <1>15, <1>16, <1>17, ScanGoesOn

\* Every step of the system of statements and scans keeps the invariant.
LEMMA NextScans ==
  /\ IInv /\ IInv' /\ TreeInv /\ ScanInv
  /\ [ScanNext]_allVars /\ [Restart => ParentsSaved]_vars
  => ScanInv'
<1> SUFFICES ASSUME IInv, IInv', TreeInv, ScanInv, [ScanNext]_allVars,
                    [Restart => ParentsSaved]_vars
             PROVE  ScanInv'
  OBVIOUS
<1>1. CASE BeginScan
  BY <1>1, BeginScans
<1>2. CASE ScanDown
  BY <1>2, ScanDownScans
<1>3. CASE ScanRow
  BY <1>3, ScanRowScans
<1>4. CASE ScanOn
  BY <1>4, ScanOnScans
<1>5. CASE ScanEnd
  BY <1>5, ScanEndScans
<1>6. CASE TreeStep
  BY <1>6, StatementsScans
<1>7. CASE ScanRestart
  <2>1. Restart /\ vars' # vars
    <3>1. session' = session + 1 /\ session \in Nat
      BY <1>7 DEF ScanRestart, Restart, IInv, TypeOK
    <3>2. vars' = vars => session' = session
      BY DEF vars
    <3> QED BY <3>1, <3>2, <1>7 DEF ScanRestart
  <2>2. ParentsSaved
    BY <2>1
  <2> QED BY <2>2, <1>7, RestartScans
<1>8. CASE ScanCrash
  BY <1>8, CrashScans
<1>9. CASE UNCHANGED allVars
  <2>1. /\ mem' = mem /\ dirty' = dirty /\ numPages' = numPages /\ disk' = disk
        /\ filePages' = filePages /\ pc' = pc /\ stmt' = stmt /\ at' = at /\ sep' = sep
        /\ result' = result /\ first' = first /\ firstOnDisk' = firstOnDisk
        /\ cursor' = cursor /\ shown' = shown
    BY <1>9 DEF allVars, scanVars, vars, pager, control
  <2>2. View' = View
    BY <2>1 DEF View
  <2>3. \A T, own : ShownSoFar(T, own) => ShownSoFar(T, own)'
    <3>1. \A c : Shows(c)' <=> Shows(c)
      BY <2>1 DEF Shows
    <3>2. \A q, c : Past(q, c)' <=> Past(q, c)
      BY <2>1 DEF Past
    <3>3. \A T, own, q, c : ReadFrom(T, own, q, c)' <=> ReadFrom(T, own, q, c)
      BY <2>1, <3>2 DEF ReadFrom
    <3>4. \A own, q : Visited(own, q)' <=> Visited(own, q)
      BY <2>1 DEF Visited
    <3>5. ScanAscends' <=> ScanAscends
      BY <2>1 DEF ScanAscends
    <3> QED BY <2>1, <3>1, <3>2, <3>3, <3>4, <3>5 DEF ShownSoFar
  <2>4. \A T, own : ScanAt(T, own) => ScanAt(T, own)'
    BY <2>1, <2>3 DEF ScanAt
  <2>5. \A T, own, h : TreeAt(T, own, h) => TreeAt(T, own, h)'
    BY <2>1, <2>2 DEF TreeAt, Placed, Done
  <2>6. \A T, own, h : ScanTree(T, own, h) => ScanTree(T, own, h)'
    BY <2>1, <2>4, <2>5 DEF ScanTree
  <2>7. ScanTypeOK' /\ (cursor # NoCursor => Settled)'
    BY <2>1 DEF ScanInv, ScanTypeOK, Settled
  <2>8. (\E T, own, h : SearchTree(disk, filePages, T, own, h)
                        /\ OldBytes(disk, T, own, firstOnDisk))'
    BY <2>1 DEF ScanInv
  <2>9. BytesOf(mem, first)' /\ BytesOf(disk, firstOnDisk)'
    BY <2>1 DEF ScanInv
  <2> QED BY <2>1, <2>6, <2>7, <2>8, <2>9 DEF ScanInv
<1> QED BY <1>1, <1>2, <1>3, <1>4, <1>5, <1>6, <1>7, <1>8, <1>9 DEF ScanNext, ScanStep

LEMMA InitScanTree == ScanInit => Init
BY DEF ScanInit

LEMMA NextScanTree == [ScanNext]_allVars => [Next]_vars
BY DEF ScanNext, ScanStep, BeginScan, ScanDown, ScanRow, ScanOn, ScanEnd, TreeStep, ScanRestart,
       ScanCrash, Next, allVars

\* A system of statements and scans is one of statements, so that what holds of the tree
\* holds here.
LEMMA ScansHold ==
  ScanSpec /\ [][Restart => ParentsSaved]_vars => [](IInv /\ TreeInv /\ ScanInv)
<1>1. ScanSpec => Spec
  BY InitScanTree, NextScanTree, PTL DEF ScanSpec, Spec
<1> QED BY <1>1, InvariantHolds, TreeHolds, InitScans, NextScans, PTL DEF ScanSpec

\* The cursor of a scan and the rows it has shown are always of their types: the cell it
\* has come to is one that a leaf has room for.
THEOREM ScanTypesHold == ScanSpec /\ [][Restart => ParentsSaved]_vars => []ScanTypeOK
<1>1. ScanInv => ScanTypeOK
  BY DEF ScanInv
<1> QED BY <1>1, ScansHold, PTL

LEMMA ShownAscend == ASSUME IInv, ScanInv PROVE ScanAscends
<1>1. ScanTypeOK
  BY DEF ScanInv
<1>2. CASE shown = <<>>
  <2>1. 1 .. Len(shown) = {}
    BY <1>2
  <2> QED BY <2>1 DEF ScanAscends
<1>3. CASE shown # <<>>
  <2>1. cursor # NoCursor
    BY <1>3 DEF ScanInv
  <2>2. PICK T, own, h : ScanAt(T, own) /\ SearchTree(mem, numPages, T, own, h)
    BY <2>1, ScanPage
  <2>3. mem[cursor.page].type \in {"leaf", "internal"}
    BY <2>1, ScanPage, PageTypes
  <2> QED BY <2>2, <2>3, <1>3 DEF ScanAt, ShownSoFar
<1> QED BY <1>2, <1>3

\* Rows come out of a table scan in the order of their primary keys and no key comes twice,
\* with however many keys and pages and whatever statements came before.
THEOREM ScansAscendAlways == ScanSpec /\ [][Restart => ParentsSaved]_vars => []ScanAscends
<1>1. IInv /\ ScanInv => ScanAscends
  BY ShownAscend
<1> QED BY <1>1, ScansHold, PTL

\* A scan that has come to its end has come by all leaves.
LEMMA FinishedScan ==
  ASSUME IInv, ScanInv, ScanFinished
  PROVE  \E T, own, h :
           /\ SearchTree(mem, numPages, T, own, h) /\ ShownSoFar(T, own)
           /\ OldBytes(mem, T, own, first)
           /\ cursor.where \in ScanWheres /\ cursor.cell >= Len(mem[cursor.page].cells)
           /\ cursor.cell \in Nat
           /\ \A q \in T : mem[q].type = "leaf" => Visited(own, q)
<1>1. cursor.done /\ cursor # NoCursor
  BY DEF ScanFinished
<1>2. PICK T, own, h : /\ ScanTree(T, own, h) /\ ScanAt(T, own)
                       /\ SearchTree(mem, numPages, T, own, h)
  BY <1>1, ScanPage
<1>3. mem[cursor.page].type \in {"leaf", "internal"}
  BY <1>1, ScanPage, PageTypes
<1>4. /\ mem[cursor.page].type = "leaf" /\ mem[cursor.page].link = 0
      /\ cursor.cell >= Len(mem[cursor.page].cells) /\ cursor.page \in T
      /\ ShownSoFar(T, own) /\ cursor.where \in ScanWheres
  BY <1>1, <1>2, <1>3 DEF ScanAt
<1>5. \A q \in T : mem[q].type = "leaf" => Visited(own, q)
  BY <1>2, <1>4, LastLeafLast DEF Visited
<1>6. cursor.cell \in Nat
  BY CapacityAssumption DEF ScanInv, ScanTypeOK
<1> QED BY <1>2, <1>4, <1>5, <1>6 DEF ScanTree

LEMMA ScansComplete == ASSUME IInv, ScanInv PROVE ScanIsComplete
<1> SUFFICES ASSUME ScanFinished, NEW c \in LeafCells(mem), c \in cursor.where PROVE Shows(c)
  BY DEF ScanIsComplete, Shows
<1>1. PICK T, own, h :
        /\ SearchTree(mem, numPages, T, own, h) /\ ShownSoFar(T, own)
        /\ cursor.cell >= Len(mem[cursor.page].cells) /\ cursor.cell \in Nat
        /\ \A q \in T : mem[q].type = "leaf" => Visited(own, q)
  BY FinishedScan
<1>2. mem \in [NodePages -> Leaf \cup Internal]
  BY ViewPages
<1>3. PICK p \in NodePages : Holds(mem, p, c)
  BY <1>2, RowsOfPages
<1>4. PICK j \in 1 .. Len(mem[p].cells) : mem[p].cells[j] = c
  BY <1>3 DEF Holds
<1>5. mem[p].type = "leaf" /\ Len(mem[p].cells) \in Nat
  BY <1>2, <1>3, LeafRows DEF Holds
<1>6. p \in T
  <2>1. mem[p].cells # <<>>
    BY <1>4, <1>5
  <2> QED BY <2>1, <1>1, TreePages
<1>7. Past(p, c)
  <2>1. p = cursor.page => j <= cursor.cell
    BY <1>1, <1>4, <1>5
  <2> QED BY <2>1, <1>4 DEF Past
<1> QED BY <1>1, <1>5, <1>6, <1>7 DEF ShownSoFar

\* A table scan that has ended has shown each row of the table that its WHERE selects: no
\* leaf is skipped and no row within one.
THEOREM ScansAreComplete == ScanSpec /\ [][Restart => ParentsSaved]_vars => []ScanIsComplete
<1>1. IInv /\ ScanInv => ScanIsComplete
  BY ScansComplete
<1> QED BY <1>1, ScansHold, PTL

LEMMA OldRows == ASSUME IInv, ScanInv PROVE OldRowsAreOfEmptyLeaves
<1> SUFFICES ASSUME ScanFinished, NEW c, Shows(c), c \notin LeafCells(mem)
             PROVE  LET p == LeafFor(c.key)
                    IN  mem[p].cells = <<>> /\ p # FirstLeaf[RootPage] /\ first[p] = c
  BY DEF OldRowsAreOfEmptyLeaves, Shows
<1>1. PICK T, own, h :
        /\ SearchTree(mem, numPages, T, own, h) /\ ShownSoFar(T, own)
        /\ OldBytes(mem, T, own, first) /\ cursor.where \in ScanWheres
  BY FinishedScan
<1>2. mem \in [NodePages -> Leaf \cup Internal] /\ T \subseteq NodePages
  BY <1>1, TreePages
<1>3. c \in LeafCell
  BY <1>1, WheresAreCells DEF ShownSoFar
<1>4. PICK q \in T : mem[q].type = "leaf" /\ ReadFrom(T, own, q, c)
  BY <1>1 DEF ShownSoFar, Visited
<1>5. ~ Past(q, c)
  <2>1. Past(q, c) => Holds(mem, q, c)
    BY <1>4 DEF Past, Holds
  <2> QED BY <2>1, <1>2, <1>4, RowsOfPages
<1>6. mem[q].cells = <<>> /\ c = first[q] /\ \E p \in T : Before(own, p, q)
  BY <1>4, <1>5 DEF ReadFrom
<1>7. c.key \in own[q] /\ c.key \in Int
  BY <1>1, <1>3, <1>4, ReadIsOwned
<1>8. LeafFor(c.key) = q
  <2> DEFINE k == c.key
  <2>1. k \in own[q] /\ k \in Int
    BY <1>7
  <2> HIDE DEF k
  <2>2. LeafFor(k) \in T /\ mem[LeafFor(k)].type = "leaf" /\ k \in own[LeafFor(k)]
    BY <2>1, <1>1, LeafForOwns
  <2>3. h[LeafFor(k)] = 1 /\ h[q] = 1 /\ Disjoint(T, own, h)
    BY <2>2, <1>1, <1>4, TreePages DEF SearchTree
  <2>4. LeafFor(k) = q
    BY <2>1, <2>2, <2>3 DEF Disjoint
  <2> QED BY <2>4 DEF k
<1>9. q # FirstLeaf[RootPage]
  <2>1. PICK p \in T : Before(own, p, q)
    BY <1>6
  <2>2. RootPage \in T /\ own[RootPage] = Int /\ \A s \in T : own[s] # {} /\ own[s] \subseteq Int
    BY <1>1, TreePages
  <2>3. StartsWith(T, own, RootPage, FirstLeaf[RootPage])
    BY <2>2, <1>1, FirstLeafStarts
  <2>4. PICK x \in own[p], y \in own[q] : x \in Int /\ y \in Int /\ x < y /\ ~ (x < x)
    <3>1. PICK x \in own[p], y \in own[q] : x \in Int /\ y \in Int
      BY <2>2
    <3> QED BY <3>1, <2>1 DEF Before
  <2>5. ASSUME q = FirstLeaf[RootPage] PROVE FALSE
    <3>1. x \in own[q]
      BY <2>2, <2>3, <2>4, <2>5 DEF StartsWith
    <3> QED BY <3>1, <2>1, <2>4 DEF Before
  <2> QED BY <2>5
<1> QED BY <1>6, <1>8, <1>9

\* A deleted row that a table scan still shows is the one that was last in its leaf, which
\* is empty, is not the leftmost one and is where the key of the row leads: of a row that
\* was deleted from any other place no trace is seen.
THEOREM OldRowsAreThere == ScanSpec /\ [][Restart => ParentsSaved]_vars => []OldRowsAreOfEmptyLeaves
<1>1. IInv /\ ScanInv => OldRowsAreOfEmptyLeaves
  BY OldRows
<1> QED BY <1>1, ScansHold, PTL
=============================================================================
