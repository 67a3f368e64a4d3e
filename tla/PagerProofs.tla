----------------------------- MODULE PagerProofs -----------------------------
(***************************************************************************)
(* Proofs about module Pager, for any number of pages of any size.  The    *)
(* file stays a whole number of pages if every write stores a page or      *)
(* nothing, and then the pager implements PageFile.                        *)
(***************************************************************************)
EXTENDS Pager, TLAPS, SequenceTheorems

LEMMA MaxIs ==
  ASSUME NEW S \in SUBSET Int, NEW m \in S, \A x \in S : x <= m
  PROVE  Max(S) = m
<1>1. \A y \in S : m >= y
  OBVIOUS
<1>2. \A x \in S : (\A y \in S : x >= y) => x = m
  OBVIOUS
<1> QED BY <1>1, <1>2 DEF Max

LEMMA MaxOfTwo ==
  ASSUME NEW a \in Int, NEW b \in Int
  PROVE  Max({a, b}) = IF a >= b THEN a ELSE b
<1>1. CASE a >= b
  BY <1>1, MaxIs
<1>2. CASE a < b
  BY <1>2, MaxIs
<1> QED BY <1>1, <1>2

\* Where pages begin and end.
LEMMA Extents ==
  ASSUME NEW size \in Nat \ {0}, NEW p \in Nat
  PROVE  /\ p * size \in Nat
         /\ (p + 1) * size = p * size + size
         /\ (p * size) \div size = p
         /\ (p * size + size - 1) \div size = p
OBVIOUS

LEMMA ExtentsOrdered ==
  ASSUME NEW size \in Nat \ {0}, NEW p \in Nat, NEW q \in Nat, p <= q
  PROVE  p * size <= q * size
OBVIOUS

LEMMA PagesAreNumbers == \A p \in PageNum : p \in Nat /\ p < MaxPages /\ p + 1 <= MaxPages
BY SizesAssumption DEF PageNum

\* A page read from the file is a page.
LEMMA StoredIsPage ==
  ASSUME NEW blocks \in Seq(Blocks), NEW p \in Nat
  PROVE  Stored(blocks, p) \in Page
<1> DEFINE from == p * PageSize
<1>1. from \in Nat
  BY SizesAssumption, Extents
<1> HIDE DEF from
<1>2. ASSUME NEW i \in 1 .. PageSize, from + i <= Len(blocks)
      PROVE  blocks[from + i] \in Blocks
  <2>1. from + i \in 1 .. Len(blocks)
    BY <1>1, <1>2, LenProperties
  <2> QED BY <2>1, ElementOfSeq
<1> QED BY <1>2, BlocksAssumption DEF Stored, Page, from

LEMMA ZeroIsPage == ZeroPage \in Page
BY BlocksAssumption DEF ZeroPage, Page

LEMMA FetchedIsPage == ASSUME file \in Seq(Blocks), NEW p \in Nat PROVE Fetched(p) \in Page
BY StoredIsPage, ZeroIsPage DEF Fetched

\* A page is not the mark of a page that is not cached.
LEMMA PagesAreNotNoPage == NoPage \notin Page
<1>1. DOMAIN NoPage = {}
  BY DEF NoPage
<1>2. \A page \in Page : 1 \in DOMAIN page
  BY SizesAssumption DEF Page
<1> QED BY <1>1, <1>2

\* Writing a whole page: the file reaches to the end of that page at least, the
\* page is stored, and every other page reads as before.
LEMMA WholeWrite ==
  ASSUME NEW blocks \in Seq(Blocks), NEW n \in Nat, Len(blocks) = n * PageSize,
         NEW p \in Nat, NEW page \in Page
  PROVE  LET new == Overwritten(blocks, p, page, PageSize)
         IN  /\ new \in Seq(Blocks)
             /\ Len(new) = (IF n > p THEN n ELSE p + 1) * PageSize
             /\ Stored(new, p) = page
             /\ \A q \in Nat \ {p} : Stored(new, q) = Stored(blocks, q)
<1> DEFINE from == p * PageSize
           top  == from + PageSize
           size == Max({Len(blocks), top})
           new  == Overwritten(blocks, p, page, PageSize)
<1>1. /\ PageSize \in Nat /\ PageSize > 0 /\ from \in Nat /\ top \in Nat
      /\ Len(blocks) \in Nat /\ top = (p + 1) * PageSize
  BY SizesAssumption, Extents, LenProperties
<1>2. size = (IF n > p THEN n ELSE p + 1) * PageSize
  <2>1. size = IF Len(blocks) >= top THEN Len(blocks) ELSE top
    BY <1>1, MaxOfTwo
  <2>2. CASE n > p
    <3>1. (p + 1) * PageSize <= n * PageSize
      BY <2>2, ExtentsOrdered, SizesAssumption
    <3> QED BY <3>1, <2>1, <2>2, <1>1
  <2>3. CASE n <= p
    <3>1. n * PageSize <= p * PageSize
      BY <2>3, ExtentsOrdered, SizesAssumption
    <3>2. ~ (Len(blocks) >= top)
      BY <3>1, <1>1
    <3> QED BY <3>2, <2>1, <2>3, <1>1
  <2> QED BY <2>2, <2>3
<1>3. size \in Nat /\ top <= size /\ Len(blocks) <= size
  <2>1. size = IF Len(blocks) >= top THEN Len(blocks) ELSE top
    BY <1>1, MaxOfTwo
  <2> QED BY <2>1, <1>1
<1>4. new = [i \in 1 .. size |->
               IF i \in from + 1 .. top THEN page[i - from]
               ELSE IF i <= Len(blocks) THEN blocks[i] ELSE 0]
  BY SizesAssumption DEF Overwritten
<1> HIDE DEF from, top, size, new
<1>5. ASSUME NEW i \in 1 .. size
      PROVE  new[i] \in Blocks
  <2>1. CASE i \in from + 1 .. top
    <3>1. i - from \in 1 .. PageSize
      BY <2>1, <1>1 DEF top
    <3> QED BY <3>1, <2>1, <1>4 DEF Page
  <2>2. CASE i \notin from + 1 .. top /\ i <= Len(blocks)
    <3>1. i \in 1 .. Len(blocks)
      BY <2>2, <1>1, <1>3
    <3> QED BY <3>1, <2>2, <1>4, ElementOfSeq
  <2>3. CASE i \notin from + 1 .. top /\ ~ (i <= Len(blocks))
    BY <2>3, <1>4, BlocksAssumption
  <2> QED BY <2>1, <2>2, <2>3
<1>6. new \in Seq(Blocks) /\ Len(new) = size
  <2>1. new \in [1 .. size -> Blocks]
    BY <1>4, <1>5
  <2>2. new \in Seq(Blocks)
    BY <2>1, <1>3, SeqDef
  <2>3. DOMAIN new = 1 .. size
    BY <2>1
  <2> QED BY <2>2, <2>3, <1>3, LenProperties
<1>7. Stored(new, p) = page
  <2>1. ASSUME NEW i \in 1 .. PageSize
        PROVE  from + i <= Len(new) /\ new[from + i] = page[i]
    <3>1. from + i \in from + 1 .. top /\ from + i \in 1 .. size /\ (from + i) - from = i
      BY <1>1, <1>3 DEF top
    <3> QED BY <3>1, <1>3, <1>4, <1>6
  <2>2. Stored(new, p) = [i \in 1 .. PageSize |-> page[i]]
    BY <2>1 DEF Stored, from
  <2> QED BY <2>2 DEF Page
<1>8. ASSUME NEW q \in Nat \ {p}
      PROVE  Stored(new, q) = Stored(blocks, q)
  <2> DEFINE other == q * PageSize
  <2>1. other \in Nat /\ (other + PageSize <= from \/ top <= other)
    <3>1. CASE q < p
      <4>1. (q + 1) * PageSize <= p * PageSize /\ (q + 1) * PageSize = other + PageSize
        BY <3>1, SizesAssumption, ExtentsOrdered, Extents
      <4> QED BY <4>1, SizesAssumption, Extents DEF from
    <3>2. CASE p < q
      <4>1. (p + 1) * PageSize <= q * PageSize
        BY <3>2, SizesAssumption, ExtentsOrdered
      <4> QED BY <4>1, <1>1, SizesAssumption, Extents
    <3> QED BY <3>1, <3>2
  <2>2. Stored(new, q) =
          [i \in 1 .. PageSize |-> IF other + i <= Len(new) THEN new[other + i] ELSE 0]
    BY DEF Stored
  <2>3. Stored(blocks, q) =
          [i \in 1 .. PageSize |-> IF other + i <= Len(blocks) THEN blocks[other + i] ELSE 0]
    BY DEF Stored
  <2> HIDE DEF other
  <2>4. ASSUME NEW i \in 1 .. PageSize
        PROVE  (IF other + i <= Len(new) THEN new[other + i] ELSE 0)
                 = (IF other + i <= Len(blocks) THEN blocks[other + i] ELSE 0)
    <3>1. other + i \notin from + 1 .. top
      BY <2>1, <1>1
    <3>2. CASE other + i <= size
      <4>1. other + i \in 1 .. size
        BY <3>2, <2>1, <1>1, <1>3
      <4> QED BY <4>1, <3>1, <3>2, <1>4, <1>6
    <3>3. CASE ~ (other + i <= size)
      BY <3>3, <2>1, <1>1, <1>3, <1>6
    <3> QED BY <3>2, <3>3
  <2> QED BY <2>2, <2>3, <2>4
<1> QED BY <1>2, <1>6, <1>7, <1>8 DEF new

\* A write that failed has changed nothing.
LEMMA NoWrite ==
  ASSUME NEW blocks \in Seq(Blocks), NEW p \in Nat, NEW page
  PROVE  Overwritten(blocks, p, page, 0) = blocks
<1> DEFINE from == p * PageSize
           new  == Overwritten(blocks, p, page, 0)
<1>1. from \in Nat /\ Len(blocks) \in Nat
  BY SizesAssumption, Extents, LenProperties
<1>2. new = [i \in 1 .. Len(blocks) |->
               IF i \in from + 1 .. from + 0 THEN page[i - from]
               ELSE IF i <= Len(blocks) THEN blocks[i] ELSE 0]
  BY DEF Overwritten
<1> HIDE DEF from, new
<1>3. new = [i \in 1 .. Len(blocks) |-> blocks[i]]
  <2>1. \A i \in 1 .. Len(blocks) : i \notin from + 1 .. from + 0 /\ i <= Len(blocks)
    BY <1>1
  <2> QED BY <2>1, <1>2
<1>4. blocks = [i \in 1 .. Len(blocks) |-> blocks[i]]
  BY LenProperties
<1> QED BY <1>3, <1>4 DEF new

-----------------------------------------------------------------------------
WholeWrites == Outcomes \subseteq {0, PageSize}

LEMMA OnePage == 0 \in PageNum /\ MaxPages \in Nat /\ MaxPages >= 1 /\ PageSize \in Nat
                 /\ PageSize >= 1
BY SizesAssumption DEF PageNum

LEMMA InitPager == Init => PagerInv
<1> SUFFICES ASSUME Init PROVE PagerInv
  OBVIOUS
<1>1. 0 \in 0 .. MaxPages /\ 0 * PageSize = 0 /\ 0 \in 0 .. MaxPages * PageSize
  <2>1. MaxPages * PageSize \in Nat
    BY OnePage, Extents, SizesAssumption
  <2> QED BY <2>1, OnePage
<1>2. <<>> \in Seq(Blocks) /\ Len(<<>>) = 0
  OBVIOUS
<1> QED BY <1>1, <1>2 DEF Init, PagerInv, TypeOK, NextPageIsFresh

\* The file of a state in which the invariant holds.
LEMMA FileFacts ==
  ASSUME PagerInv
  PROVE  \E n \in 0 .. MaxPages :
           /\ Len(file) = n * PageSize /\ n \in Nat
           /\ Len(file) \div PageSize = n
           /\ (Len(file) + PageSize - 1) \div PageSize = n
           /\ Len(file) \in 0 .. MaxPages * PageSize
<1>1. PICK n \in 0 .. MaxPages : Len(file) = n * PageSize
  BY DEF PagerInv
<1>2. n \in Nat /\ n <= MaxPages
  BY OnePage
<1>3. n * PageSize <= MaxPages * PageSize /\ n * PageSize \in Nat /\ MaxPages * PageSize \in Nat
  BY <1>2, OnePage, SizesAssumption, ExtentsOrdered, Extents
<1>4. Len(file) \in 0 .. MaxPages * PageSize
  BY <1>1, <1>3
<1> QED BY <1>1, <1>2, <1>4, Extents, SizesAssumption

\* Once a page is past the file's end, so is every later one.
LEMMA PastTheEnd ==
  ASSUME NEW n \in Nat, NEW p \in Nat, NEW q \in Nat, n <= p, p <= q
  PROVE  q * PageSize >= n * PageSize
<1>1. n * PageSize <= q * PageSize /\ n * PageSize \in Nat /\ q * PageSize \in Nat
  BY SizesAssumption, ExtentsOrdered, Extents
<1> QED BY <1>1

LEMMA OpenInv == PagerInv /\ Open => PagerInv'
<1> SUFFICES ASSUME PagerInv, Open PROVE PagerInv'
  OBVIOUS
<1>1. PICK n \in 0 .. MaxPages :
        /\ Len(file) = n * PageSize /\ n \in Nat
        /\ Len(file) \div PageSize = n
        /\ Len(file) \in 0 .. MaxPages * PageSize
  BY FileFacts
<1> DEFINE pages == IF n >= 1 THEN n ELSE 1
<1>2. /\ phase' = "open" /\ length' = Len(file) /\ dirty' = {} /\ next' = 0
      /\ file' = file
      /\ cache' = [p \in PageNum |-> IF p = 0 THEN Stored(file, 0) ELSE NoPage]
      /\ numPages' = pages
  <2>1. Max({n, 1}) = pages
    BY <1>1, MaxOfTwo
  <2> QED BY <2>1, <1>1 DEF Open
<1>3. pages \in 0 .. MaxPages /\ pages >= 1 /\ pages \in Nat /\ n <= pages
  BY <1>1, OnePage
<1> HIDE DEF pages
<1>4. file \in Seq(Blocks) /\ Stored(file, 0) \in Page
  BY StoredIsPage DEF PagerInv, TypeOK
<1>5. TypeOK'
  <2>1. cache' \in [PageNum -> Page \cup {NoPage}]
    BY <1>2, <1>4
  <2>2. 0 \in 0 .. MaxPages
    BY OnePage
  <2> QED BY <2>1, <2>2, <1>1, <1>2, <1>3, <1>4 DEF TypeOK
<1>6. NextPageIsFresh'
  <2>1. ASSUME NEW p \in PageNum, p >= pages
        PROVE  cache'[p] = NoPage /\ p * PageSize >= Len(file)
    <3>1. p \in Nat /\ p # 0
      BY <2>1, <1>3, PagesAreNumbers
    <3>2. p * PageSize >= n * PageSize
      BY <3>1, <2>1, <1>1, <1>3, PastTheEnd
    <3> QED BY <3>1, <3>2, <1>1, <1>2
  <2> QED BY <2>1, <1>2 DEF NextPageIsFresh
<1> QED BY <1>1, <1>2, <1>3, <1>5, <1>6 DEF PagerInv

LEMMA GetInv == ASSUME NEW p \in PageNum PROVE PagerInv /\ Get(p) => PagerInv'
<1> SUFFICES ASSUME PagerInv, Get(p) PROVE PagerInv'
  OBVIOUS
<1>1. /\ phase = "open" /\ p < numPages
      /\ cache' = [cache EXCEPT ![p] = Fetched(p)]
      /\ UNCHANGED <<file, length, dirty, numPages, phase, next>>
  BY DEF Get
<1>2. Fetched(p) \in Page /\ Fetched(p) # NoPage
  BY FetchedIsPage, PagesAreNumbers, PagesAreNotNoPage DEF PagerInv, TypeOK
<1>3. cache \in [PageNum -> Page \cup {NoPage}] /\ numPages \in 0 .. MaxPages
  BY DEF PagerInv, TypeOK
<1>4. TypeOK'
  BY <1>1, <1>2 DEF PagerInv, TypeOK
<1>5. NextPageIsFresh'
  <2>1. \A q \in PageNum : q >= numPages => q # p
    BY <1>1, <1>3, PagesAreNumbers, OnePage
  <2> QED BY <2>1, <1>1, <1>3 DEF NextPageIsFresh, PagerInv
<1>6. \A q \in dirty : cache[q] # NoPage => cache'[q] # NoPage
  BY <1>1, <1>2, <1>3 DEF PagerInv, TypeOK
<1> QED BY <1>1, <1>4, <1>5, <1>6 DEF PagerInv

LEMMA AllocateInv == PagerInv /\ Allocate => PagerInv'
<1> SUFFICES ASSUME PagerInv, Allocate PROVE PagerInv'
  OBVIOUS
<1>1. /\ phase = "open" /\ numPages < MaxPages
      /\ cache' = [cache EXCEPT ![numPages] = Fetched(numPages)]
      /\ numPages' = numPages + 1
      /\ UNCHANGED <<file, length, dirty, phase, next>>
  BY DEF Allocate
<1>2. /\ numPages \in Nat /\ numPages \in PageNum /\ numPages + 1 \in 0 .. MaxPages
      /\ numPages + 1 >= 1
  BY <1>1, OnePage DEF PagerInv, TypeOK, PageNum
<1>3. Fetched(numPages) \in Page /\ Fetched(numPages) # NoPage
  BY <1>2, FetchedIsPage, PagesAreNotNoPage DEF PagerInv, TypeOK
<1>4. cache \in [PageNum -> Page \cup {NoPage}]
  BY DEF PagerInv, TypeOK
<1>5. TypeOK'
  BY <1>1, <1>2, <1>3 DEF PagerInv, TypeOK
<1>6. NextPageIsFresh'
  <2>1. \A q \in PageNum : q >= numPages + 1 => q # numPages /\ q >= numPages
    BY <1>2, PagesAreNumbers
  <2> QED BY <2>1, <1>1, <1>4 DEF NextPageIsFresh, PagerInv
<1>7. \A q \in dirty : /\ cache[q] # NoPage => cache'[q] # NoPage
                       /\ q < numPages => q < numPages + 1
  BY <1>1, <1>2, <1>3, <1>4, PagesAreNumbers DEF PagerInv, TypeOK
<1> QED BY <1>1, <1>2, <1>5, <1>6, <1>7 DEF PagerInv

LEMMA ChangeInv ==
  ASSUME NEW p \in PageNum, NEW block \in Blocks, NEW mark \in BOOLEAN
  PROVE  PagerInv /\ Change(p, block, mark) => PagerInv'
<1> SUFFICES ASSUME PagerInv, Change(p, block, mark) PROVE PagerInv'
  OBVIOUS
<1> DEFINE page == [i \in 1 .. PageSize |-> block]
<1>1. /\ phase = "open" /\ cache[p] # NoPage
      /\ cache' = [cache EXCEPT ![p] = page]
      /\ dirty' \subseteq dirty \cup {p}
      /\ UNCHANGED <<file, length, numPages, phase, next>>
  BY DEF Change
<1>2. page \in Page
  BY DEF Page
<1> HIDE DEF page
<1>3. page # NoPage
  BY <1>2, PagesAreNotNoPage
<1>4. /\ cache \in [PageNum -> Page \cup {NoPage}] /\ numPages \in 0 .. MaxPages
      /\ dirty \subseteq PageNum
  BY DEF PagerInv, TypeOK
<1>5. p < numPages
  <2>1. ~ (p >= numPages)
    BY <1>1 DEF PagerInv, NextPageIsFresh
  <2> QED BY <2>1, <1>4, PagesAreNumbers, OnePage
<1>6. TypeOK'
  BY <1>1, <1>2, <1>4 DEF PagerInv, TypeOK
<1>7. NextPageIsFresh'
  <2>1. \A q \in PageNum : q >= numPages => q # p
    BY <1>4, <1>5, PagesAreNumbers, OnePage
  <2> QED BY <2>1, <1>1, <1>4 DEF NextPageIsFresh, PagerInv
<1>8. \A q \in dirty' : q < numPages /\ (q >= next => cache'[q] # NoPage)
  <2>1. \A q \in dirty : q < numPages /\ (q >= next => cache[q] # NoPage)
    BY DEF PagerInv
  <2> QED BY <2>1, <1>1, <1>3, <1>4, <1>5
<1> QED BY <1>1, <1>6, <1>7, <1>8 DEF PagerInv

LEMMA BeginCloseInv == PagerInv /\ BeginClose => PagerInv'
<1> SUFFICES ASSUME PagerInv, BeginClose PROVE PagerInv'
  OBVIOUS
<1>1. /\ phase = "open" /\ phase' = "closing" /\ next' = 0 /\ next = 0
      /\ UNCHANGED <<file, length, cache, dirty, numPages>>
  BY DEF BeginClose, PagerInv
<1>2. TypeOK' /\ NextPageIsFresh'
  BY <1>1, OnePage DEF PagerInv, TypeOK, NextPageIsFresh
<1> QED BY <1>1, <1>2 DEF PagerInv

\* One turn of pager_close: the file stays whole pages.
LEMMA FlushFile ==
  ASSUME WholeWrites, PagerInv, Flush
  PROVE  /\ file' \in Seq(Blocks)
         /\ \E n \in 0 .. MaxPages : Len(file') = n * PageSize
<1>1. PICK n \in 0 .. MaxPages : Len(file) = n * PageSize /\ n \in Nat
  BY FileFacts
<1>2. file \in Seq(Blocks) /\ next \in Nat /\ next < MaxPages
  BY OnePage DEF PagerInv, TypeOK, Flush
<1>3. CASE file' = file
  BY <1>1, <1>2, <1>3
<1>4. CASE next \in dirty /\ file' = Overwritten(file, next, cache[next], 0)
  <2>1. file' = file
    BY <1>2, <1>4, NoWrite
  <2> QED BY <2>1, <1>3
<1>5. CASE next \in dirty /\ file' = Overwritten(file, next, cache[next], PageSize)
  <2>1. cache[next] \in Page
    BY <1>2, <1>5 DEF PagerInv, TypeOK
  <2> DEFINE m == IF n > next THEN n ELSE next + 1
  <2>2. file' \in Seq(Blocks) /\ Len(file') = m * PageSize
    BY <1>1, <1>2, <1>5, <2>1, WholeWrite
  <2>3. m \in 0 .. MaxPages
    BY <1>1, <1>2, OnePage
  <2> HIDE DEF m
  <2> QED BY <2>2, <2>3
<1> QED BY <1>3, <1>4, <1>5 DEF WholeWrites, Flush, Write

LEMMA FlushInv == WholeWrites /\ PagerInv /\ Flush => PagerInv'
<1> SUFFICES ASSUME WholeWrites, PagerInv, Flush PROVE PagerInv'
  OBVIOUS
<1>1. /\ phase = "closing" /\ next < MaxPages
      /\ cache' = [cache EXCEPT ![next] = NoPage] /\ next' = next + 1
      /\ UNCHANGED <<length, dirty, numPages, phase>>
  BY DEF Flush
<1>3. file' \in Seq(Blocks) /\ \E n \in 0 .. MaxPages : Len(file') = n * PageSize
  BY FlushFile
<1>4. next \in Nat /\ next + 1 \in 0 .. MaxPages
  BY <1>1, OnePage DEF PagerInv, TypeOK
<1>5. TypeOK'
  BY <1>1, <1>3, <1>4 DEF PagerInv, TypeOK
<1>6. \A p \in dirty : p >= next + 1 => p >= next /\ p # next
  BY <1>4, PagesAreNumbers DEF PagerInv, TypeOK
<1>7. \A p \in dirty : p < numPages /\ (p >= next + 1 => cache'[p] # NoPage)
  BY <1>1, <1>6 DEF PagerInv, TypeOK
<1>8. NextPageIsFresh'
  BY <1>1 DEF NextPageIsFresh
<1> QED BY <1>1, <1>3, <1>5, <1>7, <1>8 DEF PagerInv

LEMMA GoneInv == PagerInv /\ Gone => PagerInv'
<1> SUFFICES ASSUME PagerInv, Gone PROVE PagerInv'
  OBVIOUS
<1>1. /\ phase' = "closed" /\ length' = 0 /\ dirty' = {} /\ numPages' = 0 /\ next' = 0
      /\ cache' = [p \in PageNum |-> NoPage] /\ file' = file
  BY DEF Gone
<1>2. 0 \in 0 .. MaxPages * PageSize /\ 0 \in 0 .. MaxPages
  <2>1. MaxPages * PageSize \in Nat
    BY OnePage, Extents, SizesAssumption
  <2> QED BY <2>1, OnePage
<1>3. TypeOK' /\ NextPageIsFresh'
  BY <1>1, <1>2 DEF PagerInv, TypeOK, NextPageIsFresh
<1> QED BY <1>1, <1>3 DEF PagerInv

LEMMA NextPagerInv == WholeWrites /\ PagerInv /\ [Next]_vars => PagerInv'
<1> SUFFICES ASSUME WholeWrites, PagerInv, [Next]_vars PROVE PagerInv'
  OBVIOUS
<1>1. CASE Open
  BY <1>1, OpenInv
<1>2. CASE \E p \in PageNum : Get(p)
  BY <1>2, GetInv
<1>3. CASE Allocate
  BY <1>3, AllocateInv
<1>4. CASE \E p \in PageNum, block \in Blocks, mark \in BOOLEAN : Change(p, block, mark)
  BY <1>4, ChangeInv
<1>5. CASE BeginClose
  BY <1>5, BeginCloseInv
<1>6. CASE Flush
  BY <1>6, FlushInv
<1>7. CASE Closed \/ Crash
  BY <1>7, GoneInv DEF Closed, Crash
<1>8. CASE UNCHANGED vars
  BY <1>8 DEF vars, PagerInv, TypeOK, NextPageIsFresh
<1> QED BY <1>1, <1>2, <1>3, <1>4, <1>5, <1>6, <1>7, <1>8 DEF Next

\* As long as no write stops in the middle of a page, the pager keeps its types
\* and never hands out a page that the file or the cache already holds, however
\* often the program is started, closed or killed.
THEOREM PagerInvHolds == WholeWrites => (Spec => []PagerInv)
<1> SUFFICES ASSUME WholeWrites PROVE Spec => []PagerInv
  OBVIOUS
<1>1. PagerInv /\ [Next]_vars => PagerInv'
  BY NextPagerInv
<1> QED BY <1>1, InitPager, PTL DEF Spec

\* pager_allocate_page hands out a page that neither the file nor the cache holds,
\* as long as no write stops in the middle of a page.
THEOREM AllocationIsFresh == WholeWrites => (Spec => []NextPageIsFresh)
<1> SUFFICES ASSUME WholeWrites PROVE Spec => []NextPageIsFresh
  OBVIOUS
<1>1. PagerInv => NextPageIsFresh
  BY DEF PagerInv
<1>2. Spec => []PagerInv
  BY PagerInvHolds
<1> QED BY <1>1, <1>2, PTL

-----------------------------------------------------------------------------
\* If every write stores the page or nothing, the pager implements PageFile: for any
\* number of pages of any size, the cache, the reads on demand and the writes of
\* pager_close, any of which may fail, with the process dying between any two of them,
\* are an array of pages that is saved at a stroke, or up to some page, but for the
\* pages whose own write failed.

\* The pages that a file of n pages is opened with.
LEMMA PagesOf ==
  ASSUME NEW blocks \in Seq(Blocks), NEW n \in Nat, Len(blocks) = n * PageSize
  PROVE  Max({Len(blocks) \div PageSize, 1}) = IF n >= 1 THEN n ELSE 1
<1>1. Len(blocks) \div PageSize = n
  BY SizesAssumption, Extents
<1>2. Max({n, 1}) = IF n >= 1 THEN n ELSE 1
  BY MaxOfTwo
<1> QED BY <1>1, <1>2

\* A page past the end of the file reads as zero.
LEMMA StoredPastTheEnd ==
  ASSUME NEW blocks \in Seq(Blocks), NEW n \in Nat, Len(blocks) = n * PageSize,
         NEW p \in Nat, p >= n
  PROVE  Stored(blocks, p) = ZeroPage
<1> DEFINE from == p * PageSize
           end  == Len(blocks)
<1>1. from >= end /\ from \in Nat /\ end \in Nat
  BY PastTheEnd, SizesAssumption, Extents, LenProperties
<1> HIDE DEF from, end
<1>2. \A i \in 1 .. PageSize : ~ (from + i <= end)
  BY <1>1
<1>3. Stored(blocks, p) = [i \in 1 .. PageSize |-> IF from + i <= end THEN blocks[from + i] ELSE 0]
  BY DEF Stored, from, end
<1> QED BY <1>2, <1>3 DEF ZeroPage

\* The length that was taken when the file was opened is right for every page.
LEMMA FetchedIsStored ==
  ASSUME PagerInv, phase = "open", NEW p \in PageNum
  PROVE  Fetched(p) = Stored(file, p)
<1>1. PICK n \in 0 .. MaxPages :
        /\ Len(file) = n * PageSize /\ n \in Nat
        /\ (Len(file) + PageSize - 1) \div PageSize = n
  BY FileFacts
<1>2. file \in Seq(Blocks) /\ length = Len(file) /\ p \in Nat
  BY PagesAreNumbers DEF PagerInv, TypeOK
<1>3. Fetched(p) = IF p < n THEN Stored(file, p) ELSE ZeroPage
  BY <1>1, <1>2 DEF Fetched
<1>4. CASE p < n
  BY <1>3, <1>4
<1>5. CASE p >= n
  BY <1>1, <1>2, <1>3, <1>5, StoredPastTheEnd
<1> QED BY <1>1, <1>2, <1>4, <1>5

\* What the callers see of a page is in the cache or in the file.
LEMMA ShownIs ==
  ASSUME PagerInv, phase = "open", NEW p \in PageNum
  PROVE  /\ Shown(p) = IF cache[p] = NoPage THEN Stored(file, p) ELSE cache[p]
         /\ Shown(p) \in Page
<1>1. Shown(p) = IF cache[p] = NoPage THEN Stored(file, p) ELSE cache[p]
  BY FetchedIsStored DEF Shown
<1>2. Stored(file, p) \in Page
  BY StoredIsPage, PagesAreNumbers DEF PagerInv, TypeOK
<1>3. cache[p] \in Page \cup {NoPage}
  BY DEF PagerInv, TypeOK
<1> QED BY <1>1, <1>2, <1>3

-----------------------------------------------------------------------------
LEMMA BeginCloseSaves == PagerInv /\ BeginClose => SaveInv'
<1> SUFFICES ASSUME PagerInv, BeginClose PROVE SaveInv'
  OBVIOUS
<1> DEFINE shown  == [p \in PageNum |-> Shown(p)]
           stored == [p \in PageNum |-> Stored(file, p)]
           count  == Max({Len(file) \div PageSize, 1})
<1>1. /\ phase = "open" /\ phase' = "closing" /\ next' = 0 /\ next = 0
      /\ exit' = [shown |-> shown, stored |-> stored, count |-> count, lost |-> {}]
      /\ UNCHANGED <<file, cache, dirty>>
  BY DEF BeginClose, PagerInv
<1>2. shown \in [PageNum -> Page]
  BY <1>1, ShownIs
<1>3. stored \in [PageNum -> Page]
  BY StoredIsPage, PagesAreNumbers DEF PagerInv, TypeOK
<1>4. count \in Nat
  <2>1. PICK n \in 0 .. MaxPages : Len(file) = n * PageSize /\ n \in Nat
    BY FileFacts
  <2>2. count = IF n >= 1 THEN n ELSE 1
    BY <2>1, PagesOf DEF PagerInv, TypeOK
  <2> QED BY <2>1, <2>2
<1>5. \A p \in dirty : cache[p] = shown[p]
  <2> TAKE p \in dirty
  <2>1. p \in PageNum /\ p >= next
    BY <1>1, PagesAreNumbers DEF PagerInv, TypeOK
  <2>2. cache[p] # NoPage
    BY <2>1 DEF PagerInv
  <2> QED BY <1>1, <2>1, <2>2, ShownIs
<1>6. SavedSoFar' = {}
  BY <1>1, PagesAreNumbers DEF SavedSoFar, PagerInv, TypeOK
<1>7. EndsSoFar' = {count} /\ FilePages' = count
  BY <1>1, <1>6 DEF EndsSoFar, FilePages
<1> HIDE DEF shown, count
<1>8. /\ exit'.shown = shown /\ exit'.stored = stored /\ exit'.count = count
      /\ exit'.lost = {}
      /\ exit' \in [shown : [PageNum -> Page], stored : [PageNum -> Page], count : Nat,
                   lost : SUBSET dirty]
      /\ \A p \in PageNum : Stored(file', p) = stored[p]
  BY <1>1, <1>2, <1>3, <1>4
<1> HIDE DEF stored
<1> QED BY <1>1, <1>2, <1>3, <1>4, <1>5, <1>6, <1>7, <1>8 DEF SaveInv

\* One turn of the loop saves the page it has come to, if that is dirty and its
\* write succeeds.
LEMMA FlushSaves == WholeWrites /\ PagerInv /\ SaveInv /\ Flush => SaveInv'
<1> SUFFICES ASSUME WholeWrites, PagerInv, SaveInv, Flush PROVE SaveInv'
  OBVIOUS
<1> DEFINE Exits == [shown : [PageNum -> Page], stored : [PageNum -> Page], count : Nat,
                     lost : SUBSET dirty]
<1>1. /\ phase = "closing" /\ phase' = "closing" /\ next' = next + 1
      /\ next \in Nat /\ next < MaxPages /\ next \in PageNum
      /\ cache' = [cache EXCEPT ![next] = NoPage]
      /\ UNCHANGED dirty
      /\ cache \in [PageNum -> Page \cup {NoPage}] /\ dirty \subseteq PageNum
      /\ file \in Seq(Blocks)
  BY OnePage DEF Flush, PagerInv, TypeOK, PageNum
<1>2. /\ exit \in Exits
      /\ exit.lost # {} => Outcomes # {PageSize}
      /\ \A p \in dirty : p >= next => cache[p] = exit.shown[p] /\ p \notin exit.lost
      /\ \A p \in PageNum :
           Stored(file, p) = IF p \in SavedSoFar THEN exit.shown[p] ELSE exit.stored[p]
      /\ FilePages \in EndsSoFar /\ \A end \in EndsSoFar : end <= FilePages
  BY <1>1 DEF SaveInv
<1>3. \A p \in dirty : p >= next + 1 => cache'[p] = exit.shown[p] /\ p \notin exit.lost
                                         /\ p # next
  <2>1. \A p \in dirty : p >= next + 1 => p >= next /\ p # next
    BY <1>1, PagesAreNumbers
  <2> QED BY <2>1, <1>1, <1>2
<1>4. \A p \in dirty : p < next + 1 <=> p < next \/ p = next
  BY <1>1, PagesAreNumbers
\* Nothing was written: the page was clean, or its write failed.
<1>5. ASSUME file' = file, exit' \in Exits, exit'.shown = exit.shown,
             exit'.stored = exit.stored, exit'.count = exit.count,
             exit'.lost = exit.lost \cup (dirty \cap {next}),
             exit'.lost # {} => Outcomes # {PageSize}
      PROVE  SaveInv'
  <2>1. SavedSoFar' = SavedSoFar
    <3>1. ASSUME NEW p \in dirty
          PROVE  p < next + 1 /\ p \notin exit'.lost <=> p < next /\ p \notin exit.lost
      <4>1. p \in Nat /\ (p < next + 1 <=> p < next \/ p = next)
        BY <1>1, <1>4, PagesAreNumbers
      <4>2. p \in exit'.lost <=> p \in exit.lost \/ p = next
        BY <1>5
      <4> QED BY <4>1, <4>2, <1>1
    <3> QED BY <3>1, <1>1 DEF SavedSoFar
  <2>2. EndsSoFar' = EndsSoFar /\ FilePages' = FilePages
    BY <2>1, <1>5 DEF EndsSoFar, FilePages
  <2>3. \A p \in dirty : p >= next + 1 => p \notin exit'.lost
    BY <1>3, <1>5
  <2>4. \A p \in PageNum : Stored(file', p) = Stored(file, p)
    BY <1>5
  <2> QED BY <2>1, <2>2, <2>3, <2>4, <1>1, <1>2, <1>3, <1>5 DEF SaveInv
<1>6. CASE next \notin dirty
  <2>1. file' = file /\ exit' = exit
    BY <1>6 DEF Flush
  <2>2. exit.lost \cup (dirty \cap {next}) = exit.lost
    BY <1>6
  <2> QED BY <2>1, <2>2, <1>2, <1>5
<1>7. CASE next \in dirty /\ 0 \in Outcomes /\ Write(0)
  <2>1. file' = file
    BY <1>1, <1>7, NoWrite DEF Write
  <2>2. exit' = [exit EXCEPT !.lost = @ \cup {next}]
    BY <1>7, OnePage DEF Write
  <2>3. /\ exit' \in Exits /\ exit'.shown = exit.shown /\ exit'.stored = exit.stored
        /\ exit'.count = exit.count /\ exit'.lost = exit.lost \cup {next}
    BY <2>2, <1>2, <1>7
  <2>4. Outcomes # {PageSize}
    BY <1>7, OnePage
  <2>5. dirty \cap {next} = {next}
    BY <1>7
  <2> QED BY <2>1, <2>3, <2>4, <2>5, <1>5
<1>8. CASE next \in dirty /\ Write(PageSize)
  <2>1. file' = Overwritten(file, next, cache[next], PageSize) /\ exit' = exit
    BY <1>8 DEF Write
  <2>2. cache[next] = exit.shown[next] /\ cache[next] \in Page /\ next \notin exit.lost
    BY <1>1, <1>2, <1>8
  <2>3. PICK n \in 0 .. MaxPages : Len(file) = n * PageSize /\ n \in Nat
    BY FileFacts
  <2> DEFINE m == IF n > next THEN n ELSE next + 1
  <2>4. /\ file' \in Seq(Blocks) /\ Len(file') = m * PageSize
        /\ Stored(file', next) = cache[next]
        /\ \A q \in Nat \ {next} : Stored(file', q) = Stored(file, q)
    <3> DEFINE page == cache[next]
               new  == Overwritten(file, next, page, PageSize)
    <3>1. file \in Seq(Blocks) /\ next \in Nat /\ page \in Page
      BY <1>1, <2>2
    <3>2. file' = new
      BY <2>1
    <3> HIDE DEF page
    <3>3. /\ new \in Seq(Blocks) /\ Len(new) = m * PageSize
          /\ Stored(new, next) = page
          /\ \A q \in Nat \ {next} : Stored(new, q) = Stored(file, q)
      BY <3>1, <2>3, WholeWrite, SMTT(30)
    <3> HIDE DEF new, m
    <3> QED BY <3>2, <3>3 DEF page
  <2>5. SavedSoFar' = SavedSoFar \cup {next}
    BY <1>1, <1>4, <1>8, <2>1, <2>2, PagesAreNumbers DEF SavedSoFar
  <2>6. \A p \in PageNum :
          Stored(file', p) = IF p \in SavedSoFar' THEN exit.shown[p] ELSE exit.stored[p]
    <3> TAKE p \in PageNum
    <3>1. CASE p = next
      BY <3>1, <2>2, <2>4, <2>5
    <3>2. CASE p # next
      <4>1. p \in Nat \ {next} /\ (p \in SavedSoFar' <=> p \in SavedSoFar)
        BY <3>2, <2>5, PagesAreNumbers
      <4> QED BY <4>1, <2>4, <1>2
    <3> QED BY <3>1, <3>2
  <2>7. FilePages = IF n >= 1 THEN n ELSE 1
    BY <1>1, <2>3, PagesOf DEF FilePages
  <2>8. m \in Nat /\ m >= 1
    BY <1>1, <2>3
  <2>9. FilePages' = m
    <3>1. ASSUME NEW blocks \in Seq(Blocks), Len(blocks) = m * PageSize
          PROVE  Max({Len(blocks) \div PageSize, 1}) = m
      <4> HIDE DEF m
      <4> QED BY <3>1, <2>8, PagesOf
    <3> HIDE DEF m
    <3> QED BY <3>1, <2>4 DEF FilePages
  <2>10. EndsSoFar' = EndsSoFar \cup {next + 1}
    BY <2>1, <2>5 DEF EndsSoFar
  <2>11. m \in EndsSoFar \cup {next + 1}
    BY <1>1, <1>2, <2>3, <2>7
  <2>12. \A end \in EndsSoFar \cup {next + 1} : end <= m
    <3>1. FilePages <= m /\ next + 1 <= m /\ FilePages \in Nat
      BY <1>1, <2>3, <2>7
    <3>2. \A end \in EndsSoFar : end \in Nat
      BY <1>1, <1>2, PagesAreNumbers DEF EndsSoFar, SavedSoFar
    <3> HIDE DEF m
    <3> QED BY <3>1, <3>2, <1>2, <2>8
  <2> HIDE DEF m
  <2> QED BY <1>1, <1>2, <1>3, <2>1, <2>6, <2>9, <2>10, <2>11, <2>12 DEF SaveInv
<1>9. CASE next \in dirty
  <2>1. PICK n \in Outcomes : Write(n)
    BY <1>9 DEF Flush
  <2> QED BY <2>1, <1>7, <1>8, <1>9 DEF WholeWrites
<1> QED BY <1>6, <1>9

LEMMA NextSaveInv == WholeWrites /\ PagerInv /\ SaveInv /\ [Next]_vars => SaveInv'
<1> SUFFICES ASSUME WholeWrites, PagerInv, SaveInv, [Next]_vars PROVE SaveInv'
  OBVIOUS
<1>1. CASE BeginClose
  BY <1>1, BeginCloseSaves
<1>2. CASE Flush
  BY <1>2, FlushSaves
<1>3. CASE UNCHANGED vars
  BY <1>3 DEF vars, SaveInv, SavedSoFar, EndsSoFar, FilePages
<1>4. CASE phase' # "closing"
  BY <1>4 DEF SaveInv
<1>5. CASE Open \/ Allocate \/ (\E p \in PageNum : Get(p)) \/ Closed \/ Crash
           \/ (\E p \in PageNum, block \in Blocks, mark \in BOOLEAN : Change(p, block, mark))
  <2>1. phase' # "closing"
    BY <1>5 DEF Open, Allocate, Get, Closed, Crash, Gone, Change
  <2> QED BY <2>1, <1>4
<1> QED BY <1>1, <1>2, <1>3, <1>5 DEF Next

\* While pager_close runs, the dirty pages it has passed are in the file as its
\* callers last saw them, unless their own write failed, and all others as they
\* were: no write, failed or not, harms another page.
THEOREM SaveInvHolds == WholeWrites => (Spec => []SaveInv)
<1> SUFFICES ASSUME WholeWrites PROVE Spec => []SaveInv
  OBVIOUS
<1>1. Init => SaveInv
  BY DEF Init, SaveInv
<1>2. PagerInv /\ SaveInv /\ [Next]_vars => SaveInv'
  BY NextSaveInv
<1>3. Spec => []PagerInv
  BY PagerInvHolds
<1> QED BY <1>1, <1>2, <1>3, PTL DEF Spec

-----------------------------------------------------------------------------
\* When the loop has come to its end it has passed every page.
LEMMA EndOfLoop ==
  ASSUME PagerInv, phase = "closing", next = MaxPages
  PROVE  SavedSoFar = dirty \ exit.lost
<1>1. \A p \in dirty : p < next
  BY PagesAreNumbers DEF PagerInv, TypeOK
<1> QED BY <1>1 DEF SavedSoFar

\* A pager_close that comes to its end has saved exactly the pages marked dirty
\* whose write did not fail, as the callers saw them last, whatever was in the
\* cache and the file before.
THEOREM ClosingSavesHolds == WholeWrites => (Spec => ClosingSaves)
<1> SUFFICES ASSUME WholeWrites PROVE Spec => ClosingSaves
  OBVIOUS
<1>1. ASSUME PagerInv, SaveInv, Closed
      PROVE  \A p \in PageNum :
               Stored(file', p) =
                 IF p \in dirty \ exit.lost THEN exit.shown[p] ELSE exit.stored[p]
  <2>1. phase = "closing" /\ next = MaxPages /\ file' = file
    BY <1>1 DEF Closed, Gone
  <2>2. SavedSoFar = dirty \ exit.lost
    BY <1>1, <2>1, EndOfLoop
  <2> QED BY <1>1, <2>1, <2>2 DEF SaveInv
<1>2. PagerInv /\ SaveInv /\ [Next]_vars =>
        [Closed => \A p \in PageNum :
                     Stored(file', p) =
                       IF p \in dirty \ exit.lost THEN exit.shown[p] ELSE exit.stored[p]]_vars
  BY <1>1
<1>3. Spec => []PagerInv
  BY PagerInvHolds
<1>4. Spec => []SaveInv
  BY SaveInvHolds
<1> QED BY <1>2, <1>3, <1>4, PTL DEF Spec, ClosingSaves

-----------------------------------------------------------------------------
\* A step that leaves the array alone.
Unmoved == /\ Content' = Content /\ dirty' = dirty /\ Count' = Count
           /\ Saved' = Saved /\ SavedCount' = SavedCount

LEMMA InitArray == Init => Array!Init
BY DEF Init, Array!Init, Content, Count, Saved, SavedCount

LEMMA OpenUnmoved == PagerInv /\ PagerInv' /\ Open => Unmoved
<1> SUFFICES ASSUME PagerInv, PagerInv', Open PROVE Unmoved
  OBVIOUS
<1>1. /\ phase = "closed" /\ phase' = "open" /\ dirty = {} /\ dirty' = {} /\ file' = file
      /\ length' = Len(file)
      /\ cache' = [p \in PageNum |-> IF p = 0 THEN Stored(file, 0) ELSE NoPage]
      /\ numPages' = FilePages
  BY DEF Open, FilePages, PagerInv
<1>2. ASSUME NEW p \in PageNum PROVE Shown(p)' = Stored(file, p)
  <2>1. Fetched(p)' = Stored(file, p)
    <3>1. PICK n \in 0 .. MaxPages :
            /\ Len(file) = n * PageSize /\ n \in Nat
            /\ (Len(file) + PageSize - 1) \div PageSize = n
      BY FileFacts
    <3>2. Fetched(p)' = IF p < n THEN Stored(file, p) ELSE ZeroPage
      BY <1>1, <3>1 DEF Fetched, Stored
    <3>3. CASE p < n
      BY <3>2, <3>3
    <3>4. CASE ~ (p < n)
      <4>1. Stored(file, p) = ZeroPage
        BY <3>1, <3>4, PagesAreNumbers, StoredPastTheEnd DEF PagerInv, TypeOK
      <4> QED BY <4>1, <3>2, <3>4
    <3> QED BY <3>3, <3>4
  <2>2. cache'[p] = IF p = 0 THEN Stored(file, 0) ELSE NoPage
    BY <1>1
  <2> QED BY <2>1, <2>2 DEF Shown
<1>3. Content' = [p \in PageNum |-> Stored(file, p)]
  BY <1>1, <1>2 DEF Content
<1>4. Content = [p \in PageNum |-> Stored(file, p)]
  BY <1>1 DEF Content
<1>5. FilePages' = FilePages /\ Saved' = Saved /\ SavedCount' = SavedCount
  BY <1>1 DEF FilePages, Saved, SavedCount, Stored
<1>6. Count' = Count
  BY <1>1 DEF Count
<1> QED BY <1>1, <1>3, <1>4, <1>5, <1>6 DEF Unmoved

\* The file's part of the array, in a step that leaves the file and phase alone.
LEMMA FileUnmoved ==
  ASSUME phase = "open", phase' = "open", file' = file
  PROVE  Saved' = Saved /\ SavedCount' = SavedCount
BY DEF Saved, SavedCount, FilePages, Stored

\* A page that is read on demand shows what it showed.
LEMMA FetchUnmoved ==
  ASSUME PagerInv, phase = "open", phase' = "open", file' = file, length' = length,
         NEW q \in PageNum, cache[q] = NoPage,
         cache' = [cache EXCEPT ![q] = Fetched(q)]
  PROVE  Content' = Content
<1>1. cache \in [PageNum -> Page \cup {NoPage}]
  BY DEF PagerInv, TypeOK
<1>2. Fetched(q) # NoPage
  BY FetchedIsPage, PagesAreNumbers, PagesAreNotNoPage DEF PagerInv, TypeOK
<1>3. ASSUME NEW p \in PageNum PROVE Shown(p)' = Shown(p)
  <2>1. Fetched(p)' = Fetched(p)
    BY DEF Fetched, Stored
  <2>2. CASE p = q
    <3>1. cache'[q] = Fetched(q)
      BY <1>1
    <3> QED BY <2>2, <3>1, <1>2 DEF Shown
  <2>3. CASE p # q
    <3>1. cache'[p] = cache[p]
      BY <1>1, <2>3
    <3> QED BY <2>1, <3>1 DEF Shown
  <2> QED BY <2>2, <2>3
<1> QED BY <1>3 DEF Content

LEMMA GetUnmoved == ASSUME NEW p \in PageNum PROVE PagerInv /\ Get(p) => Unmoved
<1> SUFFICES ASSUME PagerInv, Get(p) PROVE Unmoved
  OBVIOUS
<1>1. /\ phase = "open" /\ phase' = "open" /\ cache[p] = NoPage
      /\ cache' = [cache EXCEPT ![p] = Fetched(p)]
      /\ UNCHANGED <<file, length, dirty, numPages>>
  BY DEF Get
<1>2. Content' = Content
  BY <1>1, FetchUnmoved
<1>3. Saved' = Saved /\ SavedCount' = SavedCount
  BY <1>1, FileUnmoved
<1>4. Count' = Count
  BY <1>1 DEF Count
<1> QED BY <1>1, <1>2, <1>3, <1>4 DEF Unmoved

LEMMA BeginCloseUnmoved == BeginClose => Unmoved
<1> SUFFICES ASSUME BeginClose PROVE Unmoved
  OBVIOUS
<1>1. /\ phase = "open" /\ phase' = "closing"
      /\ exit'.shown = [p \in PageNum |-> Shown(p)]
      /\ exit'.stored = [p \in PageNum |-> Stored(file, p)]
      /\ exit'.count = FilePages
      /\ UNCHANGED <<dirty, numPages>>
  BY DEF BeginClose, FilePages
<1> QED BY <1>1 DEF Unmoved, Content, Count, Saved, SavedCount

LEMMA FlushUnmoved == SaveInv /\ Flush => Unmoved
<1> SUFFICES ASSUME SaveInv, Flush PROVE Unmoved
  OBVIOUS
<1>1. phase = "closing" /\ phase' = "closing" /\ UNCHANGED <<dirty, numPages>>
  BY DEF Flush
<1>2. exit \in [shown : [PageNum -> Page], stored : [PageNum -> Page], count : Nat,
               lost : SUBSET dirty]
  BY <1>1 DEF SaveInv
<1>3. \/ exit' = exit
      \/ exit' = [exit EXCEPT !.lost = @ \cup {next}]
  BY DEF Flush, Write
<1>4. exit'.shown = exit.shown /\ exit'.stored = exit.stored /\ exit'.count = exit.count
  BY <1>2, <1>3
<1> QED BY <1>1, <1>4 DEF Unmoved, Content, Count, Saved, SavedCount

LEMMA AllocateUses == PagerInv /\ Allocate => Array!Use
<1> SUFFICES ASSUME PagerInv, Allocate PROVE Array!Use
  OBVIOUS
<1>1. /\ phase = "open" /\ phase' = "open" /\ numPages \in PageNum /\ numPages \in Nat
      /\ cache[numPages] = NoPage
      /\ cache' = [cache EXCEPT ![numPages] = Fetched(numPages)]
      /\ numPages' = numPages + 1
      /\ UNCHANGED <<file, length, dirty>>
  BY OnePage DEF Allocate, PagerInv, TypeOK, PageNum, NextPageIsFresh
<1>2. Content' = Content
  <2>1. PICK q \in PageNum : q = numPages
    BY <1>1
  <2> QED BY <1>1, <2>1, FetchUnmoved
<1>3. Saved' = Saved /\ SavedCount' = SavedCount
  BY <1>1, FileUnmoved
<1>4. Count = numPages /\ Count' = numPages + 1
  BY <1>1 DEF Count
<1>5. \A p \in dirty : p < numPages + 1
  BY <1>1, PagesAreNumbers DEF PagerInv, TypeOK
<1> QED BY <1>1, <1>2, <1>3, <1>4, <1>5 DEF Array!Use

LEMMA ChangeUses ==
  ASSUME NEW p \in PageNum, NEW block \in Blocks, NEW mark \in BOOLEAN
  PROVE  PagerInv /\ PagerInv' /\ Change(p, block, mark) => Array!Use
<1> SUFFICES ASSUME PagerInv, PagerInv', Change(p, block, mark) PROVE Array!Use
  OBVIOUS
<1> DEFINE page == [i \in 1 .. PageSize |-> block]
<1>1. /\ phase = "open" /\ phase' = "open" /\ cache[p] # NoPage
      /\ cache' = [cache EXCEPT ![p] = page]
      /\ dirty \subseteq dirty'
      /\ UNCHANGED <<file, length, numPages>>
  BY DEF Change
<1> HIDE DEF page
<1>2. cache \in [PageNum -> Page \cup {NoPage}] /\ numPages \in Nat
  BY OnePage DEF PagerInv, TypeOK
<1>3. p < numPages
  BY <1>1, <1>2, PagesAreNumbers DEF PagerInv, NextPageIsFresh
<1>4. ASSUME NEW q \in PageNum, q >= numPages PROVE Content'[q] = Content[q]
  <2>1. q # p
    BY <1>2, <1>3, <1>4, PagesAreNumbers
  <2>2. cache'[q] = cache[q]
    BY <1>1, <1>2, <2>1
  <2>3. Shown(q)' = Shown(q)
    BY <1>1, <2>2 DEF Shown, Fetched, Stored
  <2> QED BY <1>1, <2>3 DEF Content
<1>5. Saved' = Saved /\ SavedCount' = SavedCount
  BY <1>1, FileUnmoved
<1>6. Count = numPages /\ Count' = numPages
  BY <1>1 DEF Count
<1>7. \A q \in dirty' : q < numPages
  BY <1>1 DEF PagerInv
<1> QED BY <1>1, <1>2, <1>4, <1>5, <1>6, <1>7 DEF Array!Use

-----------------------------------------------------------------------------
\* The process has ended while pager_close ran, or after it.
LEMMA GoneSaves ==
  ASSUME PagerInv, SaveInv, phase = "closing", Gone
  PROVE  Array!OpenAfter(SavedSoFar)
<1>1. /\ phase' = "closed" /\ dirty' = {} /\ file' = file
  BY DEF Gone
<1>2. /\ Content = exit.shown /\ Saved = exit.stored /\ SavedCount = exit.count
  BY DEF Content, Saved, SavedCount
<1>3. Content' = [p \in PageNum |-> Stored(file, p)] /\ Saved' = Content'
      /\ Count' = FilePages /\ SavedCount' = FilePages
  BY <1>1 DEF Content, Saved, Count, SavedCount, FilePages, Stored
<1>4. Content' = [p \in PageNum |-> IF p \in SavedSoFar THEN Content[p] ELSE Saved[p]]
  BY <1>2, <1>3 DEF SaveInv
<1>5. Max({SavedCount} \cup {p + 1 : p \in SavedSoFar}) = FilePages
  <2>1. EndsSoFar \in SUBSET Int
    BY PagesAreNumbers DEF EndsSoFar, SavedSoFar, SaveInv, PagerInv, TypeOK
  <2>2. FilePages \in EndsSoFar /\ \A end \in EndsSoFar : end <= FilePages
    BY DEF SaveInv
  <2>3. Max(EndsSoFar) = FilePages
    BY <2>1, <2>2, MaxIs
  <2> QED BY <2>3, <1>2 DEF EndsSoFar
<1>6. Array!Max({SavedCount} \cup {p + 1 : p \in SavedSoFar}) = FilePages
  BY <1>5 DEF Array!Max, Max
<1> QED BY <1>1, <1>3, <1>4, <1>6 DEF Array!OpenAfter

\* The pages that failed are pages that may be lost.
LEMMA LostIsALoss == SaveInv /\ phase = "closing" => exit.lost \in Array!Losses
BY DEF SaveInv, Array!Losses

LEMMA ClosedCloses == PagerInv /\ SaveInv /\ Closed => Array!Close
<1> SUFFICES ASSUME PagerInv, SaveInv, Closed PROVE Array!Close
  OBVIOUS
<1>1. phase = "closing" /\ next = MaxPages /\ Gone
  BY DEF Closed
<1>2. SavedSoFar = dirty \ exit.lost
  BY <1>1, EndOfLoop
<1>3. Array!OpenAfter(dirty \ exit.lost)
  BY <1>1, <1>2, GoneSaves
<1>4. exit.lost \in Array!Losses
  BY <1>1, LostIsALoss
<1> QED BY <1>3, <1>4 DEF Array!Close

LEMMA CrashCrashes == PagerInv /\ SaveInv /\ Crash => Array!Crash
<1> SUFFICES ASSUME PagerInv, SaveInv, Crash PROVE Array!Crash
  OBVIOUS
<1>1. Gone /\ (phase = "open" \/ phase = "closing")
  BY DEF Crash, PagerInv, TypeOK
<1> DEFINE Before(lost, upto) == {p \in dirty \ lost : p < upto}
<1>2. ASSUME NEW upto \in {0} \cup {p + 1 : p \in PageNum}, NEW lost \in Array!Losses,
             Array!OpenAfter(Before(lost, upto))
      PROVE  Array!Crash
  BY <1>2 DEF Array!Crash
<1>3. CASE phase = "closing"
  <2>1. SavedSoFar = Before(exit.lost, next)
    BY DEF SavedSoFar
  <2>2. next \in {0} \cup {p + 1 : p \in PageNum}
    <3>1. CASE next = 0
      BY <3>1
    <3>2. CASE next # 0
      <4>1. next - 1 \in PageNum /\ next = (next - 1) + 1
        BY <3>2, OnePage DEF PagerInv, TypeOK, PageNum
      <4> QED BY <4>1
    <3> QED BY <3>1, <3>2
  <2>3. Array!OpenAfter(Before(exit.lost, next))
    BY <1>1, <1>3, <2>1, GoneSaves
  <2>4. exit.lost \in Array!Losses
    BY <1>3, LostIsALoss
  <2> HIDE DEF Before
  <2> QED BY <2>2, <2>3, <2>4, <1>2
<1>4. CASE phase = "open"
  <2>1. /\ phase' = "closed" /\ dirty' = {} /\ file' = file
    BY <1>1 DEF Gone
  <2>2. Before({}, 0) = {}
    BY PagesAreNumbers DEF PagerInv, TypeOK
  <2>3. /\ Saved = [p \in PageNum |-> Stored(file, p)] /\ SavedCount = FilePages
        /\ Saved' = Saved /\ Content' = Saved /\ SavedCount' = FilePages /\ Count' = FilePages
    BY <1>4, <2>1 DEF Content, Saved, Count, SavedCount, FilePages, Stored
  <2>4. FilePages \in Int
    <3>1. PICK n \in 0 .. MaxPages : Len(file) = n * PageSize /\ n \in Nat
      BY FileFacts
    <3> QED BY <3>1, PagesOf DEF FilePages, PagerInv, TypeOK
  <2>5. Max({SavedCount} \cup {p + 1 : p \in {}}) = FilePages
    <3>1. {SavedCount} \cup {p + 1 : p \in {}} = {FilePages}
      BY <2>3
    <3>2. Max({FilePages}) = FilePages
      BY <2>4, MaxIs
    <3> QED BY <3>1, <3>2
  <2>6. Array!OpenAfter({})
    <3>1. Array!Max({SavedCount} \cup {p + 1 : p \in {}}) = FilePages
      BY <2>5 DEF Array!Max, Max
    <3>2. Saved = [p \in PageNum |-> IF p \in {} THEN Content[p] ELSE Saved[p]]
      BY <2>3
    <3> QED BY <2>1, <2>3, <3>1, <3>2 DEF Array!OpenAfter
  <2>7. 0 \in {0} \cup {p + 1 : p \in PageNum}
    OBVIOUS
  <2>8. {} \in Array!Losses
    BY DEF Array!Losses
  <2> HIDE DEF Before
  <2> QED BY <2>2, <2>6, <2>7, <2>8, <1>2
<1> QED BY <1>1, <1>3, <1>4

LEMMA NextImplements ==
  PagerInv /\ PagerInv' /\ SaveInv /\ [Next]_vars => [Array!Next]_(Array!vars)
<1> SUFFICES ASSUME PagerInv, PagerInv', SaveInv, [Next]_vars
             PROVE  Array!Next \/ UNCHANGED Array!vars
  OBVIOUS
<1>1. Unmoved => UNCHANGED Array!vars
  BY DEF Unmoved, Array!vars
<1>2. CASE Open
  BY <1>1, <1>2, OpenUnmoved
<1>3. CASE \E p \in PageNum : Get(p)
  BY <1>1, <1>3, GetUnmoved
<1>4. CASE Allocate
  BY <1>4, AllocateUses DEF Array!Next
<1>5. CASE \E p \in PageNum, block \in Blocks, mark \in BOOLEAN : Change(p, block, mark)
  BY <1>5, ChangeUses DEF Array!Next
<1>6. CASE BeginClose
  BY <1>1, <1>6, BeginCloseUnmoved
<1>7. CASE Flush
  BY <1>1, <1>7, FlushUnmoved
<1>8. CASE Closed
  BY <1>8, ClosedCloses DEF Array!Next
<1>9. CASE Crash
  BY <1>9, CrashCrashes DEF Array!Next
<1>10. CASE UNCHANGED vars
  <2>1. Unmoved
    BY <1>10 DEF vars, Unmoved, Content, Count, Saved, SavedCount, Shown, Fetched, Stored,
                 FilePages
  <2> QED BY <1>1, <2>1
<1> QED BY <1>2, <1>3, <1>4, <1>5, <1>6, <1>7, <1>8, <1>9, <1>10 DEF Next

\* As long as no write stops in the middle of a page, whatever is fetched, changed
\* and allocated, whichever writes fail and wherever the process dies, the pager is
\* an array of pages of which pager_close saves the marked ones at a stroke, but for
\* those whose own write failed, and a crash those up to some page or none.
THEOREM PagerImplementsPageFile == WholeWrites => (Spec => ImplementsPageFile)
<1> SUFFICES ASSUME WholeWrites PROVE Spec => ImplementsPageFile
  OBVIOUS
<1>1. PagerInv /\ PagerInv' /\ SaveInv /\ [Next]_vars => [Array!Next]_(Array!vars)
  BY NextImplements
<1>2. Spec => []PagerInv
  BY PagerInvHolds
<1>3. Spec => []SaveInv
  BY SaveInvHolds
<1> QED BY <1>1, <1>2, <1>3, InitArray, PTL DEF Spec, ImplementsPageFile, Array!Spec
=============================================================================
