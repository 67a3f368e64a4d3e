-------------------------------- MODULE Pager --------------------------------
(***************************************************************************)
(* The page cache (src/src/pager.c): pages are read when they are first    *)
(* asked for, changed in memory, and written when the database is closed.  *)
(* The file is a sequence of blocks and a page PageSize of them, so that a *)
(* write may stop in the middle of a page.  The callers of the pager are   *)
(* the tree and the catalog: they allocate pages, change pages they have   *)
(* got and mark most of those dirty.  The process may die at any time.     *)
(***************************************************************************)
EXTENDS Integers, Sequences, FiniteSetsExt

CONSTANTS
  MaxPages,    \* TABLES_MAX_PAGES
  PageSize,    \* PAGE_SIZE, in blocks
  Blocks,      \* what a block may hold
  Outcomes     \* how many blocks a write may store: PageSize, fewer, or 0 (failed)

ASSUME SizesAssumption == MaxPages \in Nat \ {0} /\ PageSize \in Nat \ {0}
ASSUME BlocksAssumption == 0 \in Blocks
ASSUME OutcomesAssumption == Outcomes \subseteq 0 .. PageSize /\ PageSize \in Outcomes

VARIABLES
  file,      \* the blocks of db.bin
  length,    \* file_length, taken when the file was opened
  cache,     \* pages
  dirty,     \* page_dirty
  numPages,  \* num_pages
  phase,     \* "open", "closing" while pager_close runs, "closed"
  next,      \* pager_close's i
  exit       \* history: what the pages and the file held when pager_close began,
             \* and the dirty pages whose write has failed since

vars == <<file, length, cache, dirty, numPages, phase, next, exit>>

PageNum == 0 .. MaxPages - 1
Page == [1 .. PageSize -> Blocks]
NoPage == <<>>
ZeroPage == [i \in 1 .. PageSize |-> 0]
NoExit == [shown |-> <<>>, stored |-> <<>>, count |-> 0, lost |-> {}]

\* The page that starts at p * PAGE_SIZE, padded with zeros.
Stored(blocks, p) ==
  [i \in 1 .. PageSize |->
     IF p * PageSize + i <= Len(blocks) THEN blocks[p * PageSize + i] ELSE 0]

\* The file after n blocks of a page were written at p * PAGE_SIZE; what lies
\* between the old end of the file and the page reads as zero.
Overwritten(blocks, p, page, n) ==
  LET from == p * PageSize
      size == IF n = 0 THEN Len(blocks) ELSE Max({Len(blocks), from + n})
  IN  [i \in 1 .. size |->
         IF i \in from + 1 .. from + n THEN page[i - from]
         ELSE IF i <= Len(blocks) THEN blocks[i] ELSE 0]

\* pager_get_page, of a page that is not in the cache: read if the file reached
\* that far when it was opened, zero otherwise.
Fetched(p) ==
  IF p < (length + PageSize - 1) \div PageSize THEN Stored(file, p) ELSE ZeroPage

TypeOK ==
  /\ file \in Seq(Blocks)
  /\ length \in 0 .. MaxPages * PageSize
  /\ cache \in [PageNum -> Page \cup {NoPage}]
  /\ dirty \subseteq PageNum
  /\ numPages \in 0 .. MaxPages
  /\ phase \in {"open", "closing", "closed"}
  /\ next \in 0 .. MaxPages

-----------------------------------------------------------------------------
Init ==
  /\ file = <<>> /\ length = 0
  /\ cache = [p \in PageNum |-> NoPage]
  /\ dirty = {} /\ numPages = 0
  /\ phase = "closed" /\ next = 0 /\ exit = NoExit

\* Mutant: num_pages is taken to be one page less.
OpenShort ==
  /\ phase = "closed"
  /\ phase' = "open"
  /\ length' = Len(file)
  /\ dirty' = {}
  /\ cache' = [p \in PageNum |-> IF p = 0 THEN Stored(file, 0) ELSE NoPage]
  /\ numPages' = Max({(Len(file) - 1) \div PageSize, 1})
  /\ next' = 0 /\ exit' = NoExit
  /\ UNCHANGED file

\* pager_open, and open_database_and_initialize_catalog, which gets page 0.
Open ==
  /\ phase = "closed"
  /\ phase' = "open"
  /\ length' = Len(file)
  /\ dirty' = {}
  /\ cache' = [p \in PageNum |-> IF p = 0 THEN Stored(file, 0) ELSE NoPage]
  /\ numPages' = Max({Len(file) \div PageSize, 1})
  /\ next' = 0 /\ exit' = NoExit
  /\ UNCHANGED file

\* pager_get_page of a page that is in use.
Get(p) ==
  /\ phase = "open"
  /\ p < numPages /\ cache[p] = NoPage
  /\ cache' = [cache EXCEPT ![p] = Fetched(p)]
  /\ UNCHANGED <<file, length, dirty, numPages, phase, next, exit>>

\* A new page: pager_allocate_page and pager_get_page, or, in the splits,
\* pager_get_page of page num_pages, which counts it.  Beyond TABLES_MAX_PAGES
\* there is none.
Allocate ==
  /\ phase = "open"
  /\ numPages < MaxPages
  /\ cache' = [cache EXCEPT ![numPages] = Fetched(numPages)]
  /\ numPages' = numPages + 1
  /\ UNCHANGED <<file, length, dirty, phase, next, exit>>

\* A caller changes a page it has got, and calls pager_mark_dirty or, for the
\* parent pointers of split_internal_node, does not.
Change(p, block, mark) ==
  /\ phase = "open"
  /\ cache[p] # NoPage
  /\ cache' = [cache EXCEPT ![p] = [i \in 1 .. PageSize |-> block]]
  /\ dirty' = IF mark THEN dirty \cup {p} ELSE dirty
  /\ UNCHANGED <<file, length, numPages, phase, next, exit>>

-----------------------------------------------------------------------------
\* What pager_get_page shows of a page.
Shown(p) == IF cache[p] = NoPage THEN Fetched(p) ELSE cache[p]

\* pager_close begins.
BeginClose ==
  /\ phase = "open"
  /\ phase' = "closing"
  /\ next' = 0
  /\ exit' = [shown  |-> [p \in PageNum |-> Shown(p)],
              stored |-> [p \in PageNum |-> Stored(file, p)],
              count  |-> Max({Len(file) \div PageSize, 1}),
              lost   |-> {}]
  /\ UNCHANGED <<file, length, cache, dirty, numPages>>

\* pager_flush of the page that pager_close has come to: n of its blocks are stored.
Write(n) ==
  /\ file' = Overwritten(file, next, cache[next], n)
  /\ exit' = IF n = PageSize THEN exit ELSE [exit EXCEPT !.lost = @ \cup {next}]

\* Mutant: the last page of the cache is never flushed.
FlushAllButLast ==
  /\ phase = "closing" /\ next < MaxPages
  /\ IF next \in dirty /\ next < MaxPages - 1
     THEN \E n \in Outcomes : Write(n)
     ELSE UNCHANGED <<file, exit>>
  /\ cache' = [cache EXCEPT ![next] = NoPage]
  /\ next' = next + 1
  /\ UNCHANGED <<length, dirty, numPages, phase>>

\* Mutant: pager_close's loop passes over page 0.
FlushFromOne ==
  /\ phase = "closing" /\ next < MaxPages
  /\ IF next \in dirty /\ next > 0
     THEN \E n \in Outcomes : Write(n)
     ELSE UNCHANGED <<file, exit>>
  /\ cache' = [cache EXCEPT ![next] = NoPage]
  /\ next' = next + 1
  /\ UNCHANGED <<length, dirty, numPages, phase>>

\* One turn of pager_close's loop: pager_flush, whose result nobody reads, and
\* free.
Flush ==
  /\ phase = "closing" /\ next < MaxPages
  /\ IF next \in dirty
     THEN \E n \in Outcomes : Write(n)
     ELSE UNCHANGED <<file, exit>>
  /\ cache' = [cache EXCEPT ![next] = NoPage]
  /\ next' = next + 1
  /\ UNCHANGED <<length, dirty, numPages, phase>>

\* The process is gone: after the loop, or because it died.
Gone ==
  /\ phase' = "closed"
  /\ length' = 0 /\ dirty' = {} /\ numPages' = 0
  /\ cache' = [p \in PageNum |-> NoPage]
  /\ next' = 0 /\ exit' = NoExit
  /\ UNCHANGED file

Closed == phase = "closing" /\ next = MaxPages /\ Gone

Crash == phase # "closed" /\ Gone

Next ==
  \/ Open
  \/ \E p \in PageNum : Get(p)
  \/ Allocate
  \/ \E p \in PageNum, block \in Blocks, mark \in BOOLEAN : Change(p, block, mark)
  \/ BeginClose \/ Flush \/ Closed \/ Crash

Spec == Init /\ [][Next]_vars

-----------------------------------------------------------------------------
\* The page that pager_allocate_page hands out next is in no one's use: it is
\* not in the cache, and no block of it is in the file.
NextPageIsFresh ==
  phase = "open" =>
    \A p \in PageNum : p >= numPages => cache[p] = NoPage /\ p * PageSize >= Len(file)

\* The inductive invariant behind NextPageIsFresh, if every write stores the
\* page or nothing: the file is made of whole pages, and the pages that
\* pager_close has yet to flush are in the cache.
PagerInv ==
  /\ TypeOK
  /\ \E n \in 0 .. MaxPages : Len(file) = n * PageSize
  /\ phase = "open" => length = Len(file) /\ numPages >= 1
  /\ \A p \in dirty : p < numPages /\ (p >= next => cache[p] # NoPage)
  /\ phase = "open" => next = 0
  /\ phase = "closed" => dirty = {}
  /\ NextPageIsFresh

\* The pages that are in use when the file is opened.
FilePages == Max({Len(file) \div PageSize, 1})

\* Behind ImplementsPageFile, if every write stores the page or nothing: while
\* pager_close runs, the dirty pages before the one it has come to are saved,
\* unless their write failed, and no others.
SavedSoFar == {p \in dirty : p < next /\ p \notin exit.lost}
EndsSoFar == {exit.count} \cup {p + 1 : p \in SavedSoFar}

SaveInv ==
  phase = "closing" =>
    /\ exit \in [shown : [PageNum -> Page], stored : [PageNum -> Page], count : Nat,
                 lost : SUBSET dirty]
    /\ exit.lost # {} => Outcomes # {PageSize}
    /\ \A p \in dirty : p >= next => cache[p] = exit.shown[p] /\ p \notin exit.lost
    /\ \A p \in PageNum :
         Stored(file, p) = IF p \in SavedSoFar THEN exit.shown[p] ELSE exit.stored[p]
    /\ FilePages \in EndsSoFar /\ \A end \in EndsSoFar : end <= FilePages

\* When pager_close has come to its end, and not before, the file has every page
\* that was marked as the callers saw it last, unless its own write failed, and
\* the others as they were: a failed write costs its own page and no other.
ClosingSaves ==
  [][Closed => \A p \in PageNum :
                 Stored(file', p) =
                   IF p \in dirty \ exit.lost THEN exit.shown[p] ELSE exit.stored[p]]_vars

\* What the array of pages holds, now and in the file; while pager_close runs it
\* is what it was when that began.
Content ==
  CASE phase = "open"    -> [p \in PageNum |-> Shown(p)]
    [] phase = "closing" -> exit.shown
    [] phase = "closed"  -> [p \in PageNum |-> Stored(file, p)]
Count == IF phase = "closed" THEN FilePages ELSE numPages
Saved ==
  IF phase = "closing" THEN exit.stored ELSE [p \in PageNum |-> Stored(file, p)]
SavedCount == IF phase = "closing" THEN exit.count ELSE FilePages

Array ==
  INSTANCE PageFile WITH
    Pages <- PageNum, MayLose <- Outcomes # {PageSize},
    content <- Content, marked <- dirty, count <- Count,
    saved <- Saved, savedCount <- SavedCount

\* The cache, the lazy reads and the page-by-page writes of pager_close amount
\* to one array of pages that is saved at a stroke when the program ends.
ImplementsPageFile == Array!Spec
=============================================================================
