-------------------------------- MODULE BTree --------------------------------
(***************************************************************************)
(* The B+ tree of one table (src/src/btree.c), the statements that walk it *)
(* (src/src/table.c) and the pages it lives in (src/src/pager.c, of which  *)
(* module Pager has the detail).                                           *)
(*                                                                         *)
(* A statement begins and then runs in steps, one per loop iteration of    *)
(* the code:                                                               *)
(*   descend     leaf_node_for_key, one level a step, and at the leaf the  *)
(*               rest of insert_command or pk_lookup_next                  *)
(*   separator   a separator on its way up: internal_node_insert, or       *)
(*               split_internal_node, which calls itself on the parent     *)
(*   first_leaf  the way to the leftmost leaf in update and delete_command *)
(*   walk        their loop over the leaf chain                            *)
(* mem is what pager_get_page shows of each page, dirty its page_dirty     *)
(* bits, disk and filePages the database file as it was left on disk.      *)
(***************************************************************************)
EXTENDS Node

CONSTANTS
  MaxOthers,    \* bound: the other tables that occupy a page each
  MaxSessions,  \* bound: how often the database is opened
  Headroom      \* bound: the pages that must be free for an INSERT to begin

ASSUME BoundsAssumption ==
  /\ MaxOthers \in Nat /\ 2 + MaxOthers <= MaxPages
  /\ MaxSessions \in Nat \ {0}
  /\ Headroom \in Nat

VARIABLES
  mem, dirty, numPages, disk, filePages,
  pc, stmt, at, sep, result, session

pager == <<mem, dirty, numPages, disk, filePages>>
control == <<pc, stmt, at, sep, result>>
vars == <<pager, control, session>>

RootPage == 1
Codes == {"none", "success", "duplicate", "error"}
NoStmt == [op |-> "none"]
NoSep == [key |-> 0, left |-> 0, right |-> 0]
Reply(code, rows) == [code |-> code, rows |-> rows]

\* The rows a WHERE on the primary key, a WHERE on another column, or no
\* WHERE at all selects (row_matches_where).
Wheres ==
  {{c \in LeafCell : c.key = k} : k \in Keys}
    \cup {{c \in LeafCell : c.row = r} : r \in Rows} \cup {LeafCell}

Statements ==
  [op : {"insert"}, key : Keys, row : Rows]
    \cup [op : {"select"}, key : Keys]
    \cup [op : {"delete"}, where : Wheres]
    \cup [op : {"update"}, where : Wheres, row : Rows]

TypeOK ==
  /\ mem \in [NodePages -> LeafNode \cup InternalNode]
  /\ disk \in [NodePages -> LeafNode \cup InternalNode]
  /\ dirty \subseteq NodePages
  /\ numPages \in 2 .. MaxPages
  /\ filePages \in 2 .. MaxPages
  /\ session \in 1 .. MaxSessions
  /\ pc \in {"idle", "descend", "separator", "first_leaf", "walk"}
  /\ stmt \in Statements \cup {NoStmt}
  /\ at \in PageNum
  /\ sep \in [key : Keys \cup {0}, left : PageNum, right : PageNum]
  /\ result \in [code : Codes, rows : SUBSET Rows]

-----------------------------------------------------------------------------
\* CREATE TABLE for this table and then for others, and a clean close: the
\* root of every table is an empty leaf.
Init ==
  /\ \E others \in 0 .. MaxOthers : filePages = 2 + others
  /\ disk = [p \in NodePages |-> IF p < filePages THEN NewLeaf(0) ELSE ZeroPage]
  /\ mem = disk
  /\ dirty = {}
  /\ numPages = filePages
  /\ pc = "idle" /\ stmt = NoStmt /\ at = RootPage /\ sep = NoSep
  /\ result = Reply("none", {})
  /\ session = 1

\* A statement is the next line of input.  The model follows a database up to
\* the first statement that runs out of pages, and not beyond.
Begin(s, step) ==
  /\ pc = "idle"
  /\ result.code # "error"
  /\ stmt' = s
  /\ pc' = step
  /\ at' = RootPage
  /\ result' = Reply("none", {})
  /\ UNCHANGED <<pager, sep, session>>

BeginInsert ==
  /\ numPages + Headroom <= MaxPages
  /\ \E k \in Keys, r \in Rows :
       Begin([op |-> "insert", key |-> k, row |-> r], "descend")

BeginSelect == \E k \in Keys : Begin([op |-> "select", key |-> k], "descend")

BeginDelete ==
  \E w \in Wheres : Begin([op |-> "delete", where |-> w], "first_leaf")

BeginUpdate ==
  \E w \in Wheres, r \in Rows :
    Begin([op |-> "update", where |-> w, row |-> r], "first_leaf")

\* The statement's CommandResult and rows, and back to the prompt.
Finish(code, rows) ==
  /\ result' = Reply(code, rows)
  /\ pc' = "idle"
  /\ stmt' = NoStmt
  /\ at' = RootPage
  /\ sep' = NoSep

\* The pages written by a step, and those of them it marks dirty.
Write(new, marked, pages) ==
  /\ mem' = new
  /\ dirty' = dirty \cup marked
  /\ numPages' = pages
  /\ UNCHANGED <<disk, filePages, session>>

-----------------------------------------------------------------------------
\* Mutant: the number of the child is taken, and its page is not.
DescendInPlace ==
  /\ pc = "descend"
  /\ mem[at].type = "internal"
  /\ UNCHANGED vars

\* leaf_node_for_key, at an internal node.
Descend ==
  /\ pc = "descend"
  /\ mem[at].type = "internal"
  /\ at' = ChildFor(mem[at], stmt.key)
  /\ UNCHANGED <<pager, pc, stmt, sep, result, session>>

\* pk_lookup_next: at most one row.
Lookup ==
  /\ pc = "descend" /\ stmt.op = "select"
  /\ mem[at].type = "leaf"
  /\ LET cells == mem[at].cells
         found == {cells[i].row : i \in {j \in 1 .. Len(cells) : cells[j].key = stmt.key}}
     IN  Finish("success", found)
  /\ UNCHANGED <<pager, session>>

AtInsertLeaf ==
  /\ pc = "descend" /\ stmt.op = "insert"
  /\ mem[at].type = "leaf"

\* insert_command: the key is there already.
Duplicate ==
  /\ AtInsertLeaf
  /\ HasKey(mem[at].cells, stmt.key)
  /\ Finish("duplicate", {})
  /\ UNCHANGED <<pager, session>>

\* Mutant: the capacity check is off by one.
InsertIntoLeafOverfull ==
  /\ AtInsertLeaf
  /\ ~ HasKey(mem[at].cells, stmt.key)
  /\ Len(mem[at].cells) <= LeafMax
  /\ Write([mem EXCEPT ![at].cells = WithRow(@, stmt.key, stmt.row)], {at}, numPages)
  /\ Finish("success", {})

\* leaf_node_insert into a leaf with room.
InsertIntoLeaf ==
  /\ AtInsertLeaf
  /\ ~ HasKey(mem[at].cells, stmt.key)
  /\ Len(mem[at].cells) < LeafMax
  /\ Write([mem EXCEPT ![at].cells = WithRow(@, stmt.key, stmt.row)], {at}, numPages)
  /\ Finish("success", {})

AtFullLeaf ==
  /\ AtInsertLeaf
  /\ ~ HasKey(mem[at].cells, stmt.key)
  /\ Len(mem[at].cells) >= LeafMax

\* The new right half of a leaf split.  Its parent is the old page when that
\* becomes the root, and the old page's parent otherwise.
RightLeaf(cells) ==
  [NewLeaf(IF mem[at].root THEN at ELSE mem[at].parent)
     EXCEPT !.root = FALSE, !.cells = HighCells(cells)]

\* split_leaf_node of the root: two new leaves under the old page.
SplitRootLeaf ==
  /\ AtFullLeaf
  /\ mem[at].root
  /\ LET wide  == WithRow(mem[at].cells, stmt.key, stmt.row)
         right == numPages
         left  == numPages + 1
         up    == [key |-> HighCells(wide)[1].key, left |-> left, right |-> right]
     IN  /\ left < MaxPages
         /\ Write([mem EXCEPT ![right] = RightLeaf(wide),
                              ![left] = [NewLeaf(at) EXCEPT !.root = FALSE, !.link = right,
                                                            !.cells = LowCells(wide)],
                              ![at] = RootOver(@, up)],
                  {right, left, at}, numPages + 2)
  /\ Finish("success", {})

\* Mutant: the root is reset before the left half has a page.
SplitRootLeafResetFirst ==
  /\ AtFullLeaf
  /\ mem[at].root
  /\ numPages + 1 = MaxPages
  /\ LET wide == WithRow(mem[at].cells, stmt.key, stmt.row)
     IN  Write([mem EXCEPT ![numPages] = RightLeaf(wide), ![at].cells = <<>>],
               {numPages}, numPages + 1)
  /\ Finish("error", {})

\* split_leaf_node of the root when only the right half gets a page: the root
\* is left as it was and the new page hangs in the air.
SplitRootLeafHalfway ==
  /\ AtFullLeaf
  /\ mem[at].root
  /\ numPages + 1 = MaxPages
  /\ Write([mem EXCEPT ![numPages] = RightLeaf(WithRow(mem[at].cells, stmt.key, stmt.row))],
           {numPages}, numPages + 1)
  /\ Finish("error", {})

\* split_leaf_node when not even the right half gets a page.
NoPageForLeaf ==
  /\ AtFullLeaf
  /\ numPages = MaxPages
  /\ Finish("error", {})
  /\ UNCHANGED <<pager, session>>

\* split_leaf_node below the root: the upper half moves to a new leaf, linked
\* behind the old one, and the parent is told.
SplitLeaf ==
  /\ AtFullLeaf
  /\ ~ mem[at].root
  /\ numPages < MaxPages
  /\ LET wide  == WithRow(mem[at].cells, stmt.key, stmt.row)
         right == numPages
     IN  /\ Write([mem EXCEPT ![right] = [RightLeaf(wide) EXCEPT !.link = mem[at].link],
                              ![at].cells = LowCells(wide), ![at].link = right],
                  {right, at}, numPages + 1)
         /\ sep' = [key |-> HighCells(wide)[1].key, left |-> at, right |-> right]
  /\ at' = mem[at].parent
  /\ pc' = "separator"
  /\ UNCHANGED <<stmt, result>>

-----------------------------------------------------------------------------
\* Mutant: internal_node_insert does not mark the page.
InsertSeparatorUnmarked ==
  /\ pc = "separator"
  /\ Len(mem[at].cells) < InternalMax
  /\ Write([mem EXCEPT ![at] = WithSeparator(@, sep)], {}, numPages)
  /\ Finish("success", {})

\* internal_node_insert into a node with room.
InsertSeparator ==
  /\ pc = "separator"
  /\ Len(mem[at].cells) < InternalMax
  /\ Write([mem EXCEPT ![at] = WithSeparator(@, sep)], {at}, numPages)
  /\ Finish("success", {})

AtFullNode == pc = "separator" /\ Len(mem[at].cells) >= InternalMax

\* Mutant: children that move keep the old parent pointer.
AdoptNone(pages, kids, parent) == pages

\* The parent pointers of children that move to another internal node.
Adopt(pages, kids, parent) ==
  [p \in NodePages |-> IF p \in kids THEN [pages[p] EXCEPT !.parent = parent] ELSE pages[p]]

\* split_internal_node of the root: two new nodes under the old page.  Every
\* child gets its parent pointer rewritten, in memory, and is not marked dirty.
SplitRootNode ==
  /\ AtFullNode
  /\ mem[at].root
  /\ LET wide  == WithSeparator(mem[at], sep)
         low   == LowNode(wide)
         high  == HighNode(wide)
         left  == numPages
         right == numPages + 1
         up    == [key |-> Promoted(wide), left |-> left, right |-> right]
     IN  /\ right < MaxPages
         /\ Write([Adopt(Adopt(mem, Kids(low), left), Kids(high), right) EXCEPT
                     ![left] = [low EXCEPT !.parent = at],
                     ![right] = [high EXCEPT !.parent = at],
                     ![at] = RootOver(mem[at], up)],
                  {left, right, at}, numPages + 2)
  /\ Finish("success", {})

\* Mutant: a root that cannot be split is reported as a success.
NoPagesForRootNodeSilent ==
  /\ AtFullNode
  /\ mem[at].root
  /\ numPages + 2 > MaxPages
  /\ numPages' = MaxPages
  /\ Finish("success", {})
  /\ UNCHANGED <<mem, dirty, disk, filePages, session>>

\* split_internal_node of the root without two pages: a left half that got its
\* page stays behind, empty and not marked dirty.
NoPagesForRootNode ==
  /\ AtFullNode
  /\ mem[at].root
  /\ numPages + 2 > MaxPages
  /\ numPages' = MaxPages
  /\ Finish("error", {})
  /\ UNCHANGED <<mem, dirty, disk, filePages, session>>

\* split_internal_node below the root: the upper half moves to a new node with
\* its children, whose parent pointers are rewritten but not marked dirty, and
\* the parent is told in turn.
SplitNode ==
  /\ AtFullNode
  /\ ~ mem[at].root
  /\ numPages < MaxPages
  /\ LET wide  == WithSeparator(mem[at], sep)
         low   == LowNode(wide)
         high  == HighNode(wide)
         right == numPages
     IN  /\ Write([Adopt(mem, Kids(high), right) EXCEPT ![at] = low, ![right] = high],
                  {at, right}, numPages + 1)
         /\ sep' = [key |-> Promoted(wide), left |-> at, right |-> right]
  /\ at' = mem[at].parent
  /\ UNCHANGED <<pc, stmt, result>>

\* split_internal_node below the root without a page: the old node has been
\* cleared before the new one is asked for.
NoPageForNode ==
  /\ AtFullNode
  /\ ~ mem[at].root
  /\ numPages = MaxPages
  /\ mem' = [mem EXCEPT ![at] = Wiped(@)]
  /\ Finish("error", {})
  /\ UNCHANGED <<dirty, numPages, disk, filePages, session>>

-----------------------------------------------------------------------------
\* update_command and delete_command on their way to the first leaf.
ToFirstLeaf ==
  /\ pc = "first_leaf"
  /\ IF mem[at].type = "internal"
     THEN at' = mem[at].cells[1].child /\ UNCHANGED pc
     ELSE pc' = "walk" /\ UNCHANGED at
  /\ UNCHANGED <<pager, stmt, sep, result, session>>

Matches(cells) == {i \in 1 .. Len(cells) : cells[i] \in stmt.where}

\* Mutant: delete_command does not mark the page.
DeleteRowUnmarked ==
  /\ pc = "walk" /\ stmt.op = "delete"
  /\ \E i \in Matches(mem[at].cells) :
       /\ \A j \in Matches(mem[at].cells) : i <= j
       /\ Write([mem EXCEPT ![at].cells = RemoveAt(@, i)], {}, numPages)
  /\ UNCHANGED control

\* delete_command: the first matching row of the leaf goes, and the rest move up.
DeleteRow ==
  /\ pc = "walk" /\ stmt.op = "delete"
  /\ \E i \in Matches(mem[at].cells) :
       /\ \A j \in Matches(mem[at].cells) : i <= j
       /\ Write([mem EXCEPT ![at].cells = RemoveAt(@, i)], {at}, numPages)
  /\ UNCHANGED control

\* On to the next leaf, or done.
NextLeaf ==
  IF mem[at].link # 0
  THEN at' = mem[at].link /\ UNCHANGED <<pc, stmt, sep, result>>
  ELSE Finish("success", {})

\* delete_command: no matching row is left in this leaf.
DeleteNext ==
  /\ pc = "walk" /\ stmt.op = "delete"
  /\ Matches(mem[at].cells) = {}
  /\ NextLeaf
  /\ UNCHANGED <<pager, session>>

\* update_command: every matching row of the leaf is rewritten in place.  The
\* column that is set is not the primary key.
UpdateLeaf ==
  /\ pc = "walk" /\ stmt.op = "update"
  /\ LET hits == Matches(mem[at].cells)
     IN  Write([mem EXCEPT ![at].cells =
                  [i \in 1 .. Len(@) |-> IF i \in hits THEN [@[i] EXCEPT !.row = stmt.row] ELSE @[i]]],
               IF hits = {} THEN {} ELSE {at}, numPages)
  /\ NextLeaf

-----------------------------------------------------------------------------
\* Mutant: only the pages the file already has are written.
FlushedInPlace ==
  [p \in NodePages |-> IF p \in dirty /\ p < filePages THEN mem[p] ELSE disk[p]]

\* Pages written out by pager_close, as the next pager_open finds them.
Flushed == [p \in NodePages |-> IF p \in dirty THEN mem[p] ELSE disk[p]]
FlushedPages == Max({filePages} \cup {p + 1 : p \in dirty})

\* .exit or end of input, and the program started again.
Restart ==
  /\ pc = "idle" /\ result.code # "error"
  /\ session < MaxSessions
  /\ session' = session + 1
  /\ disk' = Flushed /\ mem' = Flushed
  /\ filePages' = FlushedPages /\ numPages' = FlushedPages
  /\ dirty' = {}
  /\ UNCHANGED control

\* The process dies before pager_close and is started again: nothing has been
\* written since the file was opened.
Crash ==
  /\ session < MaxSessions
  /\ session' = session + 1
  /\ mem' = disk
  /\ numPages' = filePages
  /\ dirty' = {}
  /\ Finish("none", {})
  /\ UNCHANGED <<disk, filePages>>

Step ==
  \/ Descend \/ Lookup \/ Duplicate \/ InsertIntoLeaf
  \/ SplitRootLeaf \/ SplitRootLeafHalfway \/ NoPageForLeaf \/ SplitLeaf
  \/ InsertSeparator \/ SplitRootNode \/ NoPagesForRootNode \/ SplitNode \/ NoPageForNode
  \/ ToFirstLeaf \/ DeleteRow \/ DeleteNext \/ UpdateLeaf

Next ==
  \/ BeginInsert \/ BeginSelect \/ BeginDelete \/ BeginUpdate
  \/ Step
  \/ Restart \/ Crash

Spec == Init /\ [][Next]_vars

\* A statement, once begun, runs on: there is one thread and nothing blocks it.
FairSpec == Spec /\ WF_vars(Step)
=============================================================================
