# TLA+ models and proofs for miniDB (`database_in_c`)

miniDB is an SQL database in C: one process, one thread, one file (`db.bin`) of
4096-byte pages, a B+ tree per table, and a catalog of tables in page 0.  These
modules model its storage engine and the statements that run on it, TLC checks
them on small instances, and TLAPS proves what can be proved for all of them.
Paths below are those of the repository, which is under `src/`.

## The system

| Component | State | Operations | Talks to | What makes it correct |
|---|---|---|---|---|
| Pager (`src/pager.c`) | `pages[]`, `page_dirty[]`, `num_pages`, `file_length`, the file | `pager_open`, `pager_get_page`, `pager_allocate_page`, `pager_mark_dirty`, `pager_flush`, `pager_close` | the file; called by tree and catalog | It is an array of pages that is saved when the program ends, and a new page is nobody's. |
| B+ tree (`src/btree.c`) | nodes in pages: type, root flag, parent, cells, next leaf or right child | find, insert, split of a leaf, split of an internal node (recursive), descent | pager | Every stored row is found by its key; leaves are linked in key order; all at one depth; parent pointers are right; nothing outgrows a page. |
| Statement execution (`src/table.c`, `src/command.c`) | none beyond a statement | INSERT, SELECT by key, UPDATE, DELETE | tree, catalog, pager | Each statement does to the table what SQL says, and says so. |
| Cursors, planner (`src/table.c`, `src/ast.c`) | cursor: page, cell, done | plan, scan, filter, lookup, projection | tree, catalog | A scan shows the rows that are selected, each once, in key order. |
| Catalog (`src/btree.c`, `src/table.c`) | page 0: table count, 13 slots | CREATE TABLE, find a table or a column | pager | Tables that were made are found, with distinct roots. |
| Row bytes (`serialize_row`) | none | write and read a row | - | What is read is what was written. |
| Lexer, parser (`src/lexer.c`, `src/parser.c`) | cursor in the line, current token, the tree | tokens, statements as trees | - | Every line is either a whole statement or an error, in finite time, and nothing that is allocated is lost. |
| REPL, meta commands (`src/repl.c`, `src/main.c`, `src/command.c`) | the input line | read, dispatch, `.exit`, printing commands | all | The pager is closed on `.exit` and at the end of input. |

There is no concurrency.  What is hard here is of other kinds: a B+ tree whose
recursive splits write to many pages and trust pointers that were written long
before; a cache whose dirty marks alone decide what survives a restart; pages
that run out in the middle of a split; writes that fail unnoticed and a crash
in the middle of saving; bytes that are left behind by a delete or by a failed
statement and are read later; a parser with some thirty error returns, each of
which owns something; trees that are executed as C unions whatever shape the
line gave them.  The list `hazards` of `PROJECT.json` has each of
them at its line.

## Modules

    Node ── BTree ── BTreeProperties ── MCBTree          tree and statements
     │        │            │  └──────── Scan ── MCScan   scans
     │        │            ├─ INSTANCE DurableTable      what a table promises
     │        │            └─ INSTANCE PageFile          what the pager promises
     │        └── BTreeProofs ── TreeProofs ── TreeTheorems    with Scan
     └── NodeFind                                        binary search, with its proofs
    Pager ── PagerProofs                                 page cache and file
     └─ INSTANCE PageFile
    Catalog ── MCCatalog                                 CREATE TABLE
     └─ CatalogProofs
    Parser, Row ── Command ── CommandProperties ── MCCommand     from a line to the rows
                                └─ CommandProofs
    RecursionProofs                       least numbers, recursion: used by the proofs

**Node** is the contents of one page as a record: `type`, `root`, `parent`,
`link` (NEXT_LEAF of a leaf, RIGHT_CHILD of an internal node: the same word in
`btree.h`) and `cells`.  Its operators are the pure parts of `btree.c`: where a
key goes, a cell inserted, an over-full buffer cut in halves.  Rows are model
values, keys are integers.  `LeafMax` stands for `leaf_node_max_cells`, which
depends on the row size: 2 cells of the largest row there can be (an INTEGER key
and seven TEXT columns, 1793 bytes), 255 of the smallest.  `InternalMax` stands for
`INTERNAL_NODE_MAX_KEYS`.  The assumption `LeafMax >= 1` is weaker than the code
needs.

**BTree** is one table's tree with its pages.  A statement begins (`Begin...`)
and then runs in steps, one per loop iteration of the code: a level of the
descent (`Descend`), what happens at the leaf, a separator climbing one level
(`InsertSeparator`, `SplitRootNode`, `SplitNode`: `split_internal_node` calls
itself on the parent), a row or a leaf of the walks of DELETE and UPDATE.  The
early returns for want of a page are actions of their own with the partial
effects they leave.  `mem` is what `pager_get_page` shows, `dirty` the
`page_dirty` bits, `disk` and `filePages` the file.  A split writes a parent
pointer without marking the page, and so does the model.  `Restart` is a clean
end and a new start, `Crash` the death of the process before `pager_close`; a
death within it is in Pager, and for what page 0 names in Catalog
(`PartialClose`).  Pages are capped at `MaxPages`; only
`pager_allocate_page`, which CREATE TABLE alone calls, counts beyond the limit,
and the process dies of it (`Catalog!CreateNoPage`).

**DurableTable** is the abstract table: a set of rows with distinct keys,
statements that act at once, a clean restart that keeps all, a crash that goes
back to the start of the session.  `BTreeProperties` has the refinement mapping
(`Table`): at the prompt the rows are those that a lookup by their key finds
(`Found`), a DELETE or UPDATE takes effect when its walk starts, and the row of
an INSERT counts as stored when its last separator is in place.  An INSERT that
finds no page left promises nothing here but that no row comes from nowhere; what
it loses is the property `ErrorsCutOff`.

**Pager** is `pager.c` with its file as a sequence of blocks, a page being
`PageSize` of them so that a write can be short.  `Flush` is one turn of the loop
of `pager_close`, `Crash` may come between any two.  **PageFile** is what it
promises, and `Pager!Array` the mapping.  `BTreeProperties!File` shows that the
tree uses its pages as a PageFile without losses, so the two meet there.

**NodeFind** is the loop of `leaf_node_find` and `internal_node_find` a
comparison a step; the other modules take its result, `Position`, as a
definition.

**Scan** adds table scans to BTree.  `first` holds the bytes of the first cell of
each leaf, which stay when the last row is deleted; `table_scan_next` reads them.

**Catalog** is page 0.  A name field is bytes, as `create_table` copies a name
over what is there and `strlen` ends it at a zero byte (of a name that fills its
field it may see more than the name, so that the table may be found or not, and
made twice); a column list is reduced
to its count, its primary key and the place of a name that is too long.
`pager_close` writes page 0 before the roots that it names, and ignores failed
writes: `Close` writes any of the marked pages, all of them (`Restart`) or some
(`PartialClose`: writes that failed, or a death in the loop).  A page that was
left out behind the end of the file is `missing`: page 0 or a node may name it,
it reads as an empty leaf that is not a root and has page 0 for its parent, it
lies behind `num_pages` until a statement fetches it (`FetchMissing`), and CREATE
TABLE may hand it out once more.  When such a leaf is full its separator goes
into page 0 (`OverwriteCatalog`); from then on page 0 is no longer `intact` and
what it holds is not followed.

**Parser** is the lexer, the five parse functions and `ast_destroy`.  The parser
looks at types of tokens and never goes back, so a token is its type and is
chosen when it is looked at; `pc` is the place in the parse functions where that
happens.  The places where one token must follow are a table (`Required`), the
lists and operands are actions of their own.  `Fail` is `parser_set_error` with
what it frees.  A character that starts no token gives `UNKNOWN`, the integer of
no digits, and from then on nothing else (`stuck`).  In `ast_destroy` an UPDATE
whose `where` is not set yet goes well if that happens to be NULL, may kill the
process (`pc` = "dead"), and may free memory that is in use or was freed before
(`"damaged"`); what the process does with such a heap until it ends is not
followed.  `live` counts nodes.

**Row** is a row as bytes: `memcpy` into what is there, `strlen` and `strnlen` to
the first zero.  A WHERE becomes a condition on a column, or on nothing, or
`Undefined`: an expression that is not a comparison with a name on its left is
read through the wrong members of a union (`ast.h:98-103`), and then any row may
be hit, or the process die.

**Command** puts them together: `process_command` and the `.ast`, `.plan`,
`.tokens` and `.schema` commands, with what the tree is resolved to, the rows
that UPDATE and DELETE walk through one by one, and the memory of plans.  It has
the rows of one table as a function from the keys of cells; how they are kept is
in BTree, running out of pages too, and what CREATE TABLE does is in Catalog.
Whether a table or a column exists is a free choice.

Mutants (`...Overfull`, `...Unmarked` and the like) are variants of an action as
a plausible bug would have it.  No specification uses them: for each property
that is checked there is one with which TLC finds it violated.

## Runs

| Run | Instance | Question |
|---|---|---|
| `btree_deep` | 9 keys, nearly ascending, `LeafMax` = `InternalMax` = 2, four levels, 16 pages of which 0 to 14 belong to other tables, one session | Are all kinds of split right, to the recursion over two full levels? Which rows do lookups and walks still find when pages run out at any point of one? Does every statement end? |
| `btree_churn` | 4 keys, 2 rows, all statements in all orders, 2 sessions | Is it a table? Does a restart keep it, and does a crash go back? |
| `btree_restart` | 7 keys, 3 sessions, node splits | **Violated**: rows are lost from the index after a restart. |
| `pager` | 3 pages of 2 blocks, 3 block contents, writes that store their page or nothing | Is the cache an array of pages? What does an unnoticed failure harm? |
| `pager_short` | the same with short writes | **Violated**: part of a page survives and the page is handed out again. |
| `node_find` | every ascending node of up to 5 of 7 keys, every key | Is the binary search right and short? |
| `scan` | 4 keys, 2 rows, inserts, deletes, 2 sessions | What does a scan show, whatever happened before? |
| `scan_deleted` | the same, one session | **Violated**: a deleted row is shown. |
| `catalog` | 2 slots, 6 names of 1 or 2 letters in fields of 2, 4 pages, 3 sessions | Does the catalog survive failures, restarts, crashes and a `pager_close` that is cut short? |
| `catalog_failed` | the same with 14 names of 1 to 3 letters in fields of 3 | **Violated**: a table made after a failed CREATE TABLE is not found. |
| `command` | 2 keys, an INTEGER key and a TEXT of 2 bytes, `MaxColumns` = 2 | What does a line do to memory and rows, whatever its tokens, and does it end? |
| `command_text` | the same, one key | **Violated**: an UPDATE with a shorter text leaves the end of the old one. |

Why the bounds are enough.  A node of two cells is full, half full or of one
cell, and its split has a first, a middle and a last place for the new cell;
with `InternalMax` = 2 nine nearly ascending keys (keys are inserted at most
`Window` = 4 apart, so that the leftmost node can fill up as well and be the one
that is cut off) make a root that is split twice as an internal node and
separators that climb through two full nodes.  `btree_deep` sets `Headroom` to 0,
so that an INSERT may begin with any number of pages left (other tables take
them, `MaxOthers`); 16 pages are what the largest of its trees needs.  It has a
DELETE only when the table is full (`Crowd` rows), and no INSERT after one that
emptied a leaf (`Refill`): those are for `btree_churn`.  `btree_churn` keeps `Headroom` pages, so that no run of it ends early.
In `btree_churn` the internal node has room for all separators there can be
(four distinct keys): a node split before a restart is what `btree_restart`
shows to go wrong, and what `btree_deep` shows to be right within a session.
Two sessions suffice for what a single file can hold from an earlier one; the
lost parent pointer needs a third, and `btree_restart` has it.
A database whose INSERT has run out of pages is not followed further
(`Settled`, `Begin`).  `ErrorsCutOff` says how the code leaves it: if no page was
left for a leaf, nothing is lost; if none was left for an internal node, the row
is stored although the reply is an error, and the lookups find all rows but those
of the subtree that has no place, or but those of a cleared node's children
except the last; a walk still comes to all rows, unless the node that was cleared
is on the way to the first leaf, which then leads to page 0.  `Operations`, `Window`, `Crowd`, `Refill` and the row of a
key in `scan` are bounds of the MC modules, as ACTION_CONSTRAINTs; `MaxOthers` is
the bound on tables besides the one modelled.  Symmetry over the two rows is used
in `btree_churn` only, which has no liveness property.

In `command` a list of two can be empty, in the middle, full and too long; a
text is shorter than its array, fills it (and then has no zero byte) or is too
long for it; two rows are a first and a last one.  A BOOLEAN column would behave
as an INTEGER one does; BOOLEAN literals are there as values of a wrong type.  A
run of commas or of other tokens that change nothing is a stuttering step, so
weak fairness says that a line is finite, and nothing more.

`CHECK_DEADLOCK FALSE` is set where the model may stop: after a statement
without pages (`btree_deep`), when page 0 has been written to as a node or the
session bound is reached with a full catalog (`catalog`), when a search is done (`node_find`), and where a bound on
keys or sessions leaves nothing to do (`scan`).

Fairness is weak fairness of `Step` (a statement that has begun runs on), of
`ScanStep` and of `Work` (a line that has been read is worked on): there is one thread, it waits for nothing but input, and input comes
between statements only.  Nothing is assumed of the user, of restarts or of
crashes.

## Findings

1. `split_internal_node` does not mark the children dirty whose parent pointers
   it rewrites (`btree.c:289-296`, `349-355`).  The next session splits a leaf,
   follows the old pointer and puts the separator into the wrong node.
   (`btree_restart`)
2. `table_scan_next` reads the first cell of the leaf it moves on to without
   looking at its number of cells (`table.c:414-428`): the last deleted row of a
   leaf is shown by every scan.  `scan` and `OldRowsAreThere` show that this is
   all: such a row stands where a lookup of its key would go, so no key is ever
   shown twice.  (`scan_deleted`)
3. `create_table` does not clear a slot that a failed CREATE TABLE has filled
   (`table.c:304-319`).  (`catalog_failed`)
4. `num_pages` is rounded down and reads are rounded up (`pager.c:43`, `69`),
   and a short write is taken for a success (`pager.c:110`).  (`pager_short`)
5. `update_command` does not clear a text before it copies a shorter one over it
   (`table.c:181`); `insert_command` does (`table.c:48`).  (`command_text`)

What the model of a line has besides, and no document contradicts: an UPDATE may
set the primary key, after which lookups and filters disagree
(`KeysAgreeUntilUpdated` exempts it and says that nothing else makes them); an
UPDATE with an error before its WHERE frees what it does not own, or tries to
(`UnsetIsAnUpdates`: no other statement does); a minus sign is the
integer 0, so that `WHERE id = -5` hits row 0, though it gets into no row
(`UnknownsStayInWhere`), and `.tokens` and
`.schema` never return from it (`LinesEnd`); what follows a statement is ignored;
commas in lists are optional; `SELECT FROM t` is `SELECT * FROM t`.

And of the files: an INSERT that runs out of pages in a node split loses other rows
from the index (`ErrorsCutOff`), and a `pager_close` that is cut short may leave
a catalog whose tables have no root page, or the same one (`RootsAreDistinct`
exempts these pages and no others).

`StatementsAreWhole` looks at rows, not at the cells that a DELETE shifts while it
goes through a leaf; those are in BTree, where `ImplementsTable` looks at them.

Finding 1 bounds what the runs over several sessions can claim, which is why
`btree_churn` excludes splits of internal nodes.  What holds in spite of it,
`PointersLead`, is proved below: a stale parent pointer still leads to an
internal node, so the damage is a misplaced separator and never a step into a
wrong kind of page.

## Proofs

All for every value of the constants that the named ASSUMEs of the modules
allow (integer keys, capacities of at least 1 and 2, at least 2 pages).

* `BTreeProofs!InvariantHolds`: `Spec => []IInv`, and from it `TypeCorrect` and
  `PointersCorrect`.  TypeOK is not inductive: that a split finds a full internal
  node where a parent pointer leads depends on what pointers lead to, in memory
  and, for the sake of a restart, in the file.  `IInv` adds `FileInv` (the pages
  in the file are linked among themselves), `MemInv` (a page that is not dirty is
  as in the file but for its parent pointer; a page once internal stays
  internal) and `StepInv` (what each program counter value implies).  There is a
  lemma per action or family of actions; the operators of Node have theirs at
  the head of the module (a position is within the cells, halves fit, separators point
  where they did).
  From the same invariant follow `ChangesMarked` and, in the same module,
  `TreeUsesPageFile`: every step of the tree is a step of PageFile or leaves it
  alone.
* `TreeProofs!TreeHolds`: the pages are a search tree, `[]TreeInv`.  The recursive
  definitions of the properties (heights, first and last leaves, the leaf of a
  key) cannot be inducted over here, so the invariant says what they would say
  without them (`SearchTree`): there are a set `T` of pages, a height `h` for each
  and the set `own` of the integers that lead to it, such that the root owns all
  integers, the children of a node partition what it owns at its separators and
  are one level lower, two pages of one height own nothing in common, keys of a
  page are among those it owns and ascend, every page but the root hangs below
  the page that its parent pointer names, and `NEXT_LEAF` leads to the leaf that
  owns the next integer.  It holds between the steps of a statement too: while a
  separator climbs, of the pages as they will be when it is in place (`View`).
  `Placed` says where a statement is: at a page that owns its key, or at a leaf
  before which all leaves are done.  `TreeInv` has such a tree in the file as well,
  since a crash makes the program start from it.
* `TreeTheorems`: what follows from it.  `ParentPointersHold`, `RowsFound`,
  `ChainHolds`, `BalanceHolds` and `ScanOrderHolds` are the properties of
  `BTreeProperties`; `TableImplemented` is the refinement: `Spec` implements
  DurableTable.  Its lemmas say what each action does to the rows in the pages
  (`LeafCells`); that a leaf owns its keys gives that a key looked for in one leaf
  is nowhere else (`LeafHasKey`, `RowsOnce`), so that at the prompt the rows in the
  pages are those that lookups find (`AllRowsAreFound`), and that the chain is in order gives
  that a walk that ends has seen all leaves (`WalkIsDone`).
  For table scans: `ScanTypesHold`, `ScansAscendAlways`, `ScansAreComplete` and
  `OldRowsAreThere`, from `ScanInv`, which is kept along with the tree.  It says
  that what has been shown are the selected cells among those that the cursor is
  past (`ShownSoFar`), that before the first leaf the cursor is on a page that
  owns all the smallest keys, and that the bytes an emptied leaf keeps are of a
  row whose key the leaf still owns (`OldBytes`), in the file too.  That such a
  row does not stand beside a live one with its key, and is in its place in the
  order, is why.  `OldBytes` needs that no statement moves the bounds of an empty
  leaf: only a full one is split, and a leaf is given no keys but by a split
  (`KeptEmpty`, in the lemma of each step in TreeProofs).
  All of these, and `TreeHolds`, have the hypothesis
  `[][Restart => ParentsSaved]_vars`: no restart takes place while a parent
  pointer is in memory only.  Finding 1 is that the code allows one, and
  `btree_restart` shows that without the hypothesis the conclusion is false.  It
  restricts nothing within a session; `OnlyNodeSplitsLose` shows that between
  sessions it fails only after an INSERT has split an internal node, so that tables
  whose internal nodes have not been split (in a real page: up to 341 leaves) are
  covered without it.
* `NodeFind`, after the model: the loop invariant, the result (`SearchIsCorrect`) and the
  number of comparisons (`SearchIsShort`), for nodes of any length.
* `PagerProofs`: `PagerInvHolds` and `AllocationIsFresh`, under the condition
  `WholeWrites` that writes store a page or nothing, which is the condition that
  `pager_short` shows to be needed.  Any page size, any number of pages.
  Under the same condition `PagerImplementsPageFile`
  and, because a PageFile does not tell an orderly end from a crash before the
  last write, `ClosingSavesHolds`: a failed write costs its own page and no
  other.  Both rest on `SaveInv`: what the file holds after
  each turn of `pager_close`, which needs that a whole page written reads back
  and leaves every other page alone (`WholeWrite`), and that a page past the end
  of the file reads as zero whether it is fetched or not (`FetchedIsStored`).
  With `TreeUsesPageFile` this is the whole way from the tree to the bytes.
* `CatalogProofs`: `CatalogInvHolds`, and from it `RootsStayDistinct` and
  `CatalogCountsTables`, all while page 0 is `intact`.  That roots are distinct but
  for missing ones is not inductive: after a
  restart pages are counted from the end of the file, so that every root must be
  among the pages that a restart keeps (`Kept`) or `missing`, and page 0 in the
  file must be as good as the one in memory.
  `CleanTablesFound` rests on `ListedInv` as well: each table that was made in an
  empty slot is in a slot below the count, which no later step writes to (`Fill`
  writes to the first slot behind), in the file too if it was saved; and page 0 in
  memory is the one in the file unless it is marked.  The rest is about bytes: a
  name copied over zeros reads as that name (`NameInEmptySlot`).
* `CommandProofs`: `LineInvHolds`, and from it `AllocationsAreAlwaysOwned`,
  `ListsAlwaysFit`, `TreesAreAlwaysWhole`, `UnknownsAlwaysStayInWhere` and
  `UnsetIsAlwaysAnUpdates`, for any number of columns, any rows and lines of any
  length.  None of them is inductive: `LineInv` says for every place of the parser which statement it may
  be in (`PlacesOf`), that its WHERE is not set yet and its lists are of one
  length but between a column and its value (`Growing`), what is in hand
  (`HandInv`), and that an unknown token among the values means that only unknown
  ones follow, so that the list is never closed.  There is a lemma per place, and
  one for each way a place is left (`SkipStep`, `FailStep`, `ReturnStep`,
  `EndStep`).  `PlanIsCounted` counts the nodes of the plan.  The count of nodes is part of
  `LineInv` in every state; `AllocationsAreAlwaysOwned` makes its claim of those
  whose heap no UPDATE has damaged, as the number says nothing of the heap there.
  For what statements do to rows there is `RowsInv`: while an UPDATE or a DELETE is
  under way, the rows it has yet to come to are as they were when it began, each of
  the others is what its WHERE and the assignments make of it (`UpdatingInv`,
  `DeletingInv`), and if an assignment is too long no row has changed at all.  From
  it and `LineInv` follow `StatementsAreAlwaysWhole`, `KeysStayInStep` and
  `CommandTypesHold`.  An UPDATE is a fold over its assignments; `UpdatedInOrder`
  unfolds it into the rows after each of them, and `UpdatedRow` says what is left
  in a column that is assigned to once or not at all.

Where a property speaks of a recursive function over the tree, or a row is a
fold, the proof first shows that the function exists
(`RecursionProofs!RecursionHasSolution`: each argument leads to ones of a lower
measure only, and of the measures there is a least at which a solution could
fail), which is what its recursion equation rests on.

Every safety property that a passing run checks is a theorem, under the condition
named with it where there is one, but for `ErrorsCutOff`.  Only
model-checked: that one; liveness (`StatementsFinish`, `ScansFinish`, `LinesEnd`), which like
ENABLED is beyond the prover; and what is violated, of course, in the runs that
show it.

## Not modelled

What a projection prints; how the lexer cuts words and compares them with
keywords; the texts of errors; the printing of trees, plans, pages, tables and
schemas, and with it `.btree`, which takes the catalog page for the root of a
tree (`btree.c:117`); line editing and the history (`repl.c`); failures of
`open`, `malloc` and `read`, which end the program or the statement without
touching state; names longer than their field, and column names as long as it;
columns of the same name in one table, which CREATE TABLE accepts and of
which statements see the first; a torn write of a page by a crash, which is a
short write followed by a crash.

## Plan

After an INSERT that lost rows: further statements on the tree it leaves (a
theorem for `ErrorsCutOff` needs the leaves below a node, by `TreeInv`).
Database: catalog, several trees and the pager in one state, statements from
parse to print; `.btree` on page 0.
