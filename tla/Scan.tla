-------------------------------- MODULE Scan --------------------------------
(***************************************************************************)
(* SELECT by a table scan: the cursor that process_command                 *)
(* (src/src/command.c) pulls rows from, over the tree of module BTree.     *)
(* build_plan (src/src/ast.c) takes a primary key lookup, which is in      *)
(* BTree, for a WHERE on the primary key, and otherwise a scan, under a    *)
(* filter if there is a WHERE.  Statements do not overlap: the tree stands *)
(* still while a scan is at work.                                          *)
(*                                                                         *)
(* DELETE leaves the bytes of a row where they were when no row moves over *)
(* them, so a leaf that has become empty still has an old row in its first *)
(* cell, and table_scan_next does not look at the number of cells of the   *)
(* leaf it moves on to.                                                    *)
(***************************************************************************)
EXTENDS BTreeProperties

VARIABLES
  cursor,      \* the scan's current page and cell, and the filter above it
  shown,       \* the cells whose rows the scan has printed
  first,       \* the bytes of the first cell of each leaf, in memory
  firstOnDisk  \* and in the file

scanVars == <<cursor, shown, first, firstOnDisk>>
allVars == <<vars, scanVars>>

NoCell == [key |-> 0]
NoCursor == [page |-> 0, cell |-> 0, where |-> {}, done |-> TRUE]

\* No WHERE, or a WHERE on a column that is not the primary key.
ScanWheres == {LeafCell} \cup {{c \in LeafCell : c.row = r} : r \in Rows}

ScanTypeOK ==
  /\ cursor \in [page : PageNum, cell : 0 .. LeafMax, where : ScanWheres \cup {{}}, done : BOOLEAN]
  /\ shown \in Seq(LeafCell)
  /\ first \in [NodePages -> LeafCell \cup {NoCell}]
  /\ firstOnDisk \in [NodePages -> LeafCell \cup {NoCell}]

ScanInit ==
  /\ Init
  /\ cursor = NoCursor /\ shown = <<>>
  /\ first = [p \in NodePages |-> NoCell]
  /\ firstOnDisk = first

-----------------------------------------------------------------------------
\* build_plan and build_cursor, for a SELECT that is not a lookup.
BeginScan ==
  /\ pc = "idle" /\ result.code # "error"
  /\ cursor.done
  /\ \E w \in ScanWheres :
       cursor' = [page |-> RootPage, cell |-> 0, where |-> w, done |-> FALSE]
  /\ shown' = <<>>
  /\ UNCHANGED <<vars, first, firstOnDisk>>

Here == mem[cursor.page]

\* table_scan_next, on its first call: down to the leftmost leaf.
ScanDown ==
  /\ ~ cursor.done
  /\ Here.type = "internal"
  /\ cursor' = [cursor EXCEPT !.page = Here.cells[1].child, !.cell = 0]
  /\ UNCHANGED <<vars, shown, first, firstOnDisk>>

\* filter_next: the row is printed if the WHERE selects it.
Show(cell) == shown' = IF cell \in cursor.where THEN Append(shown, cell) ELSE shown

\* Mutant: the first row of a leaf is shown again.
ScanRowAgain ==
  /\ ~ cursor.done
  /\ Here.type = "leaf" /\ cursor.cell <= Len(Here.cells) /\ Here.cells # <<>>
  /\ Show(Here.cells[Max({cursor.cell, 1})])
  /\ cursor' = [cursor EXCEPT !.cell = @ + 1]
  /\ UNCHANGED <<vars, first, firstOnDisk>>

\* table_scan_next: the next row of this leaf.
ScanRow ==
  /\ ~ cursor.done
  /\ Here.type = "leaf" /\ cursor.cell < Len(Here.cells)
  /\ Show(Here.cells[cursor.cell + 1])
  /\ cursor' = [cursor EXCEPT !.cell = @ + 1]
  /\ UNCHANGED <<vars, first, firstOnDisk>>

ScanSpent ==
  /\ ~ cursor.done
  /\ Here.type = "leaf" /\ cursor.cell >= Len(Here.cells)

\* Mutant: the cell number is not reset when the scan moves to the next leaf.
ScanOnCellKept ==
  /\ ScanSpent
  /\ Here.link # 0
  /\ Show(first[Here.link])
  /\ cursor' = [cursor EXCEPT !.page = Here.link, !.cell = Max({@, 1})]
  /\ UNCHANGED <<vars, first, firstOnDisk>>

\* Mutant: the row is read from the leaf that the scan leaves.
ScanOnStale ==
  /\ ScanSpent
  /\ Here.link # 0
  /\ Show(first[cursor.page])
  /\ cursor' = [cursor EXCEPT !.page = Here.link, !.cell = 1]
  /\ UNCHANGED <<vars, first, firstOnDisk>>

\* table_scan_next: on to the next leaf, whose first cell is read whether or
\* not the leaf has a row.
ScanOn ==
  /\ ScanSpent
  /\ Here.link # 0
  /\ Show(first[Here.link])
  /\ cursor' = [cursor EXCEPT !.page = Here.link, !.cell = 1]
  /\ UNCHANGED <<vars, first, firstOnDisk>>

\* Mutant: the scan does not remember that it is done.
ScanEndForgotten ==
  /\ ScanSpent
  /\ Here.link = 0
  /\ UNCHANGED <<vars, scanVars>>

\* table_scan_next: this was the last leaf.
ScanEnd ==
  /\ ScanSpent
  /\ Here.link = 0
  /\ cursor' = [cursor EXCEPT !.done = TRUE]
  /\ UNCHANGED <<vars, shown, first, firstOnDisk>>

ScanStep == ScanDown \/ ScanRow \/ ScanOn \/ ScanEnd

-----------------------------------------------------------------------------
\* A statement of BTree.  The first cell of a leaf keeps its bytes when the
\* last row is deleted.
TreeStep ==
  /\ cursor.done
  /\ BeginInsert \/ BeginSelect \/ BeginDelete \/ BeginUpdate \/ Step
  /\ cursor' = NoCursor /\ shown' = <<>>
  /\ first' = [p \in NodePages |->
                 IF mem'[p].type = "leaf" /\ mem'[p].cells # <<>> THEN mem'[p].cells[1]
                 ELSE first[p]]
  /\ UNCHANGED firstOnDisk

\* The bytes of a page go to the file, or are lost, with the rest of it.
ScanRestart ==
  /\ cursor.done
  /\ Restart
  /\ cursor' = NoCursor /\ shown' = <<>>
  /\ firstOnDisk' = [p \in NodePages |-> IF p \in dirty THEN first[p] ELSE firstOnDisk[p]]
  /\ first' = firstOnDisk'

ScanCrash ==
  /\ Crash
  /\ cursor' = NoCursor /\ shown' = <<>>
  /\ first' = firstOnDisk
  /\ UNCHANGED firstOnDisk

ScanNext == BeginScan \/ ScanStep \/ TreeStep \/ ScanRestart \/ ScanCrash

ScanSpec == ScanInit /\ [][ScanNext]_allVars

\* process_command pulls until the cursor has no more.
FairScanSpec == ScanSpec /\ WF_allVars(ScanStep)

-----------------------------------------------------------------------------
\* The rows of a scan come in the order of their primary keys and no key comes
\* twice, rows of an emptied leaf included: an old row never stands beside a
\* live one with its key.
ScanAscends == \A i, j \in 1 .. Len(shown) : i < j => shown[i].key < shown[j].key

ScanFinished == cursor.done /\ cursor # NoCursor

\* A scan that has come to its end has shown every row that its WHERE selects,
\* with the values the row has now.
ScanIsComplete ==
  ScanFinished => \A c \in LeafCells(mem) \cap cursor.where : \E i \in 1 .. Len(shown) : shown[i] = c

\* Deleted rows are excluded from what a scan shows.
ScanShowsNoDeletedRow ==
  ScanFinished => \A i \in 1 .. Len(shown) : shown[i] \in LeafCells(mem)

\* A row that a scan shows and the table does not have is the row that was last
\* in its leaf: the leaf is empty, is not the leftmost one, and is where a row
\* with that key would be looked up.
OldRowsAreOfEmptyLeaves ==
  ScanFinished => \A i \in 1 .. Len(shown) :
    shown[i] \notin LeafCells(mem) =>
      LET p == LeafFor(shown[i].key)
      IN  mem[p].cells = <<>> /\ p # FirstLeaf[RootPage] /\ first[p] = shown[i]

\* A scan that has begun comes to its end.
ScansFinish == ~ cursor.done ~> cursor.done
=============================================================================
