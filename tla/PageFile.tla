------------------------------ MODULE PageFile ------------------------------
(***************************************************************************)
(* What the pager promises its users: an array of pages that is changed in *)
(* memory, saved as a whole when the database is closed, and otherwise as  *)
(* it was when it was opened.  Only pages marked dirty are saved, and a    *)
(* crash while the database is being closed cuts the saving short.         *)
(***************************************************************************)
EXTENDS Integers, FiniteSetsExt

CONSTANTS
  Pages,    \* the page numbers, natural numbers
  MayLose   \* TRUE if the saving of a page may fail

VARIABLES
  content,    \* what a page holds
  marked,     \* the pages to save
  count,      \* the pages in use: 0 .. count - 1
  saved,      \* what the file holds
  savedCount  \* the pages that are in use if the file is opened

vars == <<content, marked, count, saved, savedCount>>

\* The pages in use are changed at will, and more are taken into use.
Use ==
  /\ count <= count'
  /\ marked \subseteq marked'
  /\ \A p \in marked' : p < count'
  /\ \A p \in Pages : p >= count' => content'[p] = content[p]
  /\ UNCHANGED <<saved, savedCount>>

\* The file is opened again after some pages have been written to it.
OpenAfter(written) ==
  /\ saved' = [p \in Pages |-> IF p \in written THEN content[p] ELSE saved[p]]
  /\ savedCount' = Max({savedCount} \cup {p + 1 : p \in written})
  /\ content' = saved'
  /\ count' = savedCount'
  /\ marked' = {}

Losses == IF MayLose THEN SUBSET marked ELSE {{}}

Close == \E lost \in Losses : OpenAfter(marked \ lost)

\* Pages are saved in the order of their numbers.
Crash ==
  \E upto \in {0} \cup {p + 1 : p \in Pages}, lost \in Losses :
    OpenAfter({p \in marked \ lost : p < upto})

Init ==
  /\ content = saved
  /\ marked = {}
  /\ count = savedCount

Next == Use \/ Close \/ Crash

Spec == Init /\ [][Next]_vars
=============================================================================
