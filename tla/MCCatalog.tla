------------------------------ MODULE MCCatalog ------------------------------
(***************************************************************************)
(* Instances of Catalog for TLC.                                           *)
(***************************************************************************)
EXTENDS Catalog

\* Two columns: with the second as the primary key, and with the first as the
\* primary key but too long a name for the second.
TwoColumns ==
  {[count |-> 2, pk |-> 1, long |-> -1], [count |-> 2, pk |-> 0, long |-> 1]}
=============================================================================
