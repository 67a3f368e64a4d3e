----------------------------- MODULE MCCommand -----------------------------
(***************************************************************************)
(* A table of an INTEGER primary key and a TEXT of two bytes; two keys;    *)
(* texts that are shorter than the array, that fill it and that are too    *)
(* long for it.                                                            *)
(***************************************************************************)
EXTENDS CommandProperties

KeyAndText == <<"INTEGER", "TEXT">>
SomeTexts == {<<1>>, <<2, 2>>, <<1, 1, 1>>}
=============================================================================
