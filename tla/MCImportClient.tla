--------------------------- MODULE MCImportClient ---------------------------
(* ImportClient for TLC: a table of two chunks, one of one, one without rows. *)
EXTENDS ImportClientInv
CONSTANTS ta, tb, tc
MCChunks == [t \in Tables |-> CASE t = ta -> 2 [] t = tb -> 1 [] OTHER -> 0]
=============================================================================
