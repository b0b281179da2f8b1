----------------------------- MODULE MCDumpLoad -----------------------------
(* A preserved table with two chunks, an empty preserved one, one chunk     *)
(* without a rule, and a table of which only TableEnd is in the dump.       *)
EXTENDS DumpLoad

CONSTANTS ta, tb, tc, ts

MCChunks == [t \in Tables |-> IF t = ta THEN 2 ELSE IF t = tc THEN 1 ELSE 0]
=============================================================================
