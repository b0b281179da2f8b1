---------------------------- MODULE MCDumpExport ----------------------------
(* A table with chunks, and one without a schema. *)
EXTENDS DumpExport

CONSTANTS ta, ts

MCChunks == [t \in Tables |-> IF t = ta THEN 2 ELSE 0]
=============================================================================
