----------------------------- MODULE DumpFormat -----------------------------
(***************************************************************************)
(* The `.jibsdump` file (client/src/dump.rs) as a sequence of records.     *)
(* Each record names the export that wrote it.  A file that lost its end   *)
(* may stop in the middle of a record: it is torn.                         *)
(***************************************************************************)
EXTENDS Naturals, Sequences

CONSTANTS
  Tables,         \* the tables of the stream
  Chunks,         \* how many chunks each of them has
  Silent,         \* aggregate tables without rows: a TableEnd and no Table
  HasPreserves,   \* the plan has preserve rules
  HasPostProcess  \* the plan has set blocks or after statements

ASSUME FormatAssumption ==
  /\ Chunks \in [Tables -> Nat]
  /\ Silent \subseteq Tables /\ \A t \in Silent : Chunks[t] = 0
  /\ HasPreserves \in BOOLEAN /\ HasPostProcess \in BOOLEAN

NoFile == [recs |-> << >>, torn |-> FALSE, there |-> FALSE]
EmptyFile == [NoFile EXCEPT !.there = TRUE]

\* How many records a table has.
Records(t) == Chunks[t] + (IF t \in Silent THEN 1 ELSE 2)

\* The nth record of a table: Table, its chunks, TableEnd.  The number stands
\* for what the record contains.
TableRec(t, n, g) ==
  [kind |-> IF n = Records(t) THEN "TableEnd" ELSE IF n = 1 THEN "Table" ELSE "Chunk",
   table |-> t, n |-> n, of |-> g]
PlanRec(kind, g) == [kind |-> kind, of |-> g]

\* write_manifest writes nothing when there is nothing to carry.
Manifest(g) == IF HasPreserves THEN <<PlanRec("Manifest", g)>> ELSE << >>

\* So does write_post_process; write_foreign_keys always writes.
PlanTrailer(g) ==
  IF HasPostProcess THEN <<PlanRec("PostProcess", g), PlanRec("ForeignKeys", g)>>
  ELSE <<PlanRec("ForeignKeys", g)>>

End(g) == PlanRec("End", g)

\* next_record: a torn end and an end without terminator are both refused.
Accepted(f) == f.there /\ \E i \in DOMAIN f.recs : f.recs[i].kind = "End"

\* The file consists of the manifest, the first w[t] records of each table t,
\* interleaved but each in order, and the records z, all of export g.
Consists(f, g, w, z) ==
  LET m == Manifest(g)
      body == Len(m) + 1 .. Len(f.recs) - Len(z)
  IN /\ f.there /\ ~f.torn /\ Len(m) + Len(z) <= Len(f.recs)
     /\ \A i \in 1 .. Len(m) : f.recs[i] = m[i]
     /\ \A i \in 1 .. Len(z) : f.recs[Len(f.recs) - Len(z) + i] = z[i]
     /\ \A i \in body : \E t \in Tables : \E n \in 1 .. w[t] : f.recs[i] = TableRec(t, n, g)
     /\ \A t \in Tables : \A n \in 1 .. w[t] : \E i \in body : f.recs[i] = TableRec(t, n, g)
     /\ \A i, j \in body :
          i < j /\ f.recs[i].table = f.recs[j].table => f.recs[i].n < f.recs[j].n

\* What a loader may rely on: the manifest before everything, all records of
\* every table in order, the plan's trailer and the terminator, of one export.
Whole(f) ==
  \E g \in {f.recs[i].of : i \in DOMAIN f.recs} :
    Consists(f, g, [t \in Tables |-> Records(t)], PlanTrailer(g) \o <<End(g)>>)

\* What may be left of a file whose end did not reach the disk.
Remains(f) ==
  IF ~f.there THEN {f}
  ELSE {f} \cup {[there |-> TRUE, recs |-> SubSeq(f.recs, 1, n), torn |-> b] :
                   n \in 0 .. Len(f.recs) - 1, b \in BOOLEAN}
=============================================================================
