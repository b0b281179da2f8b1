-------------------------- MODULE DumpExportProofs --------------------------
(***************************************************************************)
(* For any plan, tables, exports and faults: a dump that bears its name is *)
(* whole unless the disk lost its end, and a file that has its terminator  *)
(* is whole, wherever the export that wrote it was stopped.                *)
(***************************************************************************)
EXTENDS DumpExport, TLAPS

USE FormatAssumption

PlanRecs == {PlanRec(k, g) : k \in {"Manifest", "PostProcess", "ForeignKeys", "End"}, g \in Nat}
TableRecs == {TableRec(t, n, g) : t \in Tables, n \in Nat, g \in Nat}
Recs == PlanRecs \cup TableRecs
Files == [recs : Seq(Recs), torn : BOOLEAN, there : BOOLEAN]

All == [t \in Tables |-> Records(t)]
Trailer(g) == PlanTrailer(g) \o <<End(g)>>

Phases == {"idle", "start", "stream", "discard", "finish", "rename", "done", "failed", "left",
           "killed"}

TypeInv ==
  /\ part \in Files /\ dump \in Files
  /\ pc \in Phases /\ gen \in Nat /\ lost \in BOOLEAN
  /\ written \in [Tables -> Nat] /\ \A t \in Tables : written[t] <= Records(t)

\* What the export has written so far is in the file it is writing.
PartInv ==
  /\ pc \in {"start", "stream", "discard"} => Consists(part, gen, written, << >>)
  /\ pc = "finish" => Consists(part, gen, All, PlanTrailer(gen))
  /\ pc = "rename" => Consists(part, gen, All, Trailer(gen))

IInv == TypeInv /\ PartInv /\ AcceptedIsWhole /\ PublishedIsWhole

(* ------------------------------- records ------------------------------- *)

\* The records of tables and plans are told apart by their kinds.
LEMMA RecordKinds ==
  /\ \A t \in Tables, n, g \in Nat :
       /\ TableRec(t, n, g) \in Recs /\ TableRec(t, n, g).kind # "End"
       /\ TableRec(t, n, g).table = t /\ TableRec(t, n, g).n = n
  /\ \A k \in {"Manifest", "PostProcess", "ForeignKeys", "End"}, g \in Nat :
       PlanRec(k, g) \in Recs /\ PlanRec(k, g).kind = k /\ PlanRec(k, g).of = g
<1>1. ASSUME NEW t \in Tables, NEW n \in Nat, NEW g \in Nat
      PROVE  /\ TableRec(t, n, g) \in Recs /\ TableRec(t, n, g).kind # "End"
             /\ TableRec(t, n, g).table = t /\ TableRec(t, n, g).n = n
  <2>1. TableRec(t, n, g) \in Recs
    BY DEF Recs, TableRecs
  <2> QED
    BY <2>1 DEF TableRec
<1>2. ASSUME NEW k \in {"Manifest", "PostProcess", "ForeignKeys", "End"}, NEW g \in Nat
      PROVE  PlanRec(k, g) \in Recs /\ PlanRec(k, g).kind = k /\ PlanRec(k, g).of = g
  <2>1. PlanRec(k, g) \in Recs
    BY DEF Recs, PlanRecs
  <2> QED
    BY <2>1 DEF PlanRec
<1> QED
  BY <1>1, <1>2

\* A table has a TableEnd at least.
LEMMA RecordsType == \A t \in Tables : Records(t) \in Nat
BY DEF Records

\* The manifest and the trailer are short, and only the last record is End.
LEMMA PlanSequences ==
  ASSUME NEW g \in Nat
  PROVE  /\ Manifest(g) \in Seq(Recs) /\ PlanTrailer(g) \in Seq(Recs) /\ Trailer(g) \in Seq(Recs)
         /\ \A i \in 1 .. Len(Manifest(g)) : Manifest(g)[i].kind # "End"
         /\ \A i \in 1 .. Len(PlanTrailer(g)) : PlanTrailer(g)[i].kind # "End"
         /\ Len(Trailer(g)) = Len(PlanTrailer(g)) + 1
         /\ Trailer(g)[Len(Trailer(g))] = End(g)
         /\ \A i \in 1 .. Len(PlanTrailer(g)) : Trailer(g)[i] = PlanTrailer(g)[i]
<1>1. /\ PlanRec("Manifest", g) \in Recs /\ PlanRec("PostProcess", g) \in Recs
      /\ PlanRec("ForeignKeys", g) \in Recs /\ End(g) \in Recs
      /\ PlanRec("Manifest", g).kind # "End" /\ PlanRec("PostProcess", g).kind # "End"
      /\ PlanRec("ForeignKeys", g).kind # "End"
  BY RecordKinds DEF End
<1>2. /\ Manifest(g) \in Seq(Recs)
      /\ \A i \in 1 .. Len(Manifest(g)) : Manifest(g)[i].kind # "End"
  BY <1>1 DEF Manifest
<1>3. /\ PlanTrailer(g) \in Seq(Recs)
      /\ \A i \in 1 .. Len(PlanTrailer(g)) : PlanTrailer(g)[i].kind # "End"
  BY <1>1 DEF PlanTrailer
<1>4. /\ Trailer(g) \in Seq(Recs) /\ Len(Trailer(g)) = Len(PlanTrailer(g)) + 1
      /\ Trailer(g)[Len(Trailer(g))] = End(g)
      /\ \A i \in 1 .. Len(PlanTrailer(g)) : Trailer(g)[i] = PlanTrailer(g)[i]
  BY <1>1, <1>3 DEF Trailer
<1> QED
  BY <1>2, <1>3, <1>4

(* -------------------------------- files -------------------------------- *)

\* Records written after others leave those where they are.
LEMMA WriteFacts ==
  ASSUME NEW f \in Files, NEW rs \in Seq(Recs)
  PROVE  /\ Write(f, rs) \in Files
         /\ Write(f, rs).there = f.there /\ Write(f, rs).torn = f.torn
         /\ Len(Write(f, rs).recs) = Len(f.recs) + Len(rs)
         /\ Len(f.recs) \in Nat /\ Len(rs) \in Nat
         /\ \A i \in 1 .. Len(f.recs) : Write(f, rs).recs[i] = f.recs[i]
         /\ \A i \in 1 .. Len(rs) : Write(f, rs).recs[Len(f.recs) + i] = rs[i]
<1>1. f.recs \in Seq(Recs) /\ Write(f, rs) = [f EXCEPT !.recs = f.recs \o rs]
  BY DEF Files, Write
<1>2. Write(f, rs).recs = f.recs \o rs
  BY <1>1 DEF Files
<1>3. Write(f, rs).there = f.there /\ Write(f, rs).torn = f.torn
  BY <1>1 DEF Files
<1>4. Write(f, rs) \in Files
  <2>1. f.recs \o rs \in Seq(Recs)
    BY <1>1
  <2> QED
    BY <1>1, <2>1 DEF Files
<1> QED
  BY <1>1, <1>2, <1>3, <1>4

\* The plan's records follow what is there.
LEMMA WritePlan ==
  ASSUME NEW f \in Files, NEW g \in Nat, NEW w \in [Tables -> Nat],
         NEW z \in Seq(Recs), NEW rs \in Seq(Recs), Consists(f, g, w, z)
  PROVE  Consists(Write(f, rs), g, w, z \o rs)
<1> DEFINE h == Write(f, rs)
           y == z \o rs
           m == Manifest(g)
           last == Len(f.recs) - Len(z)
<1>1. /\ h.there = f.there /\ h.torn = f.torn
      /\ Len(h.recs) = Len(f.recs) + Len(rs) /\ Len(f.recs) \in Nat /\ Len(rs) \in Nat
      /\ \A i \in 1 .. Len(f.recs) : h.recs[i] = f.recs[i]
      /\ \A i \in 1 .. Len(rs) : h.recs[Len(f.recs) + i] = rs[i]
  BY WriteFacts
<1>2. /\ y \in Seq(Recs) /\ Len(y) = Len(z) + Len(rs) /\ Len(z) \in Nat
      /\ \A i \in 1 .. Len(z) : y[i] = z[i]
      /\ \A i \in 1 .. Len(rs) : y[Len(z) + i] = rs[i]
  OBVIOUS
<1>3. Len(m) \in Nat
  BY PlanSequences
<1> HIDE DEF h, y, m
<1>4. /\ f.there /\ ~f.torn /\ Len(m) + Len(z) <= Len(f.recs)
      /\ \A i \in 1 .. Len(m) : f.recs[i] = m[i]
      /\ \A i \in 1 .. Len(z) : f.recs[last + i] = z[i]
      /\ \A i \in Len(m) + 1 .. last :
           \E t \in Tables : \E n \in 1 .. w[t] : f.recs[i] = TableRec(t, n, g)
      /\ \A t \in Tables : \A n \in 1 .. w[t] :
           \E i \in Len(m) + 1 .. last : f.recs[i] = TableRec(t, n, g)
      /\ \A i, j \in Len(m) + 1 .. last :
           i < j /\ f.recs[i].table = f.recs[j].table => f.recs[i].n < f.recs[j].n
  BY DEF Consists, m
<1>5. last = Len(h.recs) - Len(y) /\ last \in Nat /\ last <= Len(f.recs)
  BY <1>1, <1>2, <1>3, <1>4
<1> HIDE DEF last
<1>6. \A i \in 1 .. last : h.recs[i] = f.recs[i]
  BY <1>1, <1>5
<1>7. \A i \in 1 .. Len(m) : h.recs[i] = m[i]
  BY <1>1, <1>2, <1>3, <1>4
<1>8. ASSUME NEW i \in 1 .. Len(y) PROVE h.recs[last + i] = y[i]
  <2>1. CASE i <= Len(z)
    <3>1. i \in 1 .. Len(z) /\ last + i \in 1 .. Len(f.recs)
      BY <1>1, <1>2, <1>5, <2>1 DEF last
    <3> QED
      BY <1>1, <1>2, <1>4, <3>1
  <2>2. CASE i > Len(z)
    <3>1. PICK j \in 1 .. Len(rs) : i = Len(z) + j /\ last + i = Len(f.recs) + j
      <4>1. i - Len(z) \in 1 .. Len(rs) /\ i = Len(z) + (i - Len(z))
            /\ last + i = Len(f.recs) + (i - Len(z))
        BY <1>1, <1>2, <2>2 DEF last
      <4> QED
        BY <4>1
    <3> QED
      BY <1>1, <1>2, <3>1
  <2> QED
    BY <1>2, <2>1, <2>2
<1>9. \A i \in Len(m) + 1 .. last : i \in 1 .. last
  BY <1>3, <1>5
<1>10. Len(m) + Len(y) <= Len(h.recs)
  BY <1>1, <1>2, <1>3, <1>4
<1>11. ASSUME NEW i \in Len(m) + 1 .. last
       PROVE  \E t \in Tables : \E n \in 1 .. w[t] : h.recs[i] = TableRec(t, n, g)
  <2>1. h.recs[i] = f.recs[i]
    BY <1>6, <1>9
  <2> QED
    BY <1>4, <2>1
<1>12. ASSUME NEW t \in Tables, NEW n \in 1 .. w[t]
       PROVE  \E i \in Len(m) + 1 .. last : h.recs[i] = TableRec(t, n, g)
  <2>1. PICK i \in Len(m) + 1 .. last : f.recs[i] = TableRec(t, n, g)
    BY <1>4
  <2> QED
    BY <1>6, <1>9, <2>1
<1>13. \A i, j \in Len(m) + 1 .. last :
         i < j /\ h.recs[i].table = h.recs[j].table => h.recs[i].n < h.recs[j].n
  BY <1>4, <1>6, <1>9
<1>14. Consists(h, g, w, y)
  BY <1>1, <1>4, <1>5, <1>7, <1>8, <1>10, <1>11, <1>12, <1>13 DEF Consists, m
<1> QED
  BY <1>14 DEF h, y

\* The next record of a table follows what is there.
LEMMA WriteTable ==
  ASSUME NEW f \in Files, NEW g \in Nat, NEW w \in [Tables -> Nat], NEW u \in Tables,
         Consists(f, g, w, << >>)
  PROVE  /\ TableRec(u, w[u] + 1, g) \in Recs
         /\ Consists(Write(f, <<TableRec(u, w[u] + 1, g)>>), g, [w EXCEPT ![u] = @ + 1], << >>)
<1> DEFINE r == TableRec(u, w[u] + 1, g)
           h == Write(f, <<r>>)
           m == Manifest(g)
           v == [w EXCEPT ![u] = @ + 1]
           l == Len(f.recs)
<1>1. r \in Recs /\ r.table = u /\ r.n = w[u] + 1
  BY RecordKinds
<1>2. /\ h.there = f.there /\ h.torn = f.torn
      /\ Len(h.recs) = l + 1 /\ l \in Nat
      /\ \A i \in 1 .. l : h.recs[i] = f.recs[i]
      /\ h.recs[l + 1] = r
  <2> HIDE DEF r
  <2>1. <<r>> \in Seq(Recs) /\ Len(<<r>>) = 1 /\ <<r>>[1] = r /\ 1 \in 1 .. 1
    BY <1>1
  <2> QED
    BY <2>1, WriteFacts
<1>3. Len(m) \in Nat
  BY PlanSequences
<1>4. v \in [Tables -> Nat] /\ \A t \in Tables : v[t] = IF t = u THEN w[u] + 1 ELSE w[t]
  OBVIOUS
<1> HIDE DEF h, m, v
<1>5. /\ f.there /\ ~f.torn /\ Len(m) <= l
      /\ \A i \in 1 .. Len(m) : f.recs[i] = m[i]
      /\ \A i \in Len(m) + 1 .. l :
           \E t \in Tables : \E n \in 1 .. w[t] : f.recs[i] = TableRec(t, n, g)
      /\ \A t \in Tables : \A n \in 1 .. w[t] :
           \E i \in Len(m) + 1 .. l : f.recs[i] = TableRec(t, n, g)
      /\ \A i, j \in Len(m) + 1 .. l :
           i < j /\ f.recs[i].table = f.recs[j].table => f.recs[i].n < f.recs[j].n
  <2>1. Len(<< >>) = 0 /\ l - 0 = l /\ Len(m) + 0 = Len(m)
    BY <1>2, <1>3
  <2> QED
    BY <2>1 DEF Consists, m
<1> HIDE DEF l, r
<1>6. \A i \in Len(m) + 1 .. l : i \in 1 .. l /\ i \in Len(m) + 1 .. l + 1 /\ h.recs[i] = f.recs[i]
  BY <1>2, <1>3
<1>7. \A i \in Len(m) + 1 .. l + 1 : i \in Len(m) + 1 .. l \/ i = l + 1
  BY <1>2, <1>3
<1>8. l + 1 \in Len(m) + 1 .. l + 1
  BY <1>2, <1>3, <1>5
<1>9. \A i \in 1 .. Len(m) : h.recs[i] = m[i]
  BY <1>2, <1>3, <1>5
<1>10. ASSUME NEW i \in Len(m) + 1 .. l + 1
       PROVE  \E t \in Tables : \E n \in 1 .. v[t] : h.recs[i] = TableRec(t, n, g)
  <2>1. CASE i = l + 1
    <3>1. w[u] + 1 \in 1 .. v[u]
      BY <1>4
    <3> QED
      BY <1>2, <2>1, <3>1 DEF r
  <2>2. CASE i \in Len(m) + 1 .. l
    <3>1. PICK t \in Tables : \E n \in 1 .. w[t] : f.recs[i] = TableRec(t, n, g)
      BY <1>5, <2>2
    <3>2. \A n \in 1 .. w[t] : n \in 1 .. v[t]
      BY <1>4
    <3> QED
      BY <1>6, <2>2, <3>1, <3>2
  <2> QED
    BY <1>7, <2>1, <2>2
<1>11. ASSUME NEW t \in Tables, NEW n \in 1 .. v[t]
       PROVE  \E i \in Len(m) + 1 .. l + 1 : h.recs[i] = TableRec(t, n, g)
  <2>1. CASE t = u /\ n = w[u] + 1
    BY <1>2, <1>8, <2>1 DEF r
  <2>2. CASE ~(t = u /\ n = w[u] + 1)
    <3>1. n \in 1 .. w[t]
      BY <1>4, <2>2
    <3>2. PICK i \in Len(m) + 1 .. l : f.recs[i] = TableRec(t, n, g)
      BY <1>5, <3>1
    <3> QED
      BY <1>6, <3>2
  <2> QED
    BY <2>1, <2>2
<1>12. ASSUME NEW i \in Len(m) + 1 .. l + 1, NEW j \in Len(m) + 1 .. l + 1, i < j,
              h.recs[i].table = h.recs[j].table
       PROVE  h.recs[i].n < h.recs[j].n
  <2>1. i \in Len(m) + 1 .. l
    BY <1>2, <1>3, <1>12
  <2>2. CASE j \in Len(m) + 1 .. l
    BY <1>5, <1>6, <1>12, <2>1, <2>2
  <2>3. CASE j = l + 1
    <3>1. PICK t \in Tables : \E n \in 1 .. w[t] : f.recs[i] = TableRec(t, n, g)
      BY <1>5, <2>1
    <3>2. PICK n \in 1 .. w[t] : f.recs[i] = TableRec(t, n, g)
      BY <3>1
    <3>3. n \in Nat /\ n <= w[t] /\ w[t] \in Nat
      BY <3>2
    <3>4. h.recs[i].table = t /\ h.recs[i].n = n
      BY <1>6, <2>1, <3>2, <3>3, RecordKinds
    <3>5. t = u /\ h.recs[j].n = w[u] + 1
      BY <1>1, <1>2, <1>12, <2>3, <3>4
    <3> QED
      BY <3>3, <3>4, <3>5
  <2> QED
    BY <1>7, <2>2, <2>3
<1>13. Consists(h, g, v, << >>)
  <2>1. /\ Len(<< >>) = 0 /\ Len(h.recs) - 0 = l + 1 /\ Len(m) + 0 <= Len(h.recs)
        /\ 1 .. 0 = {}
    BY <1>2, <1>3, <1>5
  <2> QED
    BY <1>2, <1>5, <1>9, <1>10, <1>11, <1>12, <2>1 DEF Consists, m
<1> QED
  BY <1>1, <1>13 DEF h, v, r

\* A position in the last k of l.
LEMMA Offset ==
  ASSUME NEW l \in Nat, NEW k \in Nat, k <= l
  PROVE  /\ \A i \in 1 .. l : i > l - k => \E j \in 1 .. k : i = l - k + j
         /\ l - k + k = l
<1>1. ASSUME NEW i \in 1 .. l, i > l - k PROVE \E j \in 1 .. k : i = l - k + j
  <2>1. i - (l - k) \in 1 .. k /\ i = l - k + (i - (l - k))
    BY <1>1
  <2> QED
    BY <2>1
<1> QED
  BY <1>1

\* Without a terminator at the end there is none anywhere.
LEMMA NoEnd ==
  ASSUME NEW f \in Files, NEW g \in Nat, NEW w \in [Tables -> Nat], NEW z \in Seq(Recs),
         Consists(f, g, w, z), NEW i \in 1 .. Len(f.recs), i <= Len(f.recs) - Len(z)
  PROVE  f.recs[i].kind # "End"
<1> DEFINE m == Manifest(g)
<1>0. Len(f.recs) \in Nat /\ Len(z) \in Nat
  BY DEF Files
<1>1. Len(m) \in Nat /\ \A j \in 1 .. Len(m) : m[j].kind # "End"
  <2>1. m \in Seq(Recs)
    BY PlanSequences
  <2>2. \A j \in 1 .. Len(m) : m[j].kind # "End"
    BY PlanSequences
  <2> QED
    BY <2>1, <2>2
<1>2. /\ \A j \in 1 .. Len(m) : f.recs[j] = m[j]
      /\ \A j \in Len(m) + 1 .. Len(f.recs) - Len(z) :
           \E t \in Tables : \E n \in 1 .. w[t] : f.recs[j] = TableRec(t, n, g)
  BY DEF Consists
<1> HIDE DEF m
<1>3. CASE i <= Len(m)
  BY <1>1, <1>2, <1>3
<1>4. CASE i > Len(m)
  <2>1. i \in Len(m) + 1 .. Len(f.recs) - Len(z)
    BY <1>0, <1>1, <1>4
  <2>2. PICK t \in Tables : \E n \in 1 .. w[t] : f.recs[i] = TableRec(t, n, g)
    BY <1>2, <2>1
  <2>3. PICK n \in 1 .. w[t] : f.recs[i] = TableRec(t, n, g)
    BY <2>2
  <2>4. n \in Nat
    BY <2>3
  <2> QED
    BY <2>3, <2>4, RecordKinds
<1> QED
  BY <1>0, <1>1, <1>3, <1>4

\* A file that an export is still writing is refused.
LEMMA Unfinished ==
  ASSUME NEW f \in Files, NEW g \in Nat, NEW w \in [Tables -> Nat], NEW z \in Seq(Recs),
         Consists(f, g, w, z), \A i \in 1 .. Len(z) : z[i].kind # "End"
  PROVE  ~Accepted(f)
<1> SUFFICES ASSUME NEW i \in 1 .. Len(f.recs), f.recs[i].kind = "End" PROVE FALSE
  BY DEF Accepted, Files
<1>1. Len(f.recs) \in Nat /\ Len(z) \in Nat /\ Len(z) <= Len(f.recs)
  <2>1. Len(Manifest(g)) \in Nat
    BY PlanSequences
  <2> QED
    BY <2>1 DEF Files, Consists
<1>2. i > Len(f.recs) - Len(z)
  BY <1>1, NoEnd
<1>3. PICK j \in 1 .. Len(z) : i = Len(f.recs) - Len(z) + j
  BY <1>1, <1>2, Offset
<1>4. f.recs[i] = z[j]
  BY <1>3 DEF Consists
<1> QED
  BY <1>4

\* With all records and the trailer the file is whole.
LEMMA Finished ==
  ASSUME NEW f \in Files, NEW g \in Nat, Consists(f, g, All, Trailer(g))
  PROVE  Whole(f)
<1> DEFINE z == Trailer(g)
           l == Len(f.recs)
<1>1. Len(z) \in Nat /\ Len(z) >= 1 /\ z[Len(z)] = End(g)
  <2>1. Len(PlanTrailer(g)) \in Nat
    BY PlanSequences
  <2>2. Len(z) = Len(PlanTrailer(g)) + 1 /\ z[Len(z)] = End(g)
    BY PlanSequences
  <2> QED
    BY <2>1, <2>2
<1>2. f.recs \in Seq(Recs) /\ l \in Nat /\ Len(Manifest(g)) \in Nat /\ DOMAIN f.recs = 1 .. l
  BY PlanSequences DEF Files
<1> HIDE DEF z
<1>3. Len(Manifest(g)) + Len(z) <= l /\ \A i \in 1 .. Len(z) : f.recs[l - Len(z) + i] = z[i]
  BY DEF Consists, z
<1>4. f.recs[l] = End(g) /\ l \in 1 .. l
  <2>1. Len(z) \in 1 .. Len(z) /\ l - Len(z) + Len(z) = l /\ l \in 1 .. l
    BY <1>1, <1>2, <1>3
  <2> QED
    BY <1>1, <1>3, <2>1
<1>5. f.recs[l].of = g
  BY <1>4, RecordKinds DEF End
<1>6. g \in {f.recs[i].of : i \in DOMAIN f.recs}
  BY <1>2, <1>4, <1>5
<1> QED
  BY <1>6 DEF Whole, All, Trailer

\* A whole file has its terminator at the end only.
LEMMA EndIsLast ==
  ASSUME NEW f \in Files, Whole(f), NEW i \in 1 .. Len(f.recs), f.recs[i].kind = "End"
  PROVE  i = Len(f.recs)
<1> DEFINE l == Len(f.recs)
<1>1. f.recs \in Seq(Recs) /\ l \in Nat /\ DOMAIN f.recs = 1 .. l
  BY DEF Files
<1>2. PICK g \in {f.recs[j].of : j \in DOMAIN f.recs} : Consists(f, g, All, Trailer(g))
  BY DEF Whole, All, Trailer
<1>3. g \in Nat
  <2>1. PICK j \in 1 .. l : g = f.recs[j].of
    BY <1>1, <1>2
  <2>2. f.recs[j] \in Recs
    BY <1>1
  <2> QED
    BY <2>1, <2>2 DEF Recs, PlanRecs, TableRecs, PlanRec, TableRec
<1>4. All \in [Tables -> Nat]
  BY RecordsType DEF All
<1> DEFINE z == Trailer(g)
           p == PlanTrailer(g)
<1>5. /\ z \in Seq(Recs) /\ Len(z) = Len(p) + 1 /\ Len(p) \in Nat
      /\ \A j \in 1 .. Len(p) : z[j] = p[j] /\ p[j].kind # "End"
  BY <1>3, PlanSequences
<1>6. Consists(f, g, All, z)
  BY <1>2
<1> HIDE DEF z, p
<1>7. i > l - Len(z)
  BY <1>1, <1>3, <1>4, <1>5, <1>6, NoEnd
<1>a. Len(z) \in Nat /\ Len(z) <= l
  <2>1. Len(Manifest(g)) \in Nat
    BY <1>3, PlanSequences
  <2> QED
    BY <1>1, <1>5, <1>6, <2>1 DEF Consists
<1>8. PICK j \in 1 .. Len(z) : i = l - Len(z) + j
  BY <1>1, <1>7, <1>a, Offset
<1>9. f.recs[i] = z[j]
  BY <1>6, <1>8 DEF Consists
<1>10. j = Len(z)
  BY <1>5, <1>9
<1> QED
  BY <1>1, <1>8, <1>10, <1>a, Offset

\* What is left of a file that is refused, or whole, is refused unless it is
\* all of it.
LEMMA WhatRemains ==
  ASSUME NEW f \in Files, Accepted(f) => Whole(f), NEW r \in Remains(f)
  PROVE  r \in Files /\ (Accepted(r) => r = f)
<1>1. CASE r = f
  BY <1>1
<1>2. CASE r # f
  <2>1. f.recs \in Seq(Recs) /\ Len(f.recs) \in Nat /\ DOMAIN f.recs = 1 .. Len(f.recs)
    BY DEF Files
  <2>2. f.there /\ \E n \in 0 .. Len(f.recs) - 1, b \in BOOLEAN :
          r = [there |-> TRUE, recs |-> SubSeq(f.recs, 1, n), torn |-> b]
    BY <1>2 DEF Remains
  <2>3. PICK n \in 0 .. Len(f.recs) - 1, b \in BOOLEAN :
          r = [there |-> TRUE, recs |-> SubSeq(f.recs, 1, n), torn |-> b]
    BY <2>2
  <2>4. /\ SubSeq(f.recs, 1, n) \in Seq(Recs) /\ Len(SubSeq(f.recs, 1, n)) = n
        /\ \A i \in 1 .. n : SubSeq(f.recs, 1, n)[i] = f.recs[i]
    BY <2>1
  <2>5. r.recs = SubSeq(f.recs, 1, n) /\ r \in Files
    BY <2>3, <2>4 DEF Files
  <2>6. ASSUME Accepted(r) PROVE FALSE
    <3>1. PICK i \in 1 .. n : r.recs[i].kind = "End"
      BY <2>4, <2>5, <2>6 DEF Accepted
    <3>2. i \in 1 .. Len(f.recs) /\ i # Len(f.recs) /\ f.recs[i].kind = "End"
      BY <2>1, <2>4, <2>5, <3>1
    <3>3. Accepted(f)
      BY <2>1, <2>2, <3>2 DEF Accepted
    <3> QED
      BY <3>2, <3>3, EndIsLast
  <2> QED
    BY <2>5, <2>6
<1> QED
  BY <1>1, <1>2

(* ------------------------------- the steps ----------------------------- *)

\* A file that is not there, and one that is empty.
LEMMA FreshFiles ==
  /\ NoFile \in Files /\ ~Accepted(NoFile) /\ ~NoFile.there
  /\ EmptyFile \in Files /\ EmptyFile.there /\ ~EmptyFile.torn /\ EmptyFile.recs = << >>
<1>1. << >> \in Seq(Recs)
  OBVIOUS
<1> QED
  BY <1>1 DEF NoFile, EmptyFile, Files, Accepted

\* An export begins with the manifest.
LEMMA FirstRecords ==
  ASSUME NEW g \in Nat
  PROVE  /\ Write(EmptyFile, Manifest(g)) \in Files
         /\ Consists(Write(EmptyFile, Manifest(g)), g, [t \in Tables |-> 0], << >>)
<1> DEFINE f == Write(EmptyFile, Manifest(g))
           m == Manifest(g)
<1>1. m \in Seq(Recs) /\ Len(m) \in Nat
  BY PlanSequences
<1>2. Len(EmptyFile.recs) = 0
  BY FreshFiles
<1>3. /\ f \in Files /\ f.there /\ ~f.torn /\ Len(f.recs) = Len(m)
      /\ \A i \in 1 .. Len(m) : f.recs[i] = m[i]
  <2> HIDE DEF m
  <2>1. /\ f \in Files /\ f.there /\ ~f.torn /\ Len(f.recs) = 0 + Len(m)
        /\ \A i \in 1 .. Len(m) : f.recs[0 + i] = m[i]
    <3>1. /\ Write(EmptyFile, m) \in Files
          /\ Write(EmptyFile, m).there = EmptyFile.there /\ Write(EmptyFile, m).torn = EmptyFile.torn
          /\ Len(Write(EmptyFile, m).recs) = Len(EmptyFile.recs) + Len(m)
          /\ \A i \in 1 .. Len(m) : Write(EmptyFile, m).recs[Len(EmptyFile.recs) + i] = m[i]
      BY <1>1, FreshFiles, WriteFacts
    <3>2. f = Write(EmptyFile, m)
      BY DEF m
    <3> HIDE DEF f
    <3> QED
      BY <1>2, <3>1, <3>2, FreshFiles
  <2>2. \A i \in 1 .. Len(m) : 0 + i = i
    BY <1>1
  <2> QED
    BY <1>1, <2>1, <2>2
<1> HIDE DEF f, m
<1>4. Consists(f, g, [t \in Tables |-> 0], << >>)
  <2>1. /\ Len(<< >>) = 0 /\ Len(f.recs) - 0 = Len(m) /\ Len(m) + 0 <= Len(f.recs) /\ 1 .. 0 = {}
        /\ Len(m) + 1 .. Len(m) = {}
    BY <1>1, <1>3
  <2> QED
    BY <1>3, <2>1 DEF Consists, m
<1> QED
  BY <1>3, <1>4 DEF f

\* AcceptedIsWhole file by file.
Sound(f) == Accepted(f) => Whole(f)

\* Steps that leave the files alone and lead where no file is promised.
LEMMA QuietStep ==
  ASSUME IInv, UNCHANGED <<files, gen, written, lost>>, pc' \in Phases,
         \/ pc' \in {"idle", "done", "failed", "left", "killed"}
         \/ pc' \in {"start", "stream", "discard"} /\ pc \in {"start", "stream", "discard"}
         \/ pc' = pc
  PROVE  IInv'
<1>1. UNCHANGED <<part, dump>>
  BY DEF files
<1>2. TypeInv'
  BY <1>1 DEF IInv, TypeInv
<1>3. PartInv'
  BY <1>1 DEF IInv, PartInv
<1>4. AcceptedIsWhole' /\ PublishedIsWhole'
  BY <1>1 DEF IInv, AcceptedIsWhole, PublishedIsWhole
<1> QED
  BY <1>2, <1>3, <1>4 DEF IInv

\* Steps that write to the part and leave the dump alone.
LEMMA PartStep ==
  ASSUME IInv, UNCHANGED <<dump, lost>>, part' \in Files, PartInv', Sound(part'),
         pc' \in Phases, gen' \in Nat, written' \in [Tables -> Nat],
         \A t \in Tables : written'[t] <= Records(t)
  PROVE  IInv'
<1>1. TypeInv'
  BY DEF IInv, TypeInv
<1>2. AcceptedIsWhole' /\ PublishedIsWhole'
  BY DEF IInv, AcceptedIsWhole, PublishedIsWhole, Sound
<1> QED
  BY <1>1, <1>2 DEF IInv

\* Every step keeps the invariant.
LEMMA Step ==
  ASSUME IInv, [Next]_vars
  PROVE  IInv'
<1> USE DEF files
<1>0. /\ part \in Files /\ dump \in Files /\ gen \in Nat /\ pc \in Phases /\ lost \in BOOLEAN
      /\ written \in [Tables -> Nat] /\ \A t \in Tables : written[t] <= Records(t)
      /\ Sound(part) /\ Sound(dump) /\ (dump.there /\ ~lost => Whole(dump))
  BY DEF IInv, TypeInv, AcceptedIsWhole, PublishedIsWhole, Sound
<1>a. << >> \in Seq(Recs) /\ \A i \in 1 .. Len(<< >>) : << >>[i].kind # "End"
  OBVIOUS
<1>1. CASE CreatePart
  <2>1. /\ gen' = gen + 1 /\ gen + 1 \in Nat /\ pc' = "start"
        /\ part' = Write(EmptyFile, Manifest(gen + 1)) /\ written' = [t \in Tables |-> 0]
        /\ UNCHANGED <<dump, lost>>
    BY <1>0, <1>1 DEF CreatePart
  <2>2. part' \in Files /\ Consists(part', gen', written', << >>)
    BY <2>1, FirstRecords
  <2>3. written' \in [Tables -> Nat] /\ \A t \in Tables : written'[t] <= Records(t)
    BY <2>1, RecordsType
  <2>4. Sound(part')
    BY <1>a, <2>1, <2>2, <2>3, Unfinished DEF Sound
  <2>5. PartInv'
    BY <2>1, <2>2 DEF PartInv
  <2> QED
    BY <2>1, <2>2, <2>3, <2>4, <2>5, PartStep DEF Phases
<1>2. CASE StartServer \/ StartFails \/ ServerFails \/ StreamFails \/ RenameFails
  <2>1. /\ UNCHANGED <<files, gen, written, lost>> /\ pc' \in Phases
        /\ \/ pc' \in {"idle", "done", "failed", "left", "killed"}
           \/ pc' \in {"start", "stream", "discard"} /\ pc \in {"start", "stream", "discard"}
           \/ pc' = pc
    BY <1>0, <1>2 DEF StartServer, StartFails, ServerFails, StreamFails, RenameFails, Phases
  <2> QED
    BY <2>1, QuietStep
<1>3. ASSUME NEW t \in Tables, RecvTable(t) PROVE IInv'
  <2>1. /\ pc = "stream" /\ written[t] < Records(t)
        /\ written' = [written EXCEPT ![t] = @ + 1]
        /\ part' = Write(part, <<TableRec(t, written[t] + 1, gen)>>)
        /\ UNCHANGED <<dump, pc, gen, lost>>
    BY <1>3 DEF RecvTable
  <2>2. Consists(part, gen, written, << >>)
    BY <2>1 DEF IInv, PartInv
  <2>3. Consists(part', gen, written', << >>) /\ TableRec(t, written[t] + 1, gen) \in Recs
    BY <1>0, <2>1, <2>2, WriteTable
  <2>4. part' \in Files
    <3>1. <<TableRec(t, written[t] + 1, gen)>> \in Seq(Recs)
      BY <2>3
    <3> QED
      BY <1>0, <2>1, <3>1, WriteFacts
  <2>5. written' \in [Tables -> Nat] /\ \A u \in Tables : written'[u] <= Records(u)
    BY <1>0, <2>1, RecordsType
  <2>6. Sound(part')
    BY <1>0, <1>a, <2>3, <2>4, <2>5, Unfinished DEF Sound
  <2>7. PartInv'
    BY <2>1, <2>3 DEF PartInv
  <2> QED
    BY <1>0, <2>1, <2>4, <2>5, <2>6, <2>7, PartStep
<1>4. CASE RecvDone
  <2>1. /\ pc = "stream" /\ pc' = "finish" /\ \A t \in Tables : written[t] = Records(t)
        /\ part' = Write(part, PlanTrailer(gen)) /\ UNCHANGED <<dump, gen, written, lost>>
    BY <1>4 DEF RecvDone
  <2>2. written = All
    BY <1>0, <2>1 DEF All
  <2>3. Consists(part, gen, All, << >>)
    BY <2>1, <2>2 DEF IInv, PartInv
  <2>4. PlanTrailer(gen) \in Seq(Recs) /\ << >> \o PlanTrailer(gen) = PlanTrailer(gen)
    <3>1. PlanTrailer(gen) \in Seq(Recs)
      BY <1>0, PlanSequences
    <3> QED
      BY <3>1
  <2>5. part' \in Files
    BY <1>0, <2>1, <2>4, WriteFacts
  <2>6. Consists(part', gen, All, << >> \o PlanTrailer(gen))
    BY <1>0, <1>a, <2>1, <2>2, <2>3, <2>4, WritePlan
  <2>7. Consists(part', gen, All, PlanTrailer(gen))
    BY <2>4, <2>6
  <2>8. Sound(part')
    BY <1>0, <2>2, <2>4, <2>5, <2>7, PlanSequences, Unfinished DEF Sound
  <2>9. PartInv'
    BY <2>1, <2>7 DEF PartInv, All
  <2> QED
    BY <1>0, <2>1, <2>5, <2>8, <2>9, PartStep DEF Phases
<1>5. CASE Discard
  <2>1. /\ pc' \in {"failed", "left"} /\ part' \in {NoFile, part}
        /\ UNCHANGED <<dump, gen, written, lost>>
    BY <1>5 DEF Discard
  <2>2. part' \in Files /\ Sound(part')
    BY <1>0, <2>1, FreshFiles DEF Sound
  <2>3. PartInv'
    BY <2>1 DEF PartInv
  <2> QED
    BY <1>0, <2>1, <2>2, <2>3, PartStep DEF Phases
<1>b. ASSUME pc = "finish"
      PROVE  LET f == Write(part, <<End(gen)>>)
             IN  f \in Files /\ Consists(f, gen, All, Trailer(gen)) /\ Whole(f)
  <2> DEFINE f == Write(part, <<End(gen)>>)
  <2>1. End(gen) \in Recs
    BY <1>0, RecordKinds DEF End
  <2>2. <<End(gen)>> \in Seq(Recs)
    BY <2>1
  <2>3. PlanTrailer(gen) \in Seq(Recs) /\ All \in [Tables -> Nat]
    BY <1>0, PlanSequences, RecordsType DEF All
  <2>4. Consists(part, gen, All, PlanTrailer(gen))
    BY <1>b DEF IInv, PartInv
  <2>5. f \in Files
    BY <1>0, <2>2, WriteFacts
  <2>6. Consists(f, gen, All, PlanTrailer(gen) \o <<End(gen)>>)
    BY <1>0, <2>2, <2>3, <2>4, WritePlan
  <2>7. Consists(f, gen, All, Trailer(gen))
    BY <2>6 DEF Trailer
  <2> QED
    BY <1>0, <2>5, <2>7, Finished
<1>6. CASE Finish
  <2>1. /\ pc = "finish" /\ pc' = "rename" /\ part' = Write(part, <<End(gen)>>)
        /\ UNCHANGED <<dump, gen, written, lost>>
    BY <1>6 DEF Finish
  <2>2. part' \in Files /\ Consists(part', gen, All, Trailer(gen)) /\ Whole(part')
    BY <1>b, <2>1
  <2>3. PartInv'
    BY <2>1, <2>2 DEF PartInv, All, Trailer
  <2> QED
    BY <1>0, <2>1, <2>2, <2>3, PartStep DEF Phases, Sound
<1>7. CASE FinishFails
  <2>1. /\ pc = "finish" /\ pc' = "failed" /\ part' \in Remains(Write(part, <<End(gen)>>))
        /\ UNCHANGED <<dump, gen, written, lost>>
    BY <1>7 DEF FinishFails
  <2> DEFINE f == Write(part, <<End(gen)>>)
  <2>2. f \in Files /\ Whole(f)
    BY <1>b, <2>1
  <2> HIDE DEF f
  <2>3. part' \in Files /\ Sound(part')
    BY <2>1, <2>2, WhatRemains DEF f, Sound
  <2>4. PartInv'
    BY <2>1 DEF PartInv
  <2> QED
    BY <1>0, <2>1, <2>3, <2>4, PartStep DEF Phases
<1>8. CASE Rename
  <2>1. /\ pc = "rename" /\ pc' = "done" /\ dump' = part /\ part' = NoFile /\ lost' = FALSE
        /\ UNCHANGED <<gen, written>>
    BY <1>8 DEF Rename
  <2>2. Consists(part, gen, All, Trailer(gen))
    BY <2>1 DEF IInv, PartInv
  <2>3. Whole(part)
    BY <1>0, <2>2, Finished
  <2>4. TypeInv'
    BY <1>0, <2>1, FreshFiles DEF TypeInv, Phases
  <2>5. PartInv'
    BY <2>1 DEF PartInv
  <2>6. AcceptedIsWhole'
    BY <2>1, <2>3, FreshFiles DEF AcceptedIsWhole
  <2>7. PublishedIsWhole'
    BY <2>1, <2>3 DEF PublishedIsWhole
  <2> QED
    BY <2>4, <2>5, <2>6, <2>7 DEF IInv
<1>9. CASE Kill
  <2>1. /\ part' \in Remains(part) /\ pc' = "killed" /\ UNCHANGED <<dump, gen, written, lost>>
    <3>1. part \in Remains(part)
      BY DEF Remains
    <3> QED
      BY <1>9, <3>1 DEF Kill
  <2>2. part' \in Files /\ Sound(part')
    BY <1>0, <2>1, WhatRemains DEF Sound
  <2>3. PartInv'
    BY <2>1 DEF PartInv
  <2> QED
    BY <1>0, <2>1, <2>2, <2>3, PartStep DEF Phases
<1>10. CASE PowerLoss
  <2>1. /\ part' \in Remains(part) /\ dump' \in Remains(dump)
        /\ lost' = (lost \/ dump' # dump) /\ UNCHANGED <<gen, written>>
        /\ pc' \in {"idle", "done", "failed", "left", "killed"}
    BY <1>0, <1>10 DEF PowerLoss, Running, Phases
  <2>2. part' \in Files /\ Sound(part') /\ dump' \in Files /\ Sound(dump')
    BY <1>0, <2>1, WhatRemains DEF Sound
  <2>3. TypeInv'
    BY <1>0, <2>1, <2>2 DEF TypeInv, Phases
  <2>4. PartInv'
    BY <2>1 DEF PartInv
  <2>5. AcceptedIsWhole' /\ PublishedIsWhole'
    BY <1>0, <2>1, <2>2 DEF AcceptedIsWhole, PublishedIsWhole, Sound
  <2> QED
    BY <2>3, <2>4, <2>5 DEF IInv
<1>11. CASE UNCHANGED vars
  BY <1>0, <1>11, QuietStep DEF vars
<1> QED
  BY <1>1, <1>2, <1>3, <1>4, <1>5, <1>6, <1>7, <1>8, <1>9, <1>10, <1>11 DEF Next

\* What an export has written is always in the file it writes to, and a
\* terminator only where everything else is.
THEOREM Invariant == Spec => []IInv
<1>1. Init => IInv
  <2> SUFFICES ASSUME Init PROVE IInv
    OBVIOUS
  <2>1. TypeInv
    <3>1. written \in [Tables -> Nat] /\ \A t \in Tables : written[t] <= Records(t)
      BY RecordsType DEF Init
    <3>2. part \in Files /\ dump \in Files /\ pc \in Phases /\ gen \in Nat /\ lost \in BOOLEAN
      BY FreshFiles DEF Init, Phases
    <3> QED
      BY <3>1, <3>2 DEF TypeInv
  <2>2. PartInv
    BY DEF Init, PartInv
  <2>3. AcceptedIsWhole /\ PublishedIsWhole
    BY FreshFiles DEF Init, AcceptedIsWhole, PublishedIsWhole
  <2> QED
    BY <2>1, <2>2, <2>3 DEF IInv
<1>2. IInv /\ [Next]_vars => IInv'
  BY Step
<1> QED
  BY <1>1, <1>2, PTL DEF Spec

\* Whatever bears the dump's name is a whole export, unless a power loss has
\* cut it: the rename publishes nothing half-written.
THEOREM NothingHalfPublished == Spec => []PublishedIsWhole
<1>1. IInv => PublishedIsWhole
  BY DEF IInv
<1> QED
  BY <1>1, Invariant, PTL

\* A file with a terminator is whole, also a part that was left behind or a
\* file that lost its end: the loader cannot take a torso for a dump.
THEOREM TerminatorMeansWhole == Spec => []AcceptedIsWhole
<1>1. IInv => AcceptedIsWhole
  BY DEF IInv
<1> QED
  BY <1>1, Invariant, PTL
=============================================================================
