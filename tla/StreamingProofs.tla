-------------------------- MODULE StreamingProofs --------------------------
(***************************************************************************)
(* The safety theorems of Streaming, for any tables, threads and bounds.   *)
(***************************************************************************)
EXTENDS Streaming, SequenceTheorems, TLAPS

-----------------------------------------------------------------------------
(* The inductive invariant *)

OfTable(t) == {Messages(t)[n] : n \in 1 .. Total(t)}
TableMessage == UNION {OfTable(t) : t \in Tables}
Message == TableMessage \cup {Control(k) : k \in {"Done", "Partial", "Error"}}

TypeInv ==
  /\ todo \in [Threads -> Seq(Tables)]
  /\ thread \in [Threads -> {"run", "spare", "ok", "report", "err"}]
  /\ sent \in [Tables -> Nat]
  /\ chan \in Seq(Message) /\ buf \in Seq(Message)
  /\ out \in Seq(Message) /\ pipe \in Seq(Message)
  /\ pc \in {"excluded", "check", "recv", "flush", "join", "cut", "interrupted",
             "listener", "exit"}
  /\ interrupt \in BOOLEAN
  /\ client \in {"reading", "done", "shutdown", "gone"}
  /\ got \in [Tables -> Seq(Message)]

\* How far a thread is with its tables.
OnDuty(w) ==
  /\ \A i \in 1 .. Len(todo[w]) :
       /\ todo[w][i] \in Mine(w) /\ sent[todo[w][i]] < Total(todo[w][i])
       /\ \A j \in 1 .. Len(todo[w]) : todo[w][i] = todo[w][j] => i = j
  /\ \A t \in Mine(w) : sent[t] = Total(t) \/ \E i \in 1 .. Len(todo[w]) : todo[w][i] = t
  /\ thread[w] = "ok" => todo[w] = << >>
  /\ thread[w] = "spare" => w = Bfs

DutyInv ==
  /\ \A t \in Tables : sent[t] <= Total(t)
  /\ \A w \in Threads : OnDuty(w)
  /\ thread[Bfs] \in {"spare", "ok"} => \A t \in Aggregate : sent[t] = Total(t)

\* Where the main thread is, and what that says of the channel and the buffers.
MainInv ==
  /\ pc = "excluded" => chan = << >> /\ \A w \in Threads : thread[w] = "run"
  /\ pc \notin {"excluded", "listener", "exit"} => \A t \in Excluded : sent[t] = Total(t)
  /\ pc = "recv" => out = << >>
  /\ pc \in {"flush", "join"} => chan = << >> /\ AllEnded
  /\ pc \in {"listener", "exit"} => buf = << >>
  /\ interrupt => HangsUp

\* What is on its way to the client.
Written == (pipe \o out) \o buf
Feed == IF ReceiverDropped THEN Written ELSE Written \o chan

\* g messages of each table have been read and s handed over: those in S come
\* each after its predecessors, none twice.
Flow(S, g, s) ==
  \A i \in 1 .. Len(S) : \A t \in Tables : \A n \in 1 .. Total(t) :
    S[i] = Messages(t)[n] =>
      /\ g[t] < n /\ n <= s[t]
      /\ \A j \in 1 .. Len(S) : \A m \in 1 .. Total(t) :
           S[j] = Messages(t)[m] /\ i < j => n < m
      /\ \A m \in 1 .. Total(t) :
           g[t] < m /\ m < n => \E j \in 1 .. Len(S) : j < i /\ S[j] = Messages(t)[m]

\* Everything that was handed over and not read is in S.
Complete(S, g, s) ==
  \A t \in Tables : \A n \in 1 .. Total(t) :
    g[t] < n /\ n <= s[t] => \E i \in 1 .. Len(S) : S[i] = Messages(t)[n]

Read == [t \in Tables |-> Len(got[t])]

\* As long as the receiver lives, nothing handed over is missing.
Open(S, g, s) ==
  /\ Flow(S, g, s) /\ Complete(S, g, s)
  /\ \A i \in 1 .. Len(S) : S[i] # Control("Done") /\ S[i] # Control("Partial")

\* A Done is last, and comes after everything; a client that reads meets no
\* Partial, since only its own hanging up causes one.
Closed(S, g, s) ==
  /\ Flow(S, g, s)
  /\ \A i \in 1 .. Len(S) :
       /\ S[i] # Control("Partial")
       /\ S[i] = Control("Done") =>
            i = Len(S) /\ Complete(S, g, s) /\ \A t \in Tables : s[t] = Total(t)

FlowInv ==
  client = "reading" =>
    IF ReceiverDropped THEN Closed(Feed, Read, sent) ELSE Open(Feed, Read, sent)

GotInv ==
  \A t \in Tables :
    /\ Len(got[t]) <= sent[t]
    /\ \A n \in 1 .. Len(got[t]) : got[t][n] = Messages(t)[n]

IInv == TypeInv /\ DutyInv /\ MainInv /\ FlowInv /\ GotInv /\ DoneMeansAll

-----------------------------------------------------------------------------
(* Messages *)

Kinds == {"Schema", "Data", "TableDone"}

\* Every table has at least one message.
LEMMA TotalType == \A t \in Tables : Total(t) \in Nat /\ Total(t) >= 1
BY StreamingAssumption DEF Total

\* The nth message of a table carries the table and n.
LEMMA MessageFields ==
  ASSUME NEW t \in Tables, NEW n \in 1 .. Total(t)
  PROVE  /\ Messages(t)[n] \in Message /\ Messages(t)[n] \in TableMessage
         /\ Messages(t)[n].table = t /\ Messages(t)[n].n = n
         /\ Messages(t)[n].kind \in Kinds
<1>1. Messages(t)[n] \in OfTable(t)
  BY DEF OfTable
<1>2. /\ Messages(t)[n].table = t /\ Messages(t)[n].n = n
      /\ Messages(t)[n].kind \in Kinds
  BY DEF Messages, Kinds
<1> QED
  BY <1>1, <1>2 DEF Message, TableMessage

\* Done, Partial and Error are messages of a kind of their own.
LEMMA ControlMessages ==
  /\ \A k \in {"Done", "Partial", "Error"} : Control(k) \in Message
  /\ \A k : Control(k).kind = k
BY DEF Control, Message

\* A message names its table and its place.
LEMMA MessageUnique ==
  ASSUME NEW t \in Tables, NEW n \in 1 .. Total(t),
         NEW u \in Tables, NEW m \in 1 .. Total(u), Messages(t)[n] = Messages(u)[m]
  PROVE  t = u /\ n = m
BY MessageFields

\* A message belongs to a table or is a control message.
LEMMA MessageCases ==
  ASSUME NEW x \in Message
  PROVE  \/ \E t \in Tables : \E n \in 1 .. Total(t) :
              x = Messages(t)[n] /\ x.kind \in Kinds /\ x.table = t /\ x.n = n
         \/ \E k \in {"Done", "Partial", "Error"} : x = Control(k) /\ x.kind = k
<1>1. CASE x \in TableMessage
  <2>1. PICK t \in Tables : x \in OfTable(t)
    BY <1>1 DEF TableMessage
  <2>2. PICK n \in 1 .. Total(t) : x = Messages(t)[n]
    BY <2>1 DEF OfTable
  <2> QED
    BY <2>2, MessageFields
<1>2. CASE x \notin TableMessage
  BY <1>2, ControlMessages DEF Message
<1> QED
  BY <1>1, <1>2

\* No control message is a message of a table.
LEMMA ControlNoMessage ==
  ASSUME NEW k \in {"Done", "Partial", "Error"}, NEW t \in Tables, NEW n \in 1 .. Total(t)
  PROVE  Control(k) # Messages(t)[n]
BY MessageFields, ControlMessages DEF Kinds

-----------------------------------------------------------------------------
(* The flow of messages, wherever they are *)

Counts == [Tables -> Nat]

\* The next message of a table is handed over.
LEMMA FlowAppend ==
  ASSUME NEW S \in Seq(Message), NEW g \in Counts, NEW s \in Counts, NEW t \in Tables,
         s[t] < Total(t), Flow(S, g, s), Complete(S, g, s), g[t] <= s[t]
  PROVE  /\ Flow(Append(S, Messages(t)[s[t] + 1]), g, [s EXCEPT ![t] = @ + 1])
         /\ Complete(Append(S, Messages(t)[s[t] + 1]), g, [s EXCEPT ![t] = @ + 1])
<1> DEFINE x == Messages(t)[s[t] + 1]
           T == Append(S, x)
           z == [s EXCEPT ![t] = @ + 1]
<1>1. s[t] + 1 \in 1 .. Total(t) /\ s[t] \in Nat /\ g[t] \in Nat
  BY TotalType DEF Counts
<1>2. x \in Message
  BY <1>1, MessageFields
<1>3. /\ Len(T) = Len(S) + 1 /\ Len(S) \in Nat
      /\ \A i \in 1 .. Len(S) : T[i] = S[i]
      /\ T[Len(S) + 1] = x
  <2> HIDE DEF x
  <2> QED
    BY <1>2
<1>4. \A u \in Tables : /\ z[u] = IF u = t THEN s[t] + 1 ELSE s[u]
                        /\ s[u] \in Nat /\ z[u] \in Nat /\ s[u] <= z[u] /\ g[u] \in Nat
  BY <1>1 DEF Counts
<1>5. \A i \in 1 .. Len(T) : i \in 1 .. Len(S) \/ i = Len(S) + 1
  BY <1>3
<1>6. \A u \in Tables : \A n \in 1 .. Total(u) : x = Messages(u)[n] => u = t /\ n = s[t] + 1
  BY <1>1, MessageUnique
<1> HIDE DEF T, z, x
<1>7. Complete(T, g, z)
  <2> SUFFICES ASSUME NEW u \in Tables, NEW n \in 1 .. Total(u), g[u] < n, n <= z[u]
               PROVE  \E i \in 1 .. Len(T) : T[i] = Messages(u)[n]
    BY DEF Complete
  <2>1. CASE n <= s[u]
    <3>1. PICK i \in 1 .. Len(S) : S[i] = Messages(u)[n]
      BY <2>1 DEF Complete
    <3> QED
      BY <1>3, <3>1
  <2>2. CASE ~(n <= s[u])
    <3>1. u = t /\ n = s[t] + 1
      BY <1>4, <2>2
    <3> QED
      BY <1>3, <3>1 DEF x
  <2> QED
    BY <2>1, <2>2
<1>8. Flow(T, g, z)
  <2> SUFFICES ASSUME NEW i \in 1 .. Len(T), NEW u \in Tables, NEW n \in 1 .. Total(u),
                      T[i] = Messages(u)[n]
               PROVE  /\ g[u] < n /\ n <= z[u]
                      /\ \A j \in 1 .. Len(T) : \A m \in 1 .. Total(u) :
                           T[j] = Messages(u)[m] /\ i < j => n < m
                      /\ \A m \in 1 .. Total(u) :
                           g[u] < m /\ m < n => \E j \in 1 .. Len(T) : j < i /\ T[j] = Messages(u)[m]
    BY DEF Flow
  <2>1. CASE i \in 1 .. Len(S)
    <3>1. /\ S[i] = Messages(u)[n] /\ g[u] < n /\ n <= s[u]
          /\ \A j \in 1 .. Len(S) : \A m \in 1 .. Total(u) :
               S[j] = Messages(u)[m] /\ i < j => n < m
          /\ \A m \in 1 .. Total(u) :
               g[u] < m /\ m < n => \E j \in 1 .. Len(S) : j < i /\ S[j] = Messages(u)[m]
      BY <1>3, <2>1 DEF Flow
    <3>2. n <= z[u]
      BY <1>4, <3>1
    <3>3. ASSUME NEW j \in 1 .. Len(T), NEW m \in 1 .. Total(u), T[j] = Messages(u)[m], i < j
          PROVE  n < m
      <4>1. CASE j \in 1 .. Len(S)
        BY <1>3, <3>1, <3>3, <4>1
      <4>2. CASE j = Len(S) + 1
        <5>1. u = t /\ m = s[t] + 1
          BY <1>3, <1>6, <3>3, <4>2
        <5> QED
          BY <1>4, <3>1, <5>1
      <4> QED
        BY <1>5, <4>1, <4>2
    <3>4. ASSUME NEW m \in 1 .. Total(u), g[u] < m, m < n
          PROVE  \E j \in 1 .. Len(T) : j < i /\ T[j] = Messages(u)[m]
      <4>1. PICK j \in 1 .. Len(S) : j < i /\ S[j] = Messages(u)[m]
        BY <3>1, <3>4
      <4> QED
        BY <1>3, <4>1
    <3> QED
      BY <3>1, <3>2, <3>3, <3>4
  <2>2. CASE i = Len(S) + 1
    <3>1. u = t /\ n = s[t] + 1
      BY <1>3, <1>6, <2>2
    <3>2. g[u] < n /\ n <= z[u]
      BY <1>1, <1>4, <3>1
    <3>3. \A j \in 1 .. Len(T) : ~(i < j)
      BY <1>3, <2>2
    <3>4. ASSUME NEW m \in 1 .. Total(u), g[u] < m, m < n
          PROVE  \E j \in 1 .. Len(T) : j < i /\ T[j] = Messages(u)[m]
      <4>1. m <= s[u]
        BY <1>1, <3>1, <3>4
      <4>2. PICK j \in 1 .. Len(S) : S[j] = Messages(u)[m]
        BY <3>4, <4>1 DEF Complete
      <4> QED
        BY <1>3, <2>2, <4>2
    <3> QED
      BY <3>2, <3>3, <3>4
  <2> QED
    BY <1>5, <2>1, <2>2
<1> QED
  BY <1>7, <1>8 DEF T, z, x

\* The client reads a table's message: it is the next one.
LEMMA FlowNext ==
  ASSUME NEW S \in Seq(Message), S # << >>, NEW g \in Counts, NEW s \in Counts,
         NEW t \in Tables, NEW n \in 1 .. Total(t), S[1] = Messages(t)[n], Flow(S, g, s)
  PROVE  n = g[t] + 1 /\ n <= s[t]
<1>1. 1 \in 1 .. Len(S)
  OBVIOUS
<1>2. /\ g[t] < n /\ n <= s[t]
      /\ \A m \in 1 .. Total(t) :
           g[t] < m /\ m < n => \E j \in 1 .. Len(S) : j < 1 /\ S[j] = Messages(t)[m]
  BY <1>1 DEF Flow
<1>3. n = g[t] + 1
  <2> SUFFICES ASSUME n # g[t] + 1 PROVE FALSE
    OBVIOUS
  <2>0. g[t] \in Nat /\ n \in Nat /\ Total(t) \in Nat
    BY TotalType DEF Counts
  <2>1. g[t] + 1 \in 1 .. Total(t) /\ g[t] < g[t] + 1 /\ g[t] + 1 < n
    BY <1>2, <2>0
  <2>2. PICK j \in 1 .. Len(S) : j < 1
    BY <1>2, <2>1
  <2> QED
    BY <2>2
<1> QED
  BY <1>2, <1>3

\* Taking the head of a flow: it is the next of its table, and the rest still flows.
LEMMA FlowHead ==
  ASSUME NEW S \in Seq(Message), S # << >>, NEW g \in Counts, NEW s \in Counts,
         NEW t \in Tables, NEW n \in 1 .. Total(t), S[1] = Messages(t)[n], Flow(S, g, s)
  PROVE  /\ n = g[t] + 1 /\ n <= s[t]
         /\ Flow(Tail(S), [g EXCEPT ![t] = @ + 1], s)
         /\ Complete(S, g, s) => Complete(Tail(S), [g EXCEPT ![t] = @ + 1], s)
<1> DEFINE T == Tail(S)
           h == [g EXCEPT ![t] = @ + 1]
<1>1. /\ Len(S) \in Nat /\ Len(S) >= 1 /\ Len(T) = Len(S) - 1
      /\ \A i \in 1 .. Len(T) : T[i] = S[i + 1] /\ i + 1 \in 1 .. Len(S)
  OBVIOUS
<1>2. /\ g[t] < n /\ n <= s[t]
      /\ \A j \in 1 .. Len(S) : \A m \in 1 .. Total(t) :
           S[j] = Messages(t)[m] /\ 1 < j => n < m
      /\ \A m \in 1 .. Total(t) :
           g[t] < m /\ m < n => \E j \in 1 .. Len(S) : j < 1 /\ S[j] = Messages(t)[m]
  BY <1>1 DEF Flow
<1>3. n = g[t] + 1
  BY FlowNext
<1>4. \A u \in Tables : /\ h[u] = IF u = t THEN n ELSE g[u]
                        /\ g[u] \in Nat /\ h[u] \in Nat /\ g[u] <= h[u]
  BY <1>3 DEF Counts
<1> HIDE DEF T, h
<1>5. Flow(T, h, s)
  <2> SUFFICES ASSUME NEW i \in 1 .. Len(T), NEW u \in Tables, NEW k \in 1 .. Total(u),
                      T[i] = Messages(u)[k]
               PROVE  /\ h[u] < k /\ k <= s[u]
                      /\ \A j \in 1 .. Len(T) : \A m \in 1 .. Total(u) :
                           T[j] = Messages(u)[m] /\ i < j => k < m
                      /\ \A m \in 1 .. Total(u) :
                           h[u] < m /\ m < k => \E j \in 1 .. Len(T) : j < i /\ T[j] = Messages(u)[m]
    BY DEF Flow
  <2>1. i + 1 \in 1 .. Len(S) /\ S[i + 1] = Messages(u)[k]
    BY <1>1
  <2>2. /\ g[u] < k /\ k <= s[u]
        /\ \A j \in 1 .. Len(S) : \A m \in 1 .. Total(u) :
             S[j] = Messages(u)[m] /\ i + 1 < j => k < m
        /\ \A m \in 1 .. Total(u) :
             g[u] < m /\ m < k => \E j \in 1 .. Len(S) : j < i + 1 /\ S[j] = Messages(u)[m]
    BY <2>1, SMTT(30) DEF Flow
  <2>3. h[u] < k
    <3>1. CASE u = t
      <4>1. 1 < i + 1
        OBVIOUS
      <4> QED
        BY <1>2, <1>4, <2>1, <3>1, <4>1
    <3>2. CASE u # t
      BY <1>4, <2>2, <3>2
    <3> QED
      BY <3>1, <3>2
  <2>4. ASSUME NEW j \in 1 .. Len(T), NEW m \in 1 .. Total(u), T[j] = Messages(u)[m], i < j
        PROVE  k < m
    <3>1. j + 1 \in 1 .. Len(S) /\ S[j + 1] = Messages(u)[m] /\ i + 1 < j + 1
      BY <1>1, <2>4
    <3> QED
      BY <2>2, <3>1
  <2>5. ASSUME NEW m \in 1 .. Total(u), h[u] < m, m < k
        PROVE  \E j \in 1 .. Len(T) : j < i /\ T[j] = Messages(u)[m]
    <3>1. g[u] < m
      BY <1>4, <2>5
    <3>2. PICK j \in 1 .. Len(S) : j < i + 1 /\ S[j] = Messages(u)[m]
      BY <2>2, <2>5, <3>1
    <3>3. j # 1
      <4> SUFFICES ASSUME j = 1 PROVE FALSE
        OBVIOUS
      <4>1. Messages(u)[m] = Messages(t)[n]
        BY <3>2
      <4>2. u = t /\ m = n
        BY <4>1, MessageUnique
      <4> QED
        BY <1>4, <2>5, <4>2
    <3>4. j - 1 \in 1 .. Len(T) /\ j - 1 < i /\ T[j - 1] = S[(j - 1) + 1] /\ (j - 1) + 1 = j
      BY <1>1, <3>2, <3>3
    <3> QED
      BY <3>2, <3>4
  <2> QED
    BY <2>2, <2>3, <2>4, <2>5
<1>6. ASSUME Complete(S, g, s) PROVE Complete(T, h, s)
  <2> SUFFICES ASSUME NEW u \in Tables, NEW k \in 1 .. Total(u), h[u] < k, k <= s[u]
               PROVE  \E i \in 1 .. Len(T) : T[i] = Messages(u)[k]
    BY DEF Complete
  <2>1. g[u] < k
    BY <1>4
  <2>2. PICK j \in 1 .. Len(S) : S[j] = Messages(u)[k]
    BY <1>6, <2>1 DEF Complete
  <2>3. j # 1
    <3> SUFFICES ASSUME j = 1 PROVE FALSE
      OBVIOUS
    <3>1. u = t /\ k = n
      BY <2>2, MessageUnique
    <3> QED
      BY <1>4, <3>1
  <2>4. j - 1 \in 1 .. Len(T) /\ T[j - 1] = S[(j - 1) + 1] /\ (j - 1) + 1 = j
    BY <1>1, <2>3
  <2> QED
    BY <2>2, <2>4
<1> QED
  BY <1>2, <1>3, <1>5, <1>6 DEF T, h

\* A message of the protocol itself is read.
LEMMA FlowControlHead ==
  ASSUME NEW S \in Seq(Message), S # << >>, NEW g \in Counts, NEW s \in Counts,
         NEW k \in {"Done", "Partial", "Error"}, S[1] = Control(k), Flow(S, g, s)
  PROVE  /\ Flow(Tail(S), g, s)
         /\ Complete(S, g, s) => Complete(Tail(S), g, s)
<1> DEFINE T == Tail(S)
<1>1. /\ Len(S) \in Nat /\ Len(S) >= 1 /\ Len(T) = Len(S) - 1
      /\ \A i \in 1 .. Len(T) : T[i] = S[i + 1] /\ i + 1 \in 1 .. Len(S)
  OBVIOUS
<1> HIDE DEF T
<1>2. \A j \in 1 .. Len(S) : \A u \in Tables : \A m \in 1 .. Total(u) :
        S[j] = Messages(u)[m] =>
          j - 1 \in 1 .. Len(T) /\ T[j - 1] = Messages(u)[m]
  <2> SUFFICES ASSUME NEW j \in 1 .. Len(S), NEW u \in Tables, NEW m \in 1 .. Total(u),
                      S[j] = Messages(u)[m]
               PROVE  j - 1 \in 1 .. Len(T) /\ T[j - 1] = Messages(u)[m]
    OBVIOUS
  <2>1. j # 1
    BY ControlNoMessage
  <2>2. j - 1 \in 1 .. Len(T) /\ (j - 1) + 1 = j
    BY <1>1, <2>1
  <2> QED
    BY <1>1, <2>2
<1>3. Flow(T, g, s)
  <2> SUFFICES ASSUME NEW i \in 1 .. Len(T), NEW u \in Tables, NEW n \in 1 .. Total(u),
                      T[i] = Messages(u)[n]
               PROVE  /\ g[u] < n /\ n <= s[u]
                      /\ \A j \in 1 .. Len(T) : \A m \in 1 .. Total(u) :
                           T[j] = Messages(u)[m] /\ i < j => n < m
                      /\ \A m \in 1 .. Total(u) :
                           g[u] < m /\ m < n => \E j \in 1 .. Len(T) : j < i /\ T[j] = Messages(u)[m]
    BY DEF Flow
  <2>1. PICK p \in 1 .. Len(S) : p = i + 1 /\ S[p] = Messages(u)[n]
    BY <1>1
  <2>2. /\ g[u] < n /\ n <= s[u]
        /\ \A j \in 1 .. Len(S) : \A m \in 1 .. Total(u) :
             S[j] = Messages(u)[m] /\ p < j => n < m
        /\ \A m \in 1 .. Total(u) :
             g[u] < m /\ m < n => \E j \in 1 .. Len(S) : j < p /\ S[j] = Messages(u)[m]
    BY <2>1, SMTT(30) DEF Flow
  <2>3. ASSUME NEW j \in 1 .. Len(T), NEW m \in 1 .. Total(u), T[j] = Messages(u)[m], i < j
        PROVE  n < m
    <3>1. j + 1 \in 1 .. Len(S) /\ S[j + 1] = Messages(u)[m] /\ p < j + 1
      BY <1>1, <2>1, <2>3
    <3> QED
      BY <2>2, <3>1
  <2>4. ASSUME NEW m \in 1 .. Total(u), g[u] < m, m < n
        PROVE  \E j \in 1 .. Len(T) : j < i /\ T[j] = Messages(u)[m]
    <3>1. PICK j \in 1 .. Len(S) : j < p /\ S[j] = Messages(u)[m]
      BY <2>2, <2>4
    <3>2. j - 1 \in 1 .. Len(T) /\ T[j - 1] = Messages(u)[m] /\ j - 1 < i
      BY <1>2, <2>1, <3>1
    <3> QED
      BY <3>2
  <2> QED
    BY <2>2, <2>3, <2>4
<1>4. Complete(S, g, s) => Complete(T, g, s)
  BY <1>2 DEF Complete
<1> QED
  BY <1>3, <1>4 DEF T

\* One is written.
LEMMA FlowControlAppend ==
  ASSUME NEW S \in Seq(Message), NEW g \in Counts, NEW s \in Counts,
         NEW k \in {"Done", "Partial", "Error"}, Flow(S, g, s)
  PROVE  /\ Flow(Append(S, Control(k)), g, s)
         /\ Complete(S, g, s) => Complete(Append(S, Control(k)), g, s)
<1> DEFINE T == Append(S, Control(k))
<1>1. /\ Len(T) = Len(S) + 1 /\ Len(S) \in Nat
      /\ \A i \in 1 .. Len(S) : T[i] = S[i] /\ i \in 1 .. Len(T)
      /\ T[Len(S) + 1] = Control(k)
  BY ControlMessages
<1> HIDE DEF T
<1>2. \A i \in 1 .. Len(T) : \A u \in Tables : \A n \in 1 .. Total(u) :
        T[i] = Messages(u)[n] => i \in 1 .. Len(S) /\ S[i] = Messages(u)[n]
  <2> SUFFICES ASSUME NEW i \in 1 .. Len(T), NEW u \in Tables, NEW n \in 1 .. Total(u),
                      T[i] = Messages(u)[n]
               PROVE  i \in 1 .. Len(S) /\ S[i] = Messages(u)[n]
    OBVIOUS
  <2>1. i # Len(S) + 1
    BY <1>1, ControlNoMessage
  <2>2. i \in 1 .. Len(S)
    BY <1>1, <2>1
  <2> QED
    BY <1>1, <2>2
<1>3. Flow(T, g, s)
  BY <1>1, <1>2 DEF Flow
<1>4. Complete(S, g, s) => Complete(T, g, s)
  BY <1>1 DEF Complete
<1> QED
  BY <1>3, <1>4 DEF T

\* What the channel still holds when its receiver is dropped is lost.
LEMMA FlowPrefix ==
  ASSUME NEW S \in Seq(Message), NEW C \in Seq(Message), NEW g, NEW s, Flow(S \o C, g, s)
  PROVE  Flow(S, g, s)
<1> DEFINE T == S \o C
<1>1. /\ Len(S) \in Nat /\ \A i \in 1 .. Len(S) : i \in 1 .. Len(T) /\ T[i] = S[i]
  OBVIOUS
<1> HIDE DEF T
<1>2. Flow(T, g, s)
  BY DEF T
<1> SUFFICES ASSUME NEW i \in 1 .. Len(S), NEW u \in Tables, NEW n \in 1 .. Total(u),
                    S[i] = Messages(u)[n]
             PROVE  /\ g[u] < n /\ n <= s[u]
                    /\ \A j \in 1 .. Len(S) : \A m \in 1 .. Total(u) :
                         S[j] = Messages(u)[m] /\ i < j => n < m
                    /\ \A m \in 1 .. Total(u) :
                         g[u] < m /\ m < n => \E j \in 1 .. Len(S) : j < i /\ S[j] = Messages(u)[m]
  BY DEF Flow
<1>3. T[i] = Messages(u)[n] /\ i \in 1 .. Len(T)
  BY <1>1
<1>4. /\ g[u] < n /\ n <= s[u]
      /\ \A j \in 1 .. Len(T) : \A m \in 1 .. Total(u) :
           T[j] = Messages(u)[m] /\ i < j => n < m
      /\ \A m \in 1 .. Total(u) :
           g[u] < m /\ m < n => \E j \in 1 .. Len(T) : j < i /\ T[j] = Messages(u)[m]
  BY <1>2, <1>3 DEF Flow
<1>5. ASSUME NEW m \in 1 .. Total(u), g[u] < m, m < n
      PROVE  \E j \in 1 .. Len(S) : j < i /\ S[j] = Messages(u)[m]
  <2>1. PICK j \in 1 .. Len(T) : j < i /\ T[j] = Messages(u)[m]
    BY <1>4, <1>5
  <2>2. j \in 1 .. Len(S)
    BY <1>1, <2>1
  <2> QED
    BY <1>1, <2>1, <2>2
<1> QED
  BY <1>1, <1>4, <1>5

-----------------------------------------------------------------------------
(* Types and duties *)

\* A thread hands over the next message of table t.
Sends(t) ==
  /\ t \in Tables /\ sent[t] < Total(t) /\ ~ReceiverDropped /\ pc # "excluded"
  /\ chan' = Append(chan, Messages(t)[sent[t] + 1])
  /\ sent' = [sent EXCEPT ![t] = @ + 1]
  /\ UNCHANGED <<thread, pc, writing, interrupt, pipe, reading>>

\* SendFull sends the next message of a table the worker owns.
LEMMA SendFullEffect ==
  ASSUME TypeInv, DutyInv, NEW w \in Threads, SendFull(w)
  PROVE  /\ Sends(Head(todo[w])) /\ todo[w] # << >> /\ Head(todo[w]) \in Mine(w)
         /\ todo' = IF sent[Head(todo[w])] + 1 = Total(Head(todo[w]))
                    THEN [todo EXCEPT ![w] = Tail(@)] ELSE todo
<1>1. todo[w] \in Seq(Tables) /\ todo[w] # << >>
  BY DEF TypeInv, SendFull
<1>2. 1 \in 1 .. Len(todo[w]) /\ Head(todo[w]) = todo[w][1] /\ Head(todo[w]) \in Tables
  BY <1>1
<1>3. todo[w][1] \in Mine(w) /\ sent[todo[w][1]] < Total(todo[w][1])
  BY <1>2 DEF DutyInv, OnDuty
<1> QED
  BY <1>1, <1>2, <1>3 DEF SendFull, SendNext, Hand, Sends, Started

\* The traversal sends the next message of a table of an aggregate.
LEMMA SendRowsEffect ==
  ASSUME TypeInv, DutyInv, NEW t \in Tables, SendRows(t) \/ SendTableDone(t)
  PROVE  Sends(t) /\ t \in Aggregate /\ todo' = todo /\ thread[Bfs] = "run"
<1>1. sent[t] < Total(t)
  BY TotalType DEF TypeInv, SendRows, SendTableDone, RowsLeft, Unsent
<1> QED
  BY <1>1 DEF SendRows, SendTableDone, SendNext, Hand, Sends, Started

\* Sending keeps the types of the channel and the counts.
LEMMA SendsType ==
  ASSUME TypeInv, NEW t, Sends(t)
  PROVE  /\ sent[t] + 1 \in 1 .. Total(t) /\ Messages(t)[sent[t] + 1] \in Message
         /\ chan' \in Seq(Message) /\ sent' \in [Tables -> Nat]
<1>1. t \in Tables /\ sent[t] \in Nat /\ Total(t) \in Nat
  BY TotalType DEF Sends, TypeInv
<1>2. sent[t] + 1 \in 1 .. Total(t)
  BY <1>1 DEF Sends
<1>3. Messages(t)[sent[t] + 1] \in Message
  BY <1>1, <1>2, MessageFields
<1>4. chan' \in Seq(Message)
  BY <1>3 DEF Sends, TypeInv
<1>5. sent' \in [Tables -> Nat]
  BY <1>1 DEF Sends, TypeInv
<1> QED
  BY <1>2, <1>3, <1>4, <1>5

\* The other steps of the threads.
LEMMA BufferType ==
  ASSUME buf \in Seq(Message), out \in Seq(Message), NEW m \in Message,
         Buffer(m) \/ \E big \in BOOLEAN : Preencoded(m, big)
  PROVE  buf' \in Seq(Message) /\ out' \in Seq(Message)
<1>1. Append(buf, m) \in Seq(Message) /\ <<m>> \in Seq(Message) /\ << >> \in Seq(Message)
  OBVIOUS
<1>2. CASE Buffer(m)
  <2>1. CASE Len(buf) + 1 >= BufCap
    BY <1>1, <1>2, <2>1 DEF Buffer
  <2>2. CASE ~(Len(buf) + 1 >= BufCap)
    BY <1>1, <1>2, <2>2 DEF Buffer
  <2> QED
    BY <2>1, <2>2
<1>3. ASSUME NEW big \in BOOLEAN, Preencoded(m, big)
      PROVE  buf' \in Seq(Message) /\ out' \in Seq(Message)
  <2>1. \/ buf' = Append(buf, m) /\ out' = out
        \/ out' = Append(buf, m) /\ buf' = << >>
        \/ out' = buf /\ buf' = <<m>>
    BY <1>3, Zenon DEF Preencoded
  <2> QED
    BY <1>1, <2>1
<1> QED
  BY <1>2, <1>3

\* The initial state is typed.
LEMMA TypeInit == EachOnce /\ Init => TypeInv
<1> SUFFICES ASSUME EachOnce, Init PROVE TypeInv
  OBVIOUS
<1>1. todo = [w \in Threads |-> Duty(w)]
  BY DEF Init, Duty
<1>2. todo \in [Threads -> Seq(Tables)]
  BY <1>1 DEF EachOnce
<1>3. << >> \in Seq(Message)
  OBVIOUS
<1>4. /\ thread \in [Threads -> {"run", "spare", "ok", "report", "err"}]
      /\ sent \in [Tables -> Nat] /\ got \in [Tables -> Seq(Message)]
  BY <1>3 DEF Init
<1> QED
  BY <1>2, <1>3, <1>4 DEF Init, TypeInv

\* A step keeps the types.
LEMMA TypeNext ==
  ASSUME EachOnce, TypeInv, DutyInv, [Next]_vars
  PROVE  TypeInv'
<1>1. ASSUME NEW w \in Threads, SendFull(w) PROVE TypeInv'
  <2>1. Sends(Head(todo[w])) /\ todo[w] # << >>
    BY <1>1, SendFullEffect
  <2>2. chan' \in Seq(Message) /\ sent' \in [Tables -> Nat]
    BY <2>1, SendsType
  <2>3. todo' \in [Threads -> Seq(Tables)]
    <3>1. Tail(todo[w]) \in Seq(Tables)
      BY <2>1 DEF TypeInv
    <3> QED
      BY <1>1, <3>1, SendFullEffect DEF TypeInv
  <2> QED
    BY <1>1, <2>2, <2>3 DEF SendFull, TypeInv, writing, reading
<1>2. ASSUME NEW t \in Tables, SendRows(t) \/ SendTableDone(t) PROVE TypeInv'
  <2>1. Sends(t) /\ todo' = todo
    BY <1>2, SendRowsEffect
  <2>2. chan' \in Seq(Message) /\ sent' \in [Tables -> Nat]
    BY <2>1, SendsType
  <2> QED
    BY <2>1, <2>2 DEF Sends, TypeInv, writing, reading
<1>3. CASE BfsToSpare
  BY <1>3 DEF BfsToSpare, TypeInv, writing, reading
<1>4. ASSUME NEW w \in Threads, ThreadEnds(w) PROVE TypeInv'
  BY <1>4 DEF ThreadEnds, TypeInv, writing, reading
<1>5. ASSUME NEW w \in Threads, ThreadFails(w) PROVE TypeInv'
  BY <1>5 DEF ThreadFails, TypeInv, writing, reading
<1>6. ASSUME NEW w \in Threads, ReportError(w) PROVE TypeInv'
  BY <1>6, ControlMessages DEF ReportError, Hand, TypeInv, writing, reading
<1>7. ASSUME NEW w \in Threads, SendFails(w) PROVE TypeInv'
  BY <1>7 DEF SendFails, TypeInv, writing, reading
<1>8. ASSUME NEW t \in Tables, WriteExcluded(t) PROVE TypeInv'
  <2>1. sent[t] \in Nat /\ Total(t) \in Nat /\ sent[t] < Total(t)
    BY <1>8, TotalType DEF TypeInv, WriteExcluded, Unsent
  <2>2. Messages(t)[sent[t] + 1] \in Message
    BY <2>1, MessageFields
  <2>3. buf' \in Seq(Message) /\ out' \in Seq(Message)
    BY <1>8, <2>2, BufferType DEF WriteExcluded, TypeInv
  <2>4. sent' \in [Tables -> Nat]
    BY <1>8, <2>1 DEF WriteExcluded, TypeInv
  <2> QED
    BY <1>8, <2>3, <2>4 DEF WriteExcluded, TypeInv, reading
<1>9. CASE SpawnThreads \/ CheckInterrupt \/ RecvNothing \/ JoinListener
  BY <1>9 DEF SpawnThreads, CheckInterrupt, RecvNothing, JoinListener, TypeInv, producers,
              writing, reading
<1>10. CASE Recv
  <2>1. Head(chan) \in Message /\ chan' \in Seq(Message)
    BY <1>10 DEF Recv, TypeInv
  <2>2. buf' \in Seq(Message) /\ out' \in Seq(Message)
    BY <1>10, <2>1, BufferType DEF Recv, TypeInv
  <2> QED
    BY <1>10, <2>1, <2>2 DEF Recv, TypeInv, producers, reading
<1>11. CASE Flush
  BY <1>11 DEF Flush, TypeInv, producers, reading
<1>12. CASE Finish
  <2>1. Control(LastMessage) \in Message
    BY ControlMessages DEF LastMessage
  <2> QED
    BY <1>12, <2>1 DEF Finish, TypeInv, producers, reading
<1>13. CASE WriteAll
  <2>1. Head(out) \in Message /\ Tail(out) \in Seq(Message)
    BY <1>13 DEF WriteAll, Idle, TypeInv
  <2> QED
    BY <1>13, <2>1 DEF WriteAll, TypeInv, producers, reading
<1>14. CASE WriteFails
  BY <1>14 DEF WriteFails, TypeInv, producers, reading
<1>15. CASE Listen
  BY <1>15 DEF Listen, TypeInv, producers, writing, reading
<1>16. CASE ClientRead
  <2>1. Head(pipe) \in Message /\ Tail(pipe) \in Seq(Message)
    BY <1>16 DEF ClientRead, TypeInv
  <2>2. got' \in [Tables -> Seq(Message)]
    <3>1. CASE Head(pipe).kind \in Kinds
      <4>1. Head(pipe).table \in Tables
        BY <2>1, <3>1, MessageCases DEF Kinds
      <4>2. got' = [got EXCEPT ![Head(pipe).table] = Append(@, Head(pipe))]
        BY <1>16, <3>1 DEF ClientRead, Kinds
      <4> QED
        BY <2>1, <4>1, <4>2 DEF TypeInv
    <3>2. CASE Head(pipe).kind \notin Kinds
      BY <1>16, <3>2 DEF ClientRead, Kinds, TypeInv
    <3> QED
      BY <3>1, <3>2
  <2>3. client' \in {"reading", "done", "gone"}
    BY <1>16 DEF ClientRead
  <2> QED
    BY <1>16, <2>1, <2>2, <2>3 DEF ClientRead, TypeInv, producers, writing
<1>17. CASE ClientEof \/ ClientShutdown \/ ClientLeaves
  BY <1>17 DEF ClientEof, ClientShutdown, ClientLeaves, TypeInv, producers, writing
<1>18. CASE UNCHANGED vars
  BY <1>18 DEF vars, TypeInv, producers, writing, reading
<1> QED
  BY <1>1, <1>2, <1>3, <1>4, <1>5, <1>6, <1>7, <1>8, <1>9, <1>10, <1>11, <1>12, <1>13,
     <1>14, <1>15, <1>16, <1>17, <1>18 DEF Next, Producer, Main, Client, Over

\* At the start every table is still to be sent by its owner.
LEMMA DutyInit == EachOnce /\ Init => DutyInv
<1> SUFFICES ASSUME EachOnce, Init PROVE DutyInv
  OBVIOUS
<1>1. ASSUME NEW t \in Tables PROVE sent[t] = 0 /\ Total(t) \in Nat /\ 0 < Total(t)
  <2>1. sent[t] = 0
    BY DEF Init
  <2>2. Total(t) \in Nat /\ Total(t) >= 1
    BY TotalType
  <2>3. 0 < Total(t)
    BY <2>2
  <2> QED
    BY <2>1, <2>2, <2>3
<1>2. Bfs \in Threads /\ \A w \in Threads : thread[w] = "run"
  BY DEF Init, Threads
<1>3. ASSUME NEW w \in Threads PROVE OnDuty(w)
  <2>1. todo[w] = Duty(w) /\ Duty(w) \in Seq(Tables)
    BY DEF Init, Duty, EachOnce
  <2>2. \A i \in 1 .. Len(Duty(w)) : Duty(w)[i] \in Mine(w) /\ Duty(w)[i] \in Tables
    BY <2>1 DEF Mine
  <2>3. \A t \in Mine(w) : \E i \in 1 .. Len(Duty(w)) : Duty(w)[i] = t
    BY DEF Mine
  <2>4. \A i, j \in 1 .. Len(Duty(w)) : Duty(w)[i] = Duty(w)[j] => i = j
    BY DEF EachOnce
  <2> QED
    BY <1>1, <1>2, <2>1, <2>2, <2>3, <2>4 DEF OnDuty
<1> QED
  BY <1>1, <1>2, <1>3 DEF DutyInv

\* A message of a table that is none of its tables does not concern a thread.
LEMMA OthersOnDuty ==
  ASSUME EachOnce, TypeInv, NEW w \in Threads, OnDuty(w), NEW t \in Tables, t \notin Mine(w),
         sent' = [sent EXCEPT ![t] = @ + 1], todo'[w] = todo[w], thread'[w] = thread[w]
  PROVE  OnDuty(w)'
<1>1. \A u \in Mine(w) : u \in Tables
  BY DEF EachOnce, Mine
<1>2. \A u \in Mine(w) : sent'[u] = sent[u]
  BY <1>1 DEF TypeInv
<1>3. todo[w] = todo'[w] /\ thread[w] = thread'[w]
  OBVIOUS
<1> QED
  BY <1>2, <1>3 DEF OnDuty

\* A table never sends more messages than it has.
LEMMA SentBound ==
  ASSUME TypeInv, DutyInv, NEW t \in Tables, sent[t] < Total(t),
         sent' = [sent EXCEPT ![t] = @ + 1]
  PROVE  \A u \in Tables : sent'[u] <= Total(u)
<1> TAKE u \in Tables
<1>1. sent[u] \in Nat /\ sent[t] \in Nat /\ Total(t) \in Nat /\ Total(u) \in Nat
  BY TotalType DEF TypeInv
<1>2. sent'[u] = IF u = t THEN sent[t] + 1 ELSE sent[u]
  BY DEF TypeInv
<1> QED
  BY <1>1, <1>2 DEF DutyInv

\* A step keeps what every thread still owes.
LEMMA DutyNext ==
  ASSUME EachOnce, TypeInv, DutyInv, [Next]_vars
  PROVE  DutyInv'
<1>0. Bfs \in Threads /\ \A w \in Threads : OnDuty(w)
  BY DEF Threads, DutyInv
<1>1. ASSUME NEW w \in Threads, SendFull(w) PROVE DutyInv'
  <2> DEFINE T == todo[w]
             t == Head(T)
  <2>1. /\ Sends(t) /\ T # << >> /\ t \in Mine(w)
        /\ todo' = IF sent[t] + 1 = Total(t) THEN [todo EXCEPT ![w] = Tail(@)] ELSE todo
    BY <1>1, SendFullEffect
  <2>2. /\ T \in Seq(Tables) /\ t = T[1] /\ 1 \in 1 .. Len(T)
    BY <2>1 DEF TypeInv
  <2>3. /\ t \in Tables /\ sent[t] < Total(t) /\ sent' = [sent EXCEPT ![t] = @ + 1]
        /\ thread' = thread
    BY <2>1 DEF Sends
  <2> HIDE DEF T, t
  <2>4. \A u \in Tables : sent'[u] <= Total(u)
    BY <2>3, SentBound
  <2>5. ASSUME NEW v \in Threads, v # w PROVE OnDuty(v)'
    <3>1. t \notin Mine(v)
      BY <2>1, <2>5 DEF EachOnce
    <3>2. todo'[v] = todo[v] /\ thread'[v] = thread[v]
      BY <2>1, <2>3, <2>5 DEF TypeInv
    <3> QED
      BY <1>0, <2>3, <3>1, <3>2, OthersOnDuty
  <2>6. OnDuty(w)'
    <3>1. /\ \A i \in 1 .. Len(T) :
               /\ T[i] \in Mine(w) /\ sent[T[i]] < Total(T[i])
               /\ \A j \in 1 .. Len(T) : T[i] = T[j] => i = j
          /\ \A u \in Mine(w) : sent[u] = Total(u) \/ \E i \in 1 .. Len(T) : T[i] = u
          /\ thread[w] = "spare" => w = Bfs
      BY <1>0 DEF OnDuty, T
    <3>2. thread[w] # "ok"
      BY <1>1 DEF SendFull
    <3>3. \A u \in Mine(w) : u \in Tables
      BY DEF EachOnce, Mine
    <3>4. \A u \in Mine(w) : sent'[u] = IF u = t THEN sent[t] + 1 ELSE sent[u]
      BY <2>3, <3>3 DEF TypeInv
    <3>5. sent[t] \in Nat /\ Total(t) \in Nat
      BY <2>3, TotalType DEF TypeInv
    <3>6. CASE sent[t] + 1 # Total(t)
      <4>1. todo'[w] = T
        BY <2>1, <3>6 DEF T
      <4>2. \A i \in 1 .. Len(T) : sent'[T[i]] < Total(T[i])
        BY <3>1, <3>4, <3>5, <3>6
      <4>3. \A u \in Mine(w) : sent'[u] = Total(u) \/ \E i \in 1 .. Len(T) : T[i] = u
        BY <2>2, <3>1, <3>4
      <4> QED
        BY <2>3, <3>1, <3>2, <4>1, <4>2, <4>3 DEF OnDuty
    <3>7. CASE sent[t] + 1 = Total(t)
      <4> DEFINE R == Tail(T)
      <4>1. todo'[w] = R
        BY <2>1, <3>7 DEF T, TypeInv
      <4>2. /\ Len(T) \in Nat /\ Len(R) = Len(T) - 1
            /\ \A i \in 1 .. Len(R) : R[i] = T[i + 1] /\ i + 1 \in 1 .. Len(T)
        BY <2>1, <2>2
      <4> HIDE DEF R
      <4>3. ASSUME NEW i \in 1 .. Len(R)
            PROVE  /\ R[i] \in Mine(w) /\ sent'[R[i]] < Total(R[i])
                   /\ \A j \in 1 .. Len(R) : R[i] = R[j] => i = j
        <5>1. PICK p \in 1 .. Len(T) : p = i + 1 /\ R[i] = T[p]
          BY <4>2
        <5>2. T[p] # t
          BY <2>2, <3>1, <5>1
        <5>3. T[p] \in Mine(w) /\ sent'[T[p]] < Total(T[p])
          BY <3>1, <3>4, <5>1, <5>2
        <5>4. ASSUME NEW j \in 1 .. Len(R), R[i] = R[j] PROVE i = j
          <6>1. PICK q \in 1 .. Len(T) : q = j + 1 /\ R[j] = T[q]
            BY <4>2
          <6>2. p = q
            BY <3>1, <5>1, <5>4, <6>1
          <6> QED
            BY <5>1, <6>1, <6>2
        <5> QED
          BY <5>1, <5>3, <5>4
      <4>4. ASSUME NEW u \in Mine(w), sent'[u] # Total(u)
            PROVE  \E i \in 1 .. Len(R) : R[i] = u
        <5>1. u # t
          BY <3>4, <3>7, <4>4
        <5>2. PICK i \in 1 .. Len(T) : T[i] = u
          BY <3>1, <3>4, <4>4, <5>1
        <5>3. i - 1 \in 1 .. Len(R) /\ (i - 1) + 1 = i
          BY <2>2, <4>2, <5>1, <5>2
        <5> QED
          BY <4>2, <5>2, <5>3
      <4> QED
        BY <2>3, <3>1, <3>2, <4>1, <4>3, <4>4 DEF OnDuty
    <3> QED
      BY <3>6, <3>7
  <2>7. thread'[Bfs] \in {"spare", "ok"} => \A u \in Aggregate : sent'[u] = Total(u)
    <3>1. \A u \in Aggregate : u \in Tables /\ u # t
      BY <2>1, StreamingAssumption DEF EachOnce
    <3> QED
      BY <2>3, <3>1 DEF DutyInv, TypeInv
  <2> QED
    BY <2>4, <2>5, <2>6, <2>7 DEF DutyInv
<1>2. ASSUME NEW t \in Tables, SendRows(t) \/ SendTableDone(t) PROVE DutyInv'
  <2>1. Sends(t) /\ t \in Aggregate /\ todo' = todo /\ thread[Bfs] = "run"
    BY <1>2, SendRowsEffect
  <2>2. sent[t] < Total(t) /\ sent' = [sent EXCEPT ![t] = @ + 1] /\ thread' = thread
    BY <2>1 DEF Sends
  <2>3. ASSUME NEW w \in Threads PROVE OnDuty(w)'
    <3>1. t \notin Mine(w)
      BY <2>1 DEF EachOnce
    <3> QED
      BY <1>0, <2>1, <2>2, <3>1, OthersOnDuty
  <2> QED
    BY <2>1, <2>2, <2>3, SentBound DEF DutyInv
<1>3. ASSUME NEW t \in Tables, WriteExcluded(t) PROVE DutyInv'
  <2>1. /\ sent[t] < Total(t) /\ sent' = [sent EXCEPT ![t] = @ + 1] /\ t \in Excluded
        /\ thread' = thread /\ todo' = todo
    BY <1>3 DEF WriteExcluded, Unsent
  <2>2. ASSUME NEW w \in Threads PROVE OnDuty(w)'
    <3>1. t \notin Mine(w)
      BY <2>1 DEF EachOnce
    <3> QED
      BY <1>0, <2>1, <3>1, OthersOnDuty
  <2>3. \A u \in Aggregate : u \in Tables /\ u # t
    BY <2>1, StreamingAssumption DEF EachOnce
  <2>4. thread'[Bfs] \in {"spare", "ok"} => \A u \in Aggregate : sent'[u] = Total(u)
    BY <2>1, <2>3 DEF DutyInv, TypeInv
  <2> QED
    BY <2>1, <2>2, <2>4, SentBound DEF DutyInv
<1>4. CASE BfsToSpare
  <2>1. \A t \in Aggregate : sent[t] = Total(t)
    <3> TAKE t \in Aggregate
    <3>1. t \in Tables /\ ~(sent[t] < Total(t))
      BY <1>4, StreamingAssumption DEF BfsToSpare, Unsent
    <3>2. sent[t] <= Total(t) /\ sent[t] \in Nat /\ Total(t) \in Nat
      BY <3>1, TotalType DEF DutyInv, TypeInv
    <3> QED
      BY <3>1, <3>2
  <2> QED
    BY <1>0, <1>4, <2>1 DEF BfsToSpare, DutyInv, OnDuty, TypeInv
<1>5. ASSUME NEW w \in Threads, ThreadEnds(w) PROVE DutyInv'
  BY <1>0, <1>5 DEF ThreadEnds, DutyInv, OnDuty, TypeInv
<1>6. ASSUME NEW w \in Threads, ThreadFails(w) \/ ReportError(w) \/ SendFails(w) PROVE DutyInv'
  <2>1. PICK how \in {"err", "report"} : thread' = [thread EXCEPT ![w] = how]
    BY <1>6 DEF ThreadFails, ReportError, SendFails
  <2>2. UNCHANGED <<todo, sent>>
    BY <1>6 DEF ThreadFails, ReportError, SendFails
  <2> QED
    BY <1>0, <2>1, <2>2 DEF DutyInv, OnDuty, TypeInv
<1>7. CASE UNCHANGED producers
  BY <1>7 DEF producers, DutyInv, OnDuty
<1>8. CASE UNCHANGED vars
  BY <1>7, <1>8 DEF vars
<1> QED
  BY <1>1, <1>2, <1>3, <1>4, <1>5, <1>6, <1>7, <1>8
     DEF Next, Producer, Main, Client, Over, SpawnThreads, CheckInterrupt, Recv, RecvNothing,
         Flush, Finish, JoinListener, WriteAll, WriteFails, Listen, ClientRead, ClientEof,
         ClientShutdown, ClientLeaves

-----------------------------------------------------------------------------
(* The main thread *)

\* At the start the main thread has written nothing.
LEMMA MainInit == Init => MainInv
BY DEF Init, MainInv

\* While a thread can hand over a message the loop has not been left for good.
LEMMA SendsMain ==
  ASSUME EachOnce, TypeInv, MainInv, NEW t, Sends(t), NEW w \in Threads, thread[w] \in {"run", "spare"}
  PROVE  MainInv'
<1>1. pc \notin {"excluded", "listener", "exit", "flush", "join"}
  BY DEF Sends, ReceiverDropped, MainInv, AllEnded, TypeInv
<1>2. \A u \in Excluded : sent'[u] = Total(u)
  <2> TAKE u \in Excluded
  <2>1. u \in Tables /\ sent[u] = Total(u)
    BY <1>1 DEF MainInv, EachOnce
  <2>2. u # t
    BY <2>1, TotalType DEF Sends
  <2> QED
    BY <2>1, <2>2 DEF Sends, TypeInv
<1>3. UNCHANGED <<pc, buf, out, interrupt, client>>
  BY DEF Sends, writing, reading
<1> QED
  BY <1>1, <1>2, <1>3 DEF MainInv, HangsUp

\* A thread that has not ended keeps the main thread from the end of its loop.
LEMMA ThreadMain ==
  ASSUME EachOnce, TypeInv, MainInv, NEW w \in Threads, thread[w] \notin {"ok", "err"},
         UNCHANGED <<sent, pc, buf, out, interrupt, client>>, pc # "excluded"
  PROVE  MainInv'
<1>1. pc \notin {"flush", "join"}
  BY DEF MainInv, AllEnded
<1> QED
  BY <1>1 DEF MainInv, HangsUp

\* A step keeps what the phase of the main thread says.
LEMMA MainNext ==
  ASSUME EachOnce, TypeInv, DutyInv, MainInv, [Next]_vars
  PROVE  MainInv'
<1>0. Bfs \in Threads
  BY DEF Threads
<1>1. ASSUME NEW w \in Threads, SendFull(w) PROVE MainInv'
  <2>1. Sends(Head(todo[w])) /\ thread[w] \in {"run", "spare"}
    BY <1>1, SendFullEffect DEF SendFull
  <2> QED
    BY <2>1, SendsMain
<1>2. ASSUME NEW t \in Tables, SendRows(t) \/ SendTableDone(t) PROVE MainInv'
  BY <1>0, <1>2, SendRowsEffect, SendsMain
<1>3. ASSUME NEW w \in Threads, ThreadEnds(w) \/ ThreadFails(w) \/ ReportError(w) \/ SendFails(w)
      PROVE  MainInv'
  <2>1. thread[w] \notin {"ok", "err"}
    BY <1>3 DEF ThreadEnds, ThreadFails, ReportError, SendFails
  <2>2. UNCHANGED <<sent, pc, buf, out, interrupt, client>>
    BY <1>3 DEF ThreadEnds, ThreadFails, ReportError, SendFails, writing, reading
  <2>3. pc # "excluded"
    BY <1>3 DEF ThreadEnds, ThreadFails, ReportError, SendFails, Started, ReceiverDropped, MainInv
  <2> QED
    BY <2>1, <2>2, <2>3, ThreadMain
<1>4. CASE BfsToSpare
  <2>1. thread[Bfs] = "run" /\ UNCHANGED <<sent, pc, buf, out, interrupt, client>> /\ pc # "excluded"
    BY <1>4 DEF BfsToSpare, Started, writing, reading
  <2> QED
    BY <1>0, <2>1, ThreadMain
<1>5. ASSUME NEW t \in Tables, WriteExcluded(t) PROVE MainInv'
  BY <1>5 DEF WriteExcluded, MainInv, HangsUp, reading
<1>6. CASE SpawnThreads
  <2>1. \A t \in Excluded : sent[t] = Total(t)
    <3> TAKE t \in Excluded
    <3>1. t \in Tables /\ ~(sent[t] < Total(t))
      BY <1>6 DEF SpawnThreads, Unsent, EachOnce
    <3>2. sent[t] <= Total(t) /\ sent[t] \in Nat /\ Total(t) \in Nat
      BY <3>1, TotalType DEF DutyInv, TypeInv
    <3> QED
      BY <3>1, <3>2
  <2> QED
    BY <1>6, <2>1 DEF SpawnThreads, MainInv, HangsUp, producers, writing, reading
<1>7. CASE CheckInterrupt
  BY <1>7 DEF CheckInterrupt, Idle, MainInv, HangsUp, producers, writing, reading
<1>8. CASE Recv
  BY <1>8 DEF Recv, MainInv, HangsUp, producers, reading
<1>9. CASE RecvNothing
  BY <1>9 DEF RecvNothing, Disconnected, AllEnded, MainInv, HangsUp, producers, writing, reading
<1>10. CASE Flush
  BY <1>10 DEF Flush, AllEnded, MainInv, HangsUp, producers, reading
<1>11. CASE Finish
  BY <1>11 DEF Finish, MainInv, HangsUp, producers, reading
<1>12. CASE JoinListener
  BY <1>12 DEF JoinListener, MainInv, HangsUp, producers, writing, reading
<1>13. CASE WriteAll
  BY <1>13 DEF WriteAll, Idle, AllEnded, MainInv, HangsUp, producers, reading
<1>14. CASE WriteFails
  BY <1>14 DEF WriteFails, MainInv, HangsUp, producers, reading
<1>15. CASE Listen
  BY <1>15 DEF Listen, AllEnded, MainInv, HangsUp, producers, writing, reading
<1>16. CASE Client \/ ClientLeaves
  <2>1. UNCHANGED <<thread, sent, chan, pc, buf, out, interrupt>>
    BY <1>16 DEF Client, ClientRead, ClientEof, ClientShutdown, ClientLeaves, producers, writing
  <2>2. interrupt => HangsUp'
    BY <1>16 DEF Client, ClientRead, ClientEof, ClientShutdown, ClientLeaves, MainInv, HangsUp
  <2> QED
    BY <2>1, <2>2 DEF AllEnded, MainInv
<1>17. CASE UNCHANGED vars
  BY <1>17 DEF vars, AllEnded, MainInv, HangsUp, producers, writing, reading
<1> QED
  BY <1>1, <1>2, <1>3, <1>4, <1>5, <1>6, <1>7, <1>8, <1>9, <1>10, <1>11, <1>12, <1>13,
     <1>14, <1>15, <1>16, <1>17 DEF Next, Producer, Main, Over

-----------------------------------------------------------------------------
(* What is on its way, step by step *)

\* Appending to the second of two sequences appends to both.
LEMMA AppendBehind ==
  ASSUME NEW s \in Seq(Message), NEW t \in Seq(Message), NEW x \in Message
  PROVE  s \o Append(t, x) = Append(s \o t, x)
<1>1. Append(t, x) = t \o <<x>> /\ <<x>> \in Seq(Message) /\ s \o t \in Seq(Message)
  BY AppendIsConcat, ConcatProperties
<1>2. (s \o t) \o <<x>> = s \o (t \o <<x>>)
  BY <1>1, ConcatAssociative
<1>3. Append(s \o t, x) = (s \o t) \o <<x>>
  BY <1>1, AppendIsConcat
<1> QED
  BY <1>1, <1>2, <1>3

\* Moving a head from one buffer to the one before it changes no order.
LEMMA HeadMoves ==
  ASSUME NEW s \in Seq(Message), NEW t \in Seq(Message), t # << >>
  PROVE  Append(s, Head(t)) \o Tail(t) = s \o t
<1>1. /\ Head(t) \in Message /\ Tail(t) \in Seq(Message) /\ <<Head(t)>> \in Seq(Message)
      /\ Append(s, Head(t)) = s \o <<Head(t)>>
  BY AppendIsConcat
<1>2. t = <<Head(t)>> \o Tail(t)
  OBVIOUS
<1>3. (s \o <<Head(t)>>) \o Tail(t) = s \o (<<Head(t)>> \o Tail(t))
  BY <1>1, ConcatAssociative
<1> QED
  BY <1>1, <1>2, <1>3

\* The head of the first buffer is the head of all.
LEMMA HeadLeaves ==
  ASSUME NEW s \in Seq(Message), NEW t \in Seq(Message), s # << >>
  PROVE  /\ s \o t # << >> /\ (s \o t)[1] = Head(s) /\ Tail(s \o t) = Tail(s) \o t
<1>1. Len(s) \in Nat \ {0} /\ Len(t) \in Nat /\ Tail(s) \in Seq(Message) /\ Len(Tail(s)) = Len(s) - 1
  OBVIOUS
<1>2. /\ s \o t \in Seq(Message) /\ Len(s \o t) = Len(s) + Len(t)
      /\ s \o t # << >> /\ (s \o t)[1] = s[1] /\ s[1] = Head(s)
  BY <1>1
<1>3. Tail(s \o t) = Tail(s) \o t
  <2>1. /\ Tail(s \o t) \in Seq(Message) /\ Tail(s) \o t \in Seq(Message)
        /\ Len(Tail(s \o t)) = (Len(s) + Len(t)) - 1
        /\ Len(Tail(s) \o t) = (Len(s) - 1) + Len(t)
    BY <1>1, <1>2
  <2>2. ASSUME NEW i \in 1 .. (Len(s) + Len(t)) - 1
        PROVE  Tail(s \o t)[i] = (Tail(s) \o t)[i]
    BY <1>1, <1>2, <2>1
  <2> QED
    BY <1>1, <2>1, <2>2, SeqEqual
<1> QED
  BY <1>2, <1>3

\* Everything on its way is a sequence of messages.
LEMMA FeedType ==
  ASSUME TypeInv
  PROVE  /\ pipe \o out \in Seq(Message) /\ Written \in Seq(Message) /\ Feed \in Seq(Message)
         /\ Read \in Counts /\ sent \in Counts
<1>1. pipe \o out \in Seq(Message)
  BY ConcatProperties DEF TypeInv
<1>2. Written \in Seq(Message)
  BY <1>1, ConcatProperties DEF TypeInv, Written
<1>3. Written \o chan \in Seq(Message)
  BY <1>2, ConcatProperties DEF TypeInv
<1>4. Read \in Counts /\ sent \in Counts
  BY DEF TypeInv, Counts, Read
<1> QED
  BY <1>1, <1>2, <1>3, <1>4 DEF Feed

\* Into the buffer, or through it.
LEMMA BufferWrites ==
  ASSUME TypeInv, out = << >>, pipe' = pipe, NEW m \in Message,
         Buffer(m) \/ \E big \in BOOLEAN : Preencoded(m, big)
  PROVE  Written' = Append(Written, m)
<1>1. /\ pipe \o << >> = pipe /\ pipe \in Seq(Message) /\ buf \in Seq(Message)
      /\ Written = pipe \o buf /\ pipe \o buf \in Seq(Message) /\ Append(buf, m) \in Seq(Message)
  BY ConcatEmptySeq, ConcatProperties DEF TypeInv, Written
<1>2. pipe \o Append(buf, m) = Append(pipe \o buf, m)
  BY <1>1, AppendBehind
<1>3. \/ buf' = Append(buf, m) /\ out' = out
      \/ out' = Append(buf, m) /\ buf' = << >>
      \/ out' = buf /\ buf' = <<m>>
  BY Zenon DEF Buffer, Preencoded
<1>4. CASE buf' = Append(buf, m) /\ out' = out
  BY <1>1, <1>2, <1>4 DEF Written
<1>5. CASE out' = Append(buf, m) /\ buf' = << >>
  <2>1. (pipe \o Append(buf, m)) \o << >> = pipe \o Append(buf, m)
    BY <1>1, ConcatProperties, ConcatEmptySeq
  <2> QED
    BY <1>1, <1>2, <1>5, <2>1 DEF Written
<1>6. CASE out' = buf /\ buf' = <<m>>
  <2>1. (pipe \o buf) \o <<m>> = Append(pipe \o buf, m)
    BY <1>1, AppendIsConcat
  <2> QED
    BY <1>1, <1>6, <2>1 DEF Written
<1> QED
  BY <1>3, <1>4, <1>5, <1>6

\* The control messages differ.
LEMMA ControlDistinct ==
  /\ Control("Done") # Control("Partial") /\ Control("Done") # Control("Error")
  /\ Control("Partial") # Control("Error")
BY ControlMessages

\* Sending the next message of a table keeps the stream in order and complete.
LEMMA OpenAppend ==
  ASSUME NEW S \in Seq(Message), NEW g \in Counts, NEW s \in Counts, NEW t \in Tables,
         s[t] < Total(t), g[t] <= s[t], Open(S, g, s)
  PROVE  Open(Append(S, Messages(t)[s[t] + 1]), g, [s EXCEPT ![t] = @ + 1])
<1> DEFINE x == Messages(t)[s[t] + 1]
           T == Append(S, x)
           z == [s EXCEPT ![t] = @ + 1]
<1>1. Flow(T, g, z) /\ Complete(T, g, z)
  BY FlowAppend DEF Open
<1>2. s[t] + 1 \in 1 .. Total(t)
  BY TotalType DEF Counts
<1>3. x \in Message /\ x # Control("Done") /\ x # Control("Partial")
  BY <1>2, MessageFields, ControlNoMessage
<1> HIDE DEF x
<1>4. \A i \in 1 .. Len(T) : (i \in 1 .. Len(S) /\ T[i] = S[i]) \/ T[i] = x
  BY <1>3
<1> HIDE DEF T, z
<1>5. Open(T, g, z)
  BY <1>1, <1>3, <1>4 DEF Open
<1> QED
  BY <1>5 DEF T, z, x

\* An error of a worker disturbs no table.
LEMMA OpenError ==
  ASSUME NEW S \in Seq(Message), NEW g \in Counts, NEW s \in Counts, Open(S, g, s)
  PROVE  Open(Append(S, Control("Error")), g, s)
<1> DEFINE T == Append(S, Control("Error"))
<1>1. Flow(T, g, s) /\ Complete(T, g, s)
  BY FlowControlAppend DEF Open
<1>2. \A i \in 1 .. Len(T) : (i \in 1 .. Len(S) /\ T[i] = S[i]) \/ T[i] = Control("Error")
  BY ControlMessages
<1> QED
  BY <1>1, <1>2, ControlDistinct DEF Open

\* Ending with an error may lose what is still in the channel, and says no Done.
LEMMA CloseError ==
  ASSUME NEW S \in Seq(Message), NEW C \in Seq(Message), NEW g \in Counts, NEW s \in Counts,
         Open(S \o C, g, s)
  PROVE  Closed(Append(S, Control("Error")), g, s)
<1> DEFINE T == Append(S, Control("Error"))
<1>1. Flow(S, g, s)
  BY FlowPrefix DEF Open
<1>2. Flow(T, g, s)
  BY <1>1, FlowControlAppend
<1>3. \A i \in 1 .. Len(T) : (i \in 1 .. Len(S) /\ T[i] = S[i]) \/ T[i] = Control("Error")
  BY ControlMessages
<1>4. \A i \in 1 .. Len(S) : i \in 1 .. Len(S \o C) /\ (S \o C)[i] = S[i]
  OBVIOUS
<1>5. \A i \in 1 .. Len(S) : S[i] # Control("Done") /\ S[i] # Control("Partial")
  BY <1>4 DEF Open
<1> QED
  BY <1>2, <1>3, <1>5, ControlDistinct DEF Closed

\* Ending with Done after every table was sent: Done comes last and nothing is missing.
LEMMA CloseDone ==
  ASSUME NEW S \in Seq(Message), NEW g \in Counts, NEW s \in Counts,
         Open(S, g, s), \A t \in Tables : s[t] = Total(t)
  PROVE  Closed(Append(S, Control("Done")), g, s)
<1> DEFINE T == Append(S, Control("Done"))
<1>1. Flow(T, g, s) /\ Complete(T, g, s)
  BY FlowControlAppend DEF Open
<1>2. \A i \in 1 .. Len(T) :
        (i \in 1 .. Len(S) /\ T[i] = S[i]) \/ (i = Len(T) /\ T[i] = Control("Done"))
  <2>1. /\ Len(T) = Len(S) + 1 /\ Len(S) \in Nat
        /\ \A i \in 1 .. Len(S) : T[i] = S[i]
        /\ T[Len(S) + 1] = Control("Done")
    BY ControlMessages
  <2> HIDE DEF T
  <2> QED
    BY <2>1
<1> QED
  BY <1>1, <1>2, ControlDistinct DEF Closed, Open

\* The client reads.
LEMMA TailIndex ==
  ASSUME NEW S \in Seq(Message), S # << >>
  PROVE  /\ Tail(S) \in Seq(Message) /\ Len(Tail(S)) = Len(S) - 1 /\ Len(S) \in Nat \ {0}
         /\ \A i \in 1 .. Len(Tail(S)) : i + 1 \in 1 .. Len(S) /\ Tail(S)[i] = S[i + 1]
OBVIOUS

\* The client reading from a stream that is still being written.
LEMMA OpenHead ==
  ASSUME NEW S \in Seq(Message), S # << >>, NEW g \in Counts, NEW s \in Counts, Open(S, g, s)
  PROVE  /\ \A t \in Tables : \A n \in 1 .. Total(t) :
              S[1] = Messages(t)[n] => Open(Tail(S), [g EXCEPT ![t] = @ + 1], s)
         /\ S[1] = Control("Error") => Open(Tail(S), g, s)
         /\ S[1] # Control("Done") /\ S[1] # Control("Partial")
<1>1. \A i \in 1 .. Len(Tail(S)) :
        Tail(S)[i] # Control("Done") /\ Tail(S)[i] # Control("Partial")
  BY TailIndex DEF Open
<1>2. ASSUME NEW t \in Tables, NEW n \in 1 .. Total(t), S[1] = Messages(t)[n]
      PROVE  Open(Tail(S), [g EXCEPT ![t] = @ + 1], s)
  <2>1. /\ Flow(Tail(S), [g EXCEPT ![t] = @ + 1], s)
        /\ Complete(Tail(S), [g EXCEPT ![t] = @ + 1], s)
    BY <1>2, FlowHead DEF Open
  <2> QED
    BY <1>1, <2>1 DEF Open
<1>3. ASSUME S[1] = Control("Error") PROVE Open(Tail(S), g, s)
  <2>1. Flow(Tail(S), g, s) /\ Complete(Tail(S), g, s)
    BY <1>3, FlowControlHead DEF Open
  <2> QED
    BY <1>1, <2>1 DEF Open
<1>4. 1 \in 1 .. Len(S)
  BY TailIndex
<1>5. S[1] # Control("Done") /\ S[1] # Control("Partial")
  BY <1>4 DEF Open
<1> QED
  BY <1>2, <1>3, <1>5

\* The client reading from a stream that has ended: a Done it reads is the last thing in it.
LEMMA ClosedHead ==
  ASSUME NEW S \in Seq(Message), S # << >>, NEW g \in Counts, NEW s \in Counts, Closed(S, g, s)
  PROVE  /\ \A t \in Tables : \A n \in 1 .. Total(t) :
              S[1] = Messages(t)[n] => Closed(Tail(S), [g EXCEPT ![t] = @ + 1], s)
         /\ S[1] = Control("Error") => Closed(Tail(S), g, s)
         /\ S[1] # Control("Partial")
         /\ S[1] = Control("Done") =>
              \A t \in Tables : s[t] = Total(t) /\ \A n \in 1 .. Total(t) : ~(g[t] < n)
<1>0. 1 \in 1 .. Len(S)
  BY TailIndex
<1>1. ASSUME NEW i \in 1 .. Len(Tail(S))
      PROVE  /\ Tail(S)[i] # Control("Partial")
             /\ Tail(S)[i] = Control("Done") =>
                  i = Len(Tail(S)) /\ Complete(S, g, s) /\ \A u \in Tables : s[u] = Total(u)
  <2>1. PICK p \in 1 .. Len(S) : p = i + 1 /\ Tail(S)[i] = S[p]
    BY TailIndex
  <2>2. /\ S[p] # Control("Partial")
        /\ S[p] = Control("Done") =>
             p = Len(S) /\ Complete(S, g, s) /\ \A u \in Tables : s[u] = Total(u)
    BY DEF Closed
  <2> QED
    BY <2>1, <2>2, TailIndex
<1>2. ASSUME NEW t \in Tables, NEW n \in 1 .. Total(t), S[1] = Messages(t)[n]
      PROVE  Closed(Tail(S), [g EXCEPT ![t] = @ + 1], s)
  <2>1. /\ Flow(Tail(S), [g EXCEPT ![t] = @ + 1], s)
        /\ Complete(S, g, s) => Complete(Tail(S), [g EXCEPT ![t] = @ + 1], s)
    BY <1>2, FlowHead DEF Closed
  <2> QED
    BY <1>1, <2>1 DEF Closed
<1>3. ASSUME S[1] = Control("Error") PROVE Closed(Tail(S), g, s)
  <2>1. Flow(Tail(S), g, s) /\ (Complete(S, g, s) => Complete(Tail(S), g, s))
    BY <1>3, FlowControlHead DEF Closed
  <2> QED
    BY <1>1, <2>1 DEF Closed
<1>4. S[1] # Control("Partial")
  BY <1>0 DEF Closed
<1>5. ASSUME S[1] = Control("Done"), NEW t \in Tables
      PROVE  s[t] = Total(t) /\ \A n \in 1 .. Total(t) : ~(g[t] < n)
  <2>1. 1 = Len(S) /\ Complete(S, g, s) /\ s[t] = Total(t)
    BY <1>0, <1>5 DEF Closed
  <2>2. ASSUME NEW n \in 1 .. Total(t), g[t] < n PROVE FALSE
    <3>1. n <= s[t]
      BY <2>1, TotalType
    <3>2. PICK i \in 1 .. Len(S) : S[i] = Messages(t)[n]
      BY <2>1, <2>2, <3>1 DEF Complete
    <3>3. i = 1
      <4>1. i \in 1 .. 1
        BY <2>1, <3>2
      <4> QED
        BY <4>1
    <3> QED
      BY <1>5, <3>2, <3>3, ControlNoMessage
  <2> QED
    BY <2>1, <2>2
<1> QED
  BY <1>2, <1>3, <1>4, <1>5

-----------------------------------------------------------------------------
(* The flow and what the client has *)

\* At the start nothing is on its way.
LEMMA FlowInit == EachOnce /\ Init => FlowInv /\ GotInv /\ DoneMeansAll
<1> SUFFICES ASSUME EachOnce, Init PROVE FlowInv /\ GotInv /\ DoneMeansAll
  OBVIOUS
<1>1. Feed = << >>
  BY ConcatEmptySeq DEF Init, Feed, Written, ReceiverDropped
<1>2. \A t \in Tables : Len(got[t]) = 0 /\ sent[t] = 0 /\ Read[t] = 0
  BY DEF Init, Read
<1>3. Flow(Feed, Read, sent) /\ Complete(Feed, Read, sent)
  BY <1>1, <1>2 DEF Flow, Complete
<1>4. Open(Feed, Read, sent)
  BY <1>1, <1>3 DEF Open
<1> QED
  BY <1>2, <1>4 DEF Init, FlowInv, GotInv, DoneMeansAll, ReceiverDropped

\* Open in the next state, from what the next state holds.
LEMMA OpenPrime ==
  ASSUME NEW S, NEW g, NEW s, Open(S, g, s), Feed' = S, Read' = g, sent' = s
  PROVE  Open(Feed, Read, sent)'
BY DEF Open, Flow, Complete

\* Closed in the next state, likewise.
LEMMA ClosedPrime ==
  ASSUME NEW S, NEW g, NEW s, Closed(S, g, s), Feed' = S, Read' = g, sent' = s
  PROVE  Closed(Feed, Read, sent)'
BY DEF Closed, Flow, Complete

\* Nothing but the place of the messages changes.
LEMMA FlowKept ==
  ASSUME FlowInv, GotInv, DoneMeansAll, Feed' = Feed, sent' = sent, got' = got,
         client' = client, ReceiverDropped' <=> ReceiverDropped
  PROVE  FlowInv' /\ GotInv' /\ DoneMeansAll'
<1>1. Read' = Read
  BY DEF Read
<1> QED
  BY <1>1 DEF FlowInv, GotInv, DoneMeansAll, Open, Closed, Flow, Complete

\* The next message of a table is handed over, or written by the main thread.
LEMMA FlowGrows ==
  ASSUME TypeInv, FlowInv, GotInv, DoneMeansAll, NEW t \in Tables, sent[t] < Total(t),
         Feed' = Append(Feed, Messages(t)[sent[t] + 1]), sent' = [sent EXCEPT ![t] = @ + 1],
         got' = got, client' = client, ~ReceiverDropped, ~ReceiverDropped'
  PROVE  FlowInv' /\ GotInv' /\ DoneMeansAll'
<1>1. Read' = Read /\ Read[t] = Len(got[t]) /\ Read[t] <= sent[t]
  BY DEF Read, GotInv
<1>2. Feed \in Seq(Message) /\ Read \in Counts /\ sent \in Counts
  BY FeedType
<1>3. ASSUME client = "reading" PROVE Open(Feed, Read, sent)'
  <2>1. Open(Feed, Read, sent)
    BY <1>3 DEF FlowInv
  <2>2. Open(Append(Feed, Messages(t)[sent[t] + 1]), Read, [sent EXCEPT ![t] = @ + 1])
    BY <1>1, <1>2, <2>1, OpenAppend
  <2> QED
    BY <1>1, <2>2 DEF Open, Flow, Complete
<1>4. GotInv'
  <2> SUFFICES ASSUME NEW u \in Tables
               PROVE  Len(got[u]) <= sent'[u]
    BY DEF GotInv
  <2>1. sent'[u] = (IF u = t THEN sent[t] + 1 ELSE sent[u]) /\ sent[u] \in Nat /\ Len(got[u]) \in Nat
    BY DEF TypeInv
  <2>2. Len(got[u]) <= sent[u]
    BY DEF GotInv
  <2> QED
    BY <2>1, <2>2
<1> QED
  BY <1>3, <1>4 DEF FlowInv, DoneMeansAll

\* Sending a message of a table keeps the order and completeness of the stream.
LEMMA FlowSends ==
  ASSUME TypeInv, FlowInv, GotInv, DoneMeansAll, NEW t, Sends(t)
  PROVE  FlowInv' /\ GotInv' /\ DoneMeansAll'
<1>1. /\ t \in Tables /\ sent[t] < Total(t) /\ sent' = [sent EXCEPT ![t] = @ + 1]
      /\ ~ReceiverDropped /\ chan' = Append(chan, Messages(t)[sent[t] + 1])
      /\ UNCHANGED <<pc, buf, out, pipe, client, got>>
  BY DEF Sends, writing, reading
<1>2. Written' = Written /\ ~ReceiverDropped'
  BY <1>1 DEF Written, ReceiverDropped
<1>3. Messages(t)[sent[t] + 1] \in Message
  BY SendsType
<1>4. Written \o Append(chan, Messages(t)[sent[t] + 1])
        = Append(Written \o chan, Messages(t)[sent[t] + 1])
  BY <1>3, FeedType, AppendBehind DEF TypeInv
<1>5. Feed' = Append(Feed, Messages(t)[sent[t] + 1])
  BY <1>1, <1>2, <1>4 DEF Feed
<1> QED
  BY <1>1, <1>2, <1>5, FlowGrows

\* A thread that reports its error keeps them.
LEMMA FlowReport ==
  ASSUME TypeInv, FlowInv, GotInv, DoneMeansAll, NEW w \in Threads, ReportError(w)
  PROVE  FlowInv' /\ GotInv' /\ DoneMeansAll'
<1>1. /\ ~ReceiverDropped /\ chan' = Append(chan, Control("Error"))
      /\ UNCHANGED <<sent, pc, buf, out, pipe, client, got>>
  BY DEF ReportError, Hand, writing, reading
<1>2. Written' = Written /\ ~ReceiverDropped' /\ Read' = Read
  BY <1>1 DEF Written, ReceiverDropped, Read
<1>3. Written \o Append(chan, Control("Error")) = Append(Written \o chan, Control("Error"))
  BY ControlMessages, FeedType, AppendBehind DEF TypeInv
<1>4. Feed' = Append(Feed, Control("Error"))
  BY <1>1, <1>2, <1>3 DEF Feed
<1>5. ASSUME client = "reading" PROVE Open(Feed, Read, sent)'
  <2>1. Open(Feed, Read, sent)
    BY <1>1, <1>5 DEF FlowInv
  <2>2. Open(Append(Feed, Control("Error")), Read, sent)
    BY <2>1, FeedType, OpenError
  <2> QED
    BY <1>1, <1>2, <1>4, <2>2 DEF Open, Flow, Complete
<1> QED
  BY <1>1, <1>2, <1>5 DEF FlowInv, GotInv, DoneMeansAll

\* Announcing an excluded table from the main thread keeps them.
LEMMA FlowExcluded ==
  ASSUME TypeInv, MainInv, FlowInv, GotInv, DoneMeansAll, NEW t \in Tables, WriteExcluded(t)
  PROVE  FlowInv' /\ GotInv' /\ DoneMeansAll'
<1>1. /\ sent[t] < Total(t) /\ sent' = [sent EXCEPT ![t] = @ + 1] /\ chan = << >>
      /\ out = << >> /\ Buffer(Messages(t)[sent[t] + 1])
      /\ UNCHANGED <<chan, pc, pipe, client, got>> /\ ~ReceiverDropped /\ ~ReceiverDropped'
  BY DEF WriteExcluded, Unsent, Idle, ReceiverDropped, MainInv, reading
<1>2. sent[t] \in Nat /\ Total(t) \in Nat
  BY TotalType DEF TypeInv
<1>3. sent[t] + 1 \in 1 .. Total(t)
  BY <1>1, <1>2
<1>4. Messages(t)[sent[t] + 1] \in Message
  BY <1>3, MessageFields
<1>5. Written' = Append(Written, Messages(t)[sent[t] + 1])
  BY <1>1, <1>4, BufferWrites
<1>6. /\ Written \o << >> = Written
      /\ Append(Written, Messages(t)[sent[t] + 1]) \o << >>
           = Append(Written, Messages(t)[sent[t] + 1])
  BY <1>4, FeedType, AppendProperties, ConcatEmptySeq
<1>7. Feed' = Append(Feed, Messages(t)[sent[t] + 1])
  BY <1>1, <1>5, <1>6 DEF Feed
<1> QED
  BY <1>1, <1>7, FlowGrows

\* From the channel into the buffer, from there to write_all, and into the pipe.
LEMMA FeedMoves ==
  ASSUME TypeInv, MainInv, Recv \/ Flush \/ WriteAll
  PROVE  Feed' = Feed /\ (ReceiverDropped' <=> ReceiverDropped)
<1>0. /\ pipe \in Seq(Message) /\ out \in Seq(Message) /\ buf \in Seq(Message)
      /\ chan \in Seq(Message) /\ Written \in Seq(Message)
  BY FeedType DEF TypeInv
<1>1. CASE Recv
  <2>1. /\ chan # << >> /\ chan' = Tail(chan) /\ pipe' = pipe /\ out = << >>
        /\ ~ReceiverDropped /\ ~ReceiverDropped'
        /\ Buffer(Head(chan)) \/ \E big \in BOOLEAN : Preencoded(Head(chan), big)
    BY <1>1 DEF Recv, ReceiverDropped, MainInv
  <2>2. Head(chan) \in Message
    BY <1>0, <2>1
  <2>3. Written' = Append(Written, Head(chan))
    BY <2>1, <2>2, BufferWrites
  <2>4. Append(Written, Head(chan)) \o Tail(chan) = Written \o chan
    BY <1>0, <2>1, HeadMoves
  <2> QED
    BY <2>1, <2>3, <2>4 DEF Feed
<1>2. CASE Flush
  <2>1. /\ chan' = chan /\ pipe' = pipe /\ out = << >> /\ out' = buf /\ buf' = << >>
        /\ ~ReceiverDropped /\ ~ReceiverDropped'
    BY <1>2 DEF Flush, Idle, ReceiverDropped
  <2>2. (pipe \o buf) \o << >> = pipe \o buf /\ pipe \o << >> = pipe
    BY <1>0, ConcatProperties, ConcatEmptySeq
  <2>3. Written' = Written
    BY <2>1, <2>2 DEF Written
  <2> QED
    BY <2>1, <2>3 DEF Feed
<1>3. CASE WriteAll
  <2>1. /\ chan' = chan /\ pipe' = Append(pipe, Head(out)) /\ out # << >> /\ out' = Tail(out)
        /\ buf' = buf /\ pc' = pc
    BY <1>3 DEF WriteAll, Idle
  <2>2. Append(pipe, Head(out)) \o Tail(out) = pipe \o out
    BY <1>0, <2>1, HeadMoves
  <2>3. Written' = Written
    BY <2>1, <2>2 DEF Written
  <2> QED
    BY <2>1, <2>3 DEF Feed, ReceiverDropped
<1> QED
  BY <1>1, <1>2, <1>3

\* The threads have ended well: everything has been handed over.
LEMMA AllHandedOver ==
  ASSUME EachOnce, DutyInv, MainInv, pc = "join", \A w \in Threads : thread[w] = "ok"
  PROVE  \A t \in Tables : sent[t] = Total(t)
<1>1. Bfs \in Threads
  BY DEF Threads
<1>2. \A t \in Aggregate \cup Excluded : sent[t] = Total(t)
  BY <1>1 DEF DutyInv, MainInv
<1>3. ASSUME NEW w \in Threads, NEW t \in Mine(w) PROVE sent[t] = Total(t)
  <2>1. todo[w] = << >> /\ (sent[t] = Total(t) \/ \E i \in 1 .. Len(todo[w]) : todo[w][i] = t)
    BY <1>3 DEF DutyInv, OnDuty
  <2> QED
    BY <2>1
<1> QED
  BY <1>2, <1>3 DEF EachOnce

\* Writing the last message keeps them: Done is written only after every thread ended well.
LEMMA FlowFinish ==
  ASSUME EachOnce, TypeInv, DutyInv, MainInv, FlowInv, GotInv, DoneMeansAll, Finish
  PROVE  FlowInv' /\ GotInv' /\ DoneMeansAll'
<1>1. /\ out = << >> /\ out' = Append(buf, Control(LastMessage)) /\ buf' = << >>
      /\ pc \in {"join", "interrupted"} /\ pc' \in {"exit", "listener"}
      /\ UNCHANGED <<sent, chan, pipe, client, got>>
  BY DEF Finish, Idle, producers, reading
<1>2. ~ReceiverDropped /\ ReceiverDropped' /\ Read' = Read
  BY <1>1 DEF ReceiverDropped, Read
<1>3. /\ pipe \in Seq(Message) /\ buf \in Seq(Message) /\ chan \in Seq(Message)
      /\ Written \in Seq(Message) /\ Control(LastMessage) \in Message
  BY FeedType, ControlMessages DEF TypeInv, LastMessage
<1>4. Feed' = Append(Written, Control(LastMessage))
  <2>1. /\ pipe \o << >> = pipe /\ Append(buf, Control(LastMessage)) \in Seq(Message)
        /\ pipe \o Append(buf, Control(LastMessage)) = Append(pipe \o buf, Control(LastMessage))
    BY <1>3, ConcatEmptySeq, AppendProperties, AppendBehind
  <2>2. (pipe \o Append(buf, Control(LastMessage))) \o << >>
          = pipe \o Append(buf, Control(LastMessage))
    BY <1>3, <2>1, ConcatProperties, ConcatEmptySeq
  <2> QED
    BY <1>1, <1>2, <2>1, <2>2 DEF Feed, Written
<1>5. ASSUME client = "reading" PROVE Closed(Feed, Read, sent)'
  <2>1. Open(Written \o chan, Read, sent) /\ ~interrupt
    BY <1>2, <1>5 DEF FlowInv, Feed, MainInv, HangsUp
  <2>2. Read \in Counts /\ sent \in Counts
    BY FeedType
  <2>3. Closed(Append(Written, Control(LastMessage)), Read, sent)
    <3>1. CASE LastMessage = "Done"
      <4>1. pc = "join" /\ \A w \in Threads : thread[w] = "ok"
        BY <3>1 DEF LastMessage
      <4>2. chan = << >> /\ \A t \in Tables : sent[t] = Total(t)
        BY <4>1, AllHandedOver DEF MainInv
      <4>3. Open(Written, Read, sent)
        BY <1>3, <2>1, <4>2, ConcatEmptySeq
      <4>4. Closed(Append(Written, Control("Done")), Read, sent)
        BY <1>3, <2>2, <4>2, <4>3, CloseDone
      <4> QED
        BY <3>1, <4>4
    <3>2. CASE LastMessage = "Error"
      <4>1. Closed(Append(Written, Control("Error")), Read, sent)
        BY <1>3, <2>1, <2>2, CloseError
      <4> QED
        BY <3>2, <4>1
    <3> QED
      BY <2>1, <3>1, <3>2 DEF LastMessage
  <2> QED
    BY <1>1, <1>2, <1>4, <2>3 DEF Closed, Flow, Complete
<1> QED
  BY <1>1, <1>2, <1>5 DEF FlowInv, GotInv, DoneMeansAll

\* The messages of a table are a sequence.
LEMMA MessagesSeq ==
  ASSUME NEW t \in Tables
  PROVE  Messages(t) \in Seq(Message) /\ Len(Messages(t)) = Total(t)
<1>1. /\ Total(t) \in Nat /\ Messages(t) = [n \in 1 .. Total(t) |-> Messages(t)[n]]
      /\ \A n \in 1 .. Total(t) : Messages(t)[n] \in Message
  BY TotalType, MessageFields DEF Messages
<1> QED
  BY <1>1

\* What the client has of a table is all of it once nothing is outstanding.
LEMMA AllRead ==
  ASSUME TypeInv, GotInv, NEW t \in Tables, sent[t] = Total(t),
         \A n \in 1 .. Total(t) : ~(Read[t] < n)
  PROVE  got[t] = Messages(t)
<1>1. Read[t] = Len(got[t]) /\ got[t] \in Seq(Message) /\ Len(got[t]) \in Nat /\ Total(t) \in Nat
  BY TotalType DEF Read, TypeInv
<1>2. Total(t) \in 1 .. Total(t)
  BY TotalType
<1>3. Len(got[t]) = Total(t)
  BY <1>1, <1>2 DEF GotInv
<1>4. \A n \in 1 .. Len(got[t]) : got[t][n] = Messages(t)[n]
  BY DEF GotInv
<1> QED
  BY <1>1, <1>3, <1>4, MessagesSeq, SeqEqual

\* The client reading a message keeps them.
LEMMA FlowRead ==
  ASSUME TypeInv, FlowInv, GotInv, DoneMeansAll, ClientRead
  PROVE  FlowInv' /\ GotInv' /\ DoneMeansAll'
<1> DEFINE m == Head(pipe)
<1>1. /\ client = "reading" /\ pipe # << >> /\ pipe' = Tail(pipe) /\ m \in Message
      /\ UNCHANGED <<sent, chan, pc, buf, out>>
  BY DEF ClientRead, TypeInv, producers, writing
<1>2. /\ Feed # << >> /\ Feed[1] = m /\ Feed' = Tail(Feed)
      /\ ReceiverDropped' <=> ReceiverDropped
  <2>1. /\ pipe \o out # << >> /\ (pipe \o out)[1] = m /\ Tail(pipe \o out) = Tail(pipe) \o out
    BY <1>1, HeadLeaves DEF TypeInv
  <2>2. pipe \o out \in Seq(Message) /\ Written \in Seq(Message) /\ Head(pipe \o out) = m
    BY <2>1, FeedType
  <2>3. Written # << >> /\ Written[1] = m /\ Tail(Written) = (Tail(pipe) \o out) \o buf
    <3> DEFINE s == pipe \o out
    <3>1. s \in Seq(Message) /\ buf \in Seq(Message) /\ s # << >> /\ Head(s) = m
      BY <2>1, <2>2 DEF TypeInv
    <3> HIDE DEF s
    <3>2. /\ s \o buf # << >> /\ (s \o buf)[1] = Head(s) /\ Tail(s \o buf) = Tail(s) \o buf
      BY <3>1, HeadLeaves
    <3> QED
      BY <2>1, <3>1, <3>2 DEF Written, s
  <2>4. Written' = Tail(Written) /\ Head(Written) = m
    BY <1>1, <2>2, <2>3 DEF Written
  <2>5. /\ Written \o chan # << >> /\ (Written \o chan)[1] = m
        /\ Tail(Written \o chan) = Tail(Written) \o chan
    BY <2>2, <2>3, <2>4, HeadLeaves DEF TypeInv
  <2> QED
    BY <1>1, <2>3, <2>4, <2>5 DEF Feed, ReceiverDropped
<1>3. Feed \in Seq(Message) /\ Read \in Counts /\ sent \in Counts
  BY FeedType
<1>4. IF ReceiverDropped THEN Closed(Feed, Read, sent) ELSE Open(Feed, Read, sent)
  BY <1>1 DEF FlowInv
<1>5. Flow(Feed, Read, sent)
  BY <1>4 DEF Open, Closed
<1> HIDE DEF m
<1>6. ASSUME NEW t \in Tables, NEW n \in 1 .. Total(t), m = Messages(t)[n], m.kind \in Kinds,
             m.table = t
      PROVE  FlowInv' /\ GotInv' /\ DoneMeansAll'
  <2>1. got' = [got EXCEPT ![t] = Append(@, m)] /\ client' = client
    BY <1>6 DEF ClientRead, Kinds, m
  <2>2. n = Read[t] + 1 /\ n <= sent[t]
    <3>1. Feed[1] = Messages(t)[n]
      BY <1>2, <1>6
    <3> QED
      BY <1>2, <1>3, <1>5, <3>1, FlowNext
  <2>3. Read[t] = Len(got[t]) /\ got[t] \in Seq(Message) /\ got \in [Tables -> Seq(Message)]
    BY DEF Read, TypeInv
  <2>4. got'[t] = Append(got[t], m) /\ \A u \in Tables : u # t => got'[u] = got[u]
    BY <2>1, <2>3
  <2>5. /\ Len(got'[t]) = Len(got[t]) + 1 /\ got'[t][Len(got[t]) + 1] = m
        /\ \A i \in 1 .. Len(got[t]) : got'[t][i] = got[t][i]
    BY <1>1, <2>3, <2>4, AppendProperties
  <2>6. Read' = [Read EXCEPT ![t] = @ + 1]
    <3>1. \A u \in Tables : Len(got'[u]) = IF u = t THEN Read[t] + 1 ELSE Read[u]
      BY <2>3, <2>4, <2>5 DEF Read
    <3> QED
      BY <3>1 DEF Read
  <2>7. FlowInv'
    <3>1. CASE ReceiverDropped
      <4>1. Closed(Tail(Feed), [Read EXCEPT ![t] = @ + 1], sent)
        BY <1>2, <1>3, <1>4, <1>6, <3>1, ClosedHead
      <4>2. Closed(Feed, Read, sent)'
        BY <1>1, <1>2, <2>6, <4>1, ClosedPrime
      <4> QED
        BY <1>2, <3>1, <4>2 DEF FlowInv
    <3>2. CASE ~ReceiverDropped
      <4>1. Open(Tail(Feed), [Read EXCEPT ![t] = @ + 1], sent)
        BY <1>2, <1>3, <1>4, <1>6, <3>2, OpenHead
      <4>2. Open(Feed, Read, sent)'
        BY <1>1, <1>2, <2>6, <4>1, OpenPrime
      <4> QED
        BY <1>2, <3>2, <4>2 DEF FlowInv
    <3> QED
      BY <3>1, <3>2
  <2>8. GotInv'
    <3> SUFFICES ASSUME NEW u \in Tables
                 PROVE  /\ Len(got'[u]) <= sent[u]
                        /\ \A i \in 1 .. Len(got'[u]) : got'[u][i] = Messages(u)[i]
      BY <1>1 DEF GotInv
    <3>1. CASE u # t
      BY <2>4, <3>1 DEF GotInv
    <3>2. CASE u = t
      <4>1. Len(got'[t]) = n
        BY <2>2, <2>3, <2>5
      <4>2. ASSUME NEW i \in 1 .. Len(got'[t]) PROVE got'[t][i] = Messages(t)[i]
        <5>1. Len(got[t]) \in Nat
          BY <2>3
        <5>2. i \in 1 .. Len(got[t]) \/ i = Len(got[t]) + 1
          BY <2>5, <5>1
        <5>3. CASE i \in 1 .. Len(got[t])
          BY <2>5, <5>3 DEF GotInv
        <5>4. CASE i = Len(got[t]) + 1
          BY <1>6, <2>2, <2>3, <2>5, <5>4
        <5> QED
          BY <5>2, <5>3, <5>4
      <4> QED
        BY <2>2, <3>2, <4>1, <4>2
    <3> QED
      BY <3>1, <3>2
  <2> QED
    BY <1>1, <2>1, <2>7, <2>8 DEF DoneMeansAll
<1>7. ASSUME NEW k \in {"Done", "Partial", "Error"}, m = Control(k), m.kind = k
      PROVE  FlowInv' /\ GotInv' /\ DoneMeansAll'
  <2>1. got' = got /\ (k \in {"Done", "Partial"} => client' = "done")
                   /\ (k = "Error" => client' \in {"reading", "gone"})
    BY <1>7 DEF ClientRead, m
  <2>2. GotInv' /\ Read' = Read
    BY <1>1, <2>1 DEF GotInv, Read
  <2>3. CASE k = "Error"
    <3>1. FlowInv'
      <4>1. CASE ReceiverDropped
        <5>1. Closed(Tail(Feed), Read, sent)
          BY <1>2, <1>3, <1>4, <1>7, <2>3, <4>1, ClosedHead
        <5>2. Closed(Feed, Read, sent)'
          BY <1>1, <1>2, <2>2, <5>1 DEF Closed, Flow, Complete
        <5> QED
          BY <1>2, <4>1, <5>2 DEF FlowInv
      <4>2. CASE ~ReceiverDropped
        <5>1. Open(Tail(Feed), Read, sent)
          BY <1>2, <1>3, <1>4, <1>7, <2>3, <4>2, OpenHead
        <5>2. Open(Feed, Read, sent)'
          BY <1>1, <1>2, <2>2, <5>1, OpenPrime
        <5> QED
          BY <1>2, <4>2, <5>2 DEF FlowInv
      <4> QED
        BY <4>1, <4>2
    <3> QED
      BY <2>1, <2>2, <2>3, <3>1 DEF DoneMeansAll
  <2>4. CASE k # "Error"
    <3>1. ReceiverDropped /\ k = "Done"
      BY <1>2, <1>3, <1>4, <1>7, <2>4, OpenHead, ClosedHead
    <3>2. \A t \in Tables : sent[t] = Total(t) /\ \A n \in 1 .. Total(t) : ~(Read[t] < n)
      BY <1>2, <1>3, <1>4, <1>7, <3>1, ClosedHead
    <3>3. \A t \in Tables : got[t] = Messages(t)
      BY <3>2, AllRead
    <3> QED
      BY <2>1, <2>2, <3>1, <3>3 DEF DoneMeansAll, FlowInv
  <2> QED
    BY <2>3, <2>4
<1> QED
  BY <1>1, <1>6, <1>7, MessageCases

\* Every step keeps them.
LEMMA FlowsOn ==
  ASSUME EachOnce, IInv, [Next]_vars
  PROVE  FlowInv' /\ GotInv' /\ DoneMeansAll'
<1> USE DEF IInv
<1>1. ASSUME NEW w \in Threads, SendFull(w) PROVE FlowInv' /\ GotInv' /\ DoneMeansAll'
  BY <1>1, SendFullEffect, FlowSends
<1>2. ASSUME NEW t \in Tables, SendRows(t) \/ SendTableDone(t)
      PROVE  FlowInv' /\ GotInv' /\ DoneMeansAll'
  BY <1>2, SendRowsEffect, FlowSends
<1>3. ASSUME NEW w \in Threads, ReportError(w) PROVE FlowInv' /\ GotInv' /\ DoneMeansAll'
  BY <1>3, FlowReport
<1>4. ASSUME NEW t \in Tables, WriteExcluded(t) PROVE FlowInv' /\ GotInv' /\ DoneMeansAll'
  BY <1>4, FlowExcluded
<1>5. CASE Recv \/ Flush \/ WriteAll
  <2>1. UNCHANGED <<sent, client, got>>
    BY <1>5 DEF Recv, Flush, WriteAll, producers, reading
  <2> QED
    BY <1>5, <2>1, FeedMoves, FlowKept
<1>6. CASE Finish
  BY <1>6, FlowFinish
<1>7. CASE ClientRead
  BY <1>7, FlowRead
<1>8. CASE WriteFails
  BY <1>8 DEF WriteFails, FlowInv, GotInv, DoneMeansAll, producers, reading
<1>9. CASE ClientEof \/ ClientShutdown \/ ClientLeaves
  <2>1. /\ client' # "reading" /\ UNCHANGED <<sent, got>>
        /\ client' = "shutdown" => client = "done"
        /\ client' # "done"
    BY <1>9 DEF ClientEof, ClientShutdown, ClientLeaves, producers
  <2> QED
    BY <2>1 DEF FlowInv, GotInv, DoneMeansAll
<1>10. ASSUME UNCHANGED <<sent, chan, buf, out, pipe, client, got>>,
              ReceiverDropped' <=> ReceiverDropped
       PROVE  FlowInv' /\ GotInv' /\ DoneMeansAll'
  <2>1. Feed' = Feed
    BY <1>10 DEF Feed, Written
  <2> QED
    BY <1>10, <2>1, FlowKept
<1>11. ASSUME NEW w \in Threads, ThreadEnds(w) \/ ThreadFails(w) \/ SendFails(w)
       PROVE  FlowInv' /\ GotInv' /\ DoneMeansAll'
  <2>1. UNCHANGED <<sent, chan, pc, buf, out, pipe, client, got>>
    BY <1>11 DEF ThreadEnds, ThreadFails, SendFails, writing, reading
  <2> QED
    BY <1>10, <2>1 DEF ReceiverDropped
<1>12. CASE BfsToSpare \/ Listen \/ UNCHANGED vars
  <2>1. UNCHANGED <<sent, chan, pc, buf, out, pipe, client, got>>
    BY <1>12 DEF BfsToSpare, Listen, vars, producers, writing, reading
  <2> QED
    BY <1>10, <2>1 DEF ReceiverDropped
<1>13. CASE SpawnThreads \/ CheckInterrupt \/ RecvNothing \/ JoinListener
  <2>1. UNCHANGED <<sent, chan, buf, out, pipe, client, got>>
    BY <1>13 DEF SpawnThreads, CheckInterrupt, RecvNothing, JoinListener, producers, writing,
                 reading
  <2>2. ReceiverDropped' <=> ReceiverDropped
    BY <1>13 DEF SpawnThreads, CheckInterrupt, RecvNothing, JoinListener, ReceiverDropped
  <2> QED
    BY <1>10, <2>1, <2>2
<1> QED
  BY <1>1, <1>2, <1>3, <1>4, <1>5, <1>6, <1>7, <1>8, <1>9, <1>11, <1>12, <1>13
     DEF Next, Producer, Main, Client, Over

-----------------------------------------------------------------------------
(* The theorems *)

\* The invariant holds in every state: whatever the threads, the main thread,
\* the listener and the client do (traversal.rs, stream_all_tables), what lies
\* between a thread and the client is in order, and while the receiver lives
\* it is complete.
THEOREM Invariant ==
  ASSUME EachOnce
  PROVE  Spec => []IInv
<1>1. Init => IInv
  BY TypeInit, DutyInit, MainInit, FlowInit DEF IInv
<1>2. IInv /\ [Next]_vars => IInv'
  <2> SUFFICES ASSUME IInv, [Next]_vars PROVE IInv'
    OBVIOUS
  <2>1. TypeInv' /\ DutyInv' /\ MainInv'
    BY TypeNext, DutyNext, MainNext DEF IInv
  <2>2. FlowInv' /\ GotInv' /\ DoneMeansAll'
    BY FlowsOn
  <2> QED
    BY <2>1, <2>2 DEF IInv
<1> QED
  BY <1>1, <1>2, PTL DEF Spec

\* At any time the client has read a prefix of each table's messages.
TableStreamsInOrder == \A t \in Tables : IsPrefix(got[t], Messages(t))

\* The client reads each table's messages in order and none twice, however the
\* buffer, the write-through of large chunks and the pipe are filled.
THEOREM TablesInOrder ==
  ASSUME EachOnce
  PROVE  Spec => []TableStreamsInOrder
<1>1. IInv => TableStreamsInOrder
  <2> SUFFICES ASSUME IInv, NEW t \in Tables PROVE IsPrefix(got[t], Messages(t))
    BY DEF TableStreamsInOrder
  <2>1. /\ got[t] \in Seq(Message) /\ Len(got[t]) \in Nat /\ Messages(t) \in Seq(Message)
        /\ Len(Messages(t)) = Total(t) /\ Total(t) \in Nat
    BY MessagesSeq, TotalType DEF IInv, TypeInv
  <2>2. /\ Len(got[t]) <= Len(Messages(t))
        /\ \A n \in 1 .. Len(got[t]) : got[t][n] = Messages(t)[n]
    BY <2>1 DEF IInv, GotInv, DutyInv, TypeInv
  <2>3. SubSeq(got[t], 1, Len(got[t])) = SubSeq(Messages(t), 1, Len(got[t]))
    BY <2>1, <2>2
  <2> QED
    BY <2>2, <2>3 DEF IsPrefix
<1> QED
  BY <1>1, Invariant, PTL

\* Done is never read too early: not after a thread that failed, not after an
\* interruption, not with messages left in the channel.
THEOREM DoneIsComplete ==
  ASSUME EachOnce
  PROVE  Spec => []DoneMeansAll
<1>1. IInv => DoneMeansAll
  BY DEF IInv
<1> QED
  BY <1>1, Invariant, PTL

-----------------------------------------------------------------------------
(* The refinement of TableStream *)

\* Reading a table's message is a delivery of the next one.
LEMMA ReadDelivers ==
  ASSUME IInv, IInv', ClientRead, Head(pipe).kind \in Kinds
  PROVE  \E t \in Tables : Contract!Deliver(t)
<1> DEFINE m == Head(pipe)
<1>1. m \in Message /\ client = "reading"
  BY DEF IInv, TypeInv, ClientRead
<1>2. PICK t \in Tables : m.table = t
  BY <1>1, MessageCases DEF Kinds
<1>3. client' = client /\ got' = [got EXCEPT ![t] = Append(@, m)]
  BY <1>2 DEF ClientRead, Kinds
<1>4. /\ got[t] \in Seq(Message) /\ Len(got[t]) \in Nat /\ got \in [Tables -> Seq(Message)]
      /\ sent'[t] = sent[t] /\ sent[t] \in Nat /\ sent[t] <= Total(t)
      /\ Total(t) \in Nat
  BY TotalType DEF IInv, TypeInv, DutyInv, ClientRead, producers
<1> HIDE DEF m
<1>5. got'[t] = Append(got[t], m)
  BY <1>3, <1>4
<1>6. Len(got'[t]) = Len(got[t]) + 1 /\ got'[t][Len(got[t]) + 1] = m
  BY <1>1, <1>4, <1>5, AppendProperties
<1>7. Len(got'[t]) <= sent[t] /\ m = Messages(t)[Len(got[t]) + 1]
  <2>1. Len(got'[t]) <= sent'[t] /\ \A n \in 1 .. Len(got'[t]) : got'[t][n] = Messages(t)[n]
    BY DEF IInv, GotInv
  <2>2. Len(got[t]) + 1 \in 1 .. Len(got'[t])
    BY <1>4, <1>6
  <2> QED
    BY <1>4, <1>6, <2>1, <2>2
<1>8. Len(got[t]) < Len(Messages(t))
  BY <1>4, <1>6, <1>7, MessagesSeq
<1>9. got' = [got EXCEPT ![t] = Append(@, [u \in Tables |-> Messages(u)][t][Len(@) + 1])]
  BY <1>3, <1>7
<1>10. Contract!Deliver(t)
  BY <1>1, <1>3, <1>8, <1>9 DEF Contract!Deliver
<1> QED
  BY <1>10

\* A step of the server and its client is one of the contract or none.
LEMMA RefinementStep ==
  ASSUME IInv, IInv', [Next]_vars
  PROVE  [Contract!Next]_(Contract!vars)
<1>1. CASE ClientRead
  <2>1. Head(pipe) \in Message /\ client = "reading"
    BY <1>1 DEF IInv, TypeInv, ClientRead
  <2>2. CASE Head(pipe).kind \in Kinds
    BY <1>1, <2>2, ReadDelivers DEF Contract!Next
  <2>3. CASE Head(pipe).kind \in {"Done", "Partial"}
    <3>1. client' = "done" /\ got' = got
      BY <1>1, <2>3 DEF ClientRead
    <3>2. \A t \in Tables : got[t] = Messages(t)
      BY <3>1 DEF IInv, DoneMeansAll
    <3>3. got = [t \in Tables |-> Messages(t)]
      BY <3>2 DEF IInv, TypeInv
    <3>4. Contract!Complete
      BY <2>1, <3>1, <3>3 DEF Contract!Complete
    <3> QED
      BY <3>4 DEF Contract!Next
  <2>4. CASE Head(pipe).kind = "Error"
    <3>1. client' \in {"reading", "gone"} /\ got' = got
      BY <1>1, <2>4 DEF ClientRead
    <3> QED
      BY <2>1, <3>1 DEF Contract!Next, Contract!Leave, Contract!vars
  <2> QED
    BY <2>1, <2>2, <2>3, <2>4, MessageCases
<1>2. CASE ClientEof \/ ClientLeaves
  <2>1. client \in {"reading", "done"} /\ client' = "gone" /\ got' = got
    BY <1>2 DEF ClientEof, ClientLeaves
  <2> QED
    BY <2>1 DEF Contract!Next, Contract!Leave
<1>3. CASE ClientShutdown
  BY <1>3 DEF ClientShutdown, Contract!vars
<1>4. ASSUME UNCHANGED <<client, got>> PROVE [Contract!Next]_(Contract!vars)
  BY <1>4 DEF Contract!vars
<1>5. ASSUME NEW w \in Threads, Producer(w) \/ ThreadFails(w)
      PROVE  [Contract!Next]_(Contract!vars)
  BY <1>4, <1>5 DEF Producer, SendFull, ThreadEnds, ReportError, SendFails, BfsToSpare, SendRows,
                    SendTableDone, ThreadFails, reading
<1>6. CASE Main
  BY <1>4, <1>6 DEF Main, WriteExcluded, SpawnThreads, CheckInterrupt, Recv, RecvNothing, Flush,
                    Finish, JoinListener, WriteAll, WriteFails, reading
<1>7. CASE Listen \/ Over \/ UNCHANGED vars
  BY <1>4, <1>7 DEF Listen, Over, vars, reading
<1> QED
  BY <1>1, <1>2, <1>3, <1>5, <1>6, <1>7 DEF Next, Client

\* What threads, channel, buffer and pipe do is, to the client, a stream that
\* delivers each table in order and once and is complete when it says so.
THEOREM Refinement ==
  ASSUME EachOnce
  PROVE  Spec => RefinesTableStream
<1>1. Init => Contract!Init
  BY DEF Init, Contract!Init
<1>2. IInv /\ IInv' /\ [Next]_vars => [Contract!Next]_(Contract!vars)
  BY RefinementStep
<1> QED
  BY <1>1, <1>2, Invariant, PTL DEF Spec, RefinesTableStream, Contract!Spec

-----------------------------------------------------------------------------
(* Waiting *)

\* A client that has read Done has read all there was, and is answered no more;
\* while it reads and the server waits for it, Done is on its way.
EndInv ==
  /\ client \in {"done", "shutdown"} =>
       pc \in {"listener", "exit"} /\ pipe = << >> /\ out = << >>
  /\ pc = "listener" /\ client = "reading" =>
       \E i \in 1 .. Len(pipe \o out) : (pipe \o out)[i] = Control("Done")

\* Whoever waits, waits for something that comes: a thread with a full channel
\* for a receiver that takes from it or goes; the main thread with a full pipe for a
\* client that reads or is gone, when it joins for nobody, when it waits for the listener for
\* a client that has hung up, is about to, or has Done before it in the pipe.
NobodyWaitsInVain ==
  /\ ~AllEnded /\ ~Room => pc \notin {"excluded", "flush", "join"}
  /\ ~Idle /\ Len(pipe) >= PipeCap => client \in {"reading", "gone"}
  /\ pc = "join" => AllEnded
  /\ pc = "listener" /\ Idle => HangsUp \/ client = "done" \/ pipe # << >>

\* What the pipe begins with is what all that is on its way begins with.
LEMMA PipeHead ==
  ASSUME TypeInv, pipe # << >>
  PROVE  /\ Feed \in Seq(Message) /\ Feed # << >> /\ Feed[1] = Head(pipe)
         /\ Len(pipe) + Len(out) <= Len(Feed)
<1>1. /\ pipe \in Seq(Message) /\ out \in Seq(Message) /\ buf \in Seq(Message)
      /\ chan \in Seq(Message) /\ pipe \o out \in Seq(Message)
      /\ Len(pipe \o out) = Len(pipe) + Len(out) /\ Len(pipe) \in Nat \ {0} /\ Len(out) \in Nat
  BY FeedType DEF TypeInv
<1>2. pipe \o out # << >> /\ (pipe \o out)[1] = Head(pipe)
  BY <1>1, HeadLeaves
<1> DEFINE s == pipe \o out
<1>3. s \in Seq(Message) /\ s # << >> /\ Head(s) = Head(pipe) /\ Len(s) = Len(pipe) + Len(out)
  BY <1>1, <1>2
<1> HIDE DEF s
<1>4. /\ s \o buf \in Seq(Message) /\ s \o buf # << >> /\ Head(s \o buf) = Head(pipe)
      /\ (s \o buf)[1] = Head(pipe) /\ Len(s \o buf) >= Len(s)
  BY <1>1, <1>3, HeadLeaves
<1> DEFINE v == s \o buf
<1>5. v \in Seq(Message) /\ v # << >> /\ Head(v) = Head(pipe) /\ v[1] = Head(pipe) /\ Len(v) >= Len(s)
  BY <1>4
<1> HIDE DEF v
<1>6. /\ v \o chan \in Seq(Message) /\ v \o chan # << >> /\ (v \o chan)[1] = Head(pipe)
      /\ Len(v \o chan) >= Len(v) /\ Len(v) \in Nat /\ Len(v \o chan) \in Nat
  BY <1>1, <1>5, HeadLeaves
<1>7. Feed = v \/ Feed = v \o chan
  BY DEF Feed, Written, v, s
<1>8. \A k \in Nat : k >= Len(v) => Len(pipe) + Len(out) <= k
  BY <1>1, <1>3, <1>5, <1>6
<1>9. CASE Feed = v
  BY <1>5, <1>6, <1>8, <1>9
<1>10. CASE Feed = v \o chan
  BY <1>6, <1>8, <1>10
<1> QED
  BY <1>7, <1>9, <1>10

\* A Done that is read is the last thing there is, and the receiver is gone.
LEMMA DoneIsLast ==
  ASSUME IInv, client = "reading", pipe # << >>, Head(pipe).kind \in {"Done", "Partial"}
  PROVE  ReceiverDropped /\ Len(pipe) = 1 /\ out = << >>
<1>1. /\ Feed \in Seq(Message) /\ Feed # << >> /\ Feed[1] = Head(pipe)
      /\ Len(pipe) + Len(out) <= Len(Feed)
  BY PipeHead DEF IInv
<1>2. Head(pipe) \in Message /\ Len(pipe) \in Nat \ {0} /\ Len(out) \in Nat
  BY DEF IInv, TypeInv
<1>3. Head(pipe) \in {Control("Done"), Control("Partial")}
  BY <1>2, MessageCases DEF Kinds
<1>4. 1 \in 1 .. Len(Feed)
  BY <1>1, TailIndex
<1>5. ReceiverDropped /\ Closed(Feed, Read, sent)
  BY <1>1, <1>3, <1>4 DEF IInv, FlowInv, Open
<1>6. 1 = Len(Feed)
  BY <1>1, <1>3, <1>4, <1>5 DEF Closed
<1>7. Len(pipe) = 1 /\ Len(out) = 0
  <2>1. Len(pipe) + Len(out) <= 1
    BY <1>1, <1>6
  <2>2. \A a \in Nat \ {0}, b \in Nat : a + b <= 1 => a = 1 /\ b = 0
    OBVIOUS
  <2> QED
    BY <1>2, <2>1, <2>2
<1> QED
  BY <1>5, <1>7 DEF IInv, TypeInv

\* Done is in s, or the rest of s.
LEMMA DoneStays ==
  ASSUME NEW s \in Seq(Message), s # << >>, s[1] # Control("Done"),
         \E i \in 1 .. Len(s) : s[i] = Control("Done")
  PROVE  \E i \in 1 .. Len(Tail(s)) : Tail(s)[i] = Control("Done")
<1>1. PICK i \in 1 .. Len(s) : s[i] = Control("Done")
  OBVIOUS
<1>2. i - 1 \in 1 .. Len(Tail(s)) /\ (i - 1) + 1 = i
  BY <1>1, TailIndex
<1>3. Tail(s)[i - 1] = s[i]
  BY <1>2, TailIndex
<1> QED
  BY <1>1, <1>2, <1>3

\* At the start nobody waits.
LEMMA EndInit == Init => EndInv
BY DEF Init, EndInv

\* A step keeps what is said of the end of the stream.
LEMMA EndNext ==
  ASSUME IInv, EndInv, [Next]_vars
  PROVE  EndInv'
<1>0. pipe \in Seq(Message) /\ out \in Seq(Message) /\ buf \in Seq(Message)
  BY DEF IInv, TypeInv
<1>1. CASE ClientRead
  <2>1. /\ client = "reading" /\ pipe # << >> /\ pipe' = Tail(pipe) /\ out' = out /\ pc' = pc
        /\ client' \in {"done", "reading", "gone"}
    BY <1>1 DEF ClientRead, writing
  <2>2. ASSUME client' = "done"
        PROVE  pc' \in {"listener", "exit"} /\ pipe' = << >> /\ out' = << >>
    <3>1. Head(pipe).kind \in {"Done", "Partial"}
      BY <1>1, <2>2 DEF ClientRead
    <3>2. ReceiverDropped /\ Len(pipe) = 1 /\ out = << >>
      BY <2>1, <3>1, DoneIsLast
    <3>3. Tail(pipe) = << >>
      <4>1. Tail(pipe) \in Seq(Message) /\ Len(Tail(pipe)) = 0
        BY <1>0, <2>1, <3>2, TailIndex
      <4> QED
        BY <4>1, EmptySeq
    <3> QED
      BY <2>1, <3>2, <3>3 DEF ReceiverDropped, IInv, TypeInv
  <2>3. ASSUME pc = "listener", client' = "reading"
        PROVE  \E i \in 1 .. Len(pipe' \o out') : (pipe' \o out')[i] = Control("Done")
    <3>1. Head(pipe) # Control("Done")
      BY <1>1, <2>3, ControlMessages DEF ClientRead
    <3>2. /\ pipe \o out # << >> /\ (pipe \o out)[1] = Head(pipe)
          /\ Tail(pipe \o out) = Tail(pipe) \o out /\ pipe \o out \in Seq(Message)
      BY <1>0, <2>1, HeadLeaves, ConcatProperties
    <3>3. \E i \in 1 .. Len(pipe \o out) : (pipe \o out)[i] = Control("Done")
      BY <2>1, <2>3 DEF EndInv
    <3>4. \E i \in 1 .. Len(Tail(pipe \o out)) : Tail(pipe \o out)[i] = Control("Done")
      <4> DEFINE s == pipe \o out
      <4>1. s \in Seq(Message) /\ s # << >> /\ s[1] # Control("Done")
            /\ \E i \in 1 .. Len(s) : s[i] = Control("Done")
        BY <3>1, <3>2, <3>3
      <4> HIDE DEF s
      <4>2. \E i \in 1 .. Len(Tail(s)) : Tail(s)[i] = Control("Done")
        BY <4>1, DoneStays
      <4> QED
        BY <4>2 DEF s
    <3> QED
      BY <2>1, <3>2, <3>4
  <2> QED
    BY <2>1, <2>2, <2>3 DEF EndInv
<1>2. CASE Finish
  <2>1. /\ pc \in {"join", "interrupted"} /\ out' = Append(buf, Control(LastMessage))
        /\ pc' = IF LastMessage = "Error" THEN "exit" ELSE "listener"
        /\ pipe' = pipe /\ client' = client
    BY <1>2 DEF Finish, reading
  <2>2. client' \notin {"done", "shutdown"}
    BY <2>1 DEF EndInv
  <2>3. ASSUME pc' = "listener", client' = "reading"
        PROVE  \E i \in 1 .. Len(pipe' \o out') : (pipe' \o out')[i] = Control("Done")
    <3>1. LastMessage = "Done"
      BY <2>1, <2>3 DEF LastMessage, IInv, MainInv, HangsUp
    <3>2. out' = Append(buf, Control("Done")) /\ Control("Done") \in Message
      BY <2>1, <3>1, ControlMessages
    <3> DEFINE x == Control("Done")
    <3>3. out' = Append(buf, x) /\ x \in Message
      BY <3>2
    <3> HIDE DEF x
    <3>4. pipe' \o out' = Append(pipe \o buf, x) /\ pipe \o buf \in Seq(Message)
      BY <1>0, <2>1, <3>3, AppendBehind, ConcatProperties
    <3>5. /\ Len(pipe \o buf) + 1 \in 1 .. Len(Append(pipe \o buf, x))
          /\ Append(pipe \o buf, x)[Len(pipe \o buf) + 1] = x
      BY <3>3, <3>4, AppendProperties
    <3> QED
      BY <3>4, <3>5 DEF x
  <2> QED
    BY <2>2, <2>3 DEF EndInv
<1>3. CASE WriteAll
  <2>1. /\ out # << >> /\ pipe' = Append(pipe, Head(out)) /\ out' = Tail(out)
        /\ UNCHANGED <<pc, client>>
    BY <1>3 DEF WriteAll, Idle, reading
  <2>2. pipe' \o out' = pipe \o out
    BY <1>0, <2>1, HeadMoves
  <2> QED
    BY <2>1, <2>2 DEF EndInv
<1>4. CASE WriteFails
  BY <1>4 DEF WriteFails, EndInv, reading
<1>5. ASSUME pc \notin {"listener", "exit"}, pc' \notin {"listener", "exit"}, client' = client
      PROVE  EndInv'
  BY <1>5 DEF EndInv
<1>6. CASE Recv \/ Flush \/ SpawnThreads \/ CheckInterrupt \/ RecvNothing \/ \E t \in Tables : WriteExcluded(t)
  BY <1>5, <1>6 DEF Recv, Flush, SpawnThreads, CheckInterrupt, RecvNothing, WriteExcluded, reading
<1>7. ASSUME UNCHANGED <<pipe, out>>, pc' = pc \/ (pc = "listener" /\ pc' = "exit"),
             client' = client \/ client' = "gone" \/ (client = "done" /\ client' = "shutdown")
      PROVE  EndInv'
  BY <1>7 DEF EndInv
<1>8. CASE ClientEof \/ ClientShutdown \/ ClientLeaves \/ JoinListener \/ Listen \/ UNCHANGED vars
  BY <1>7, <1>8 DEF ClientEof, ClientShutdown, ClientLeaves, JoinListener, Listen, vars, writing,
                    reading
<1>9. ASSUME NEW w \in Threads, Producer(w) \/ ThreadFails(w) PROVE EndInv'
  BY <1>7, <1>9 DEF Producer, SendFull, ThreadEnds, ReportError, SendFails, BfsToSpare, SendRows,
                    SendTableDone, ThreadFails, writing, reading
<1> QED
  BY <1>1, <1>2, <1>3, <1>4, <1>6, <1>8, <1>9 DEF Next, Main, Client, Over

\* Whatever the capacities of channel, buffer and pipe, the threads, the main
\* thread, the listener and the client never wait for one another in a circle.
THEOREM NoCircularWait ==
  ASSUME EachOnce
  PROVE  Spec => []NobodyWaitsInVain
<1>1. Init => IInv /\ EndInv
  BY TypeInit, DutyInit, MainInit, FlowInit, EndInit DEF IInv
<1>2. IInv /\ EndInv /\ [Next]_vars => EndInv'
  BY EndNext
<1>3. IInv /\ EndInv => NobodyWaitsInVain
  <2> SUFFICES ASSUME IInv, EndInv PROVE NobodyWaitsInVain
    OBVIOUS
  <2>1. pc = "excluded" => Room
    BY StreamingAssumption DEF IInv, MainInv, Room
  <2>2. pc \in {"flush", "join"} => AllEnded
    BY DEF IInv, MainInv
  <2>3. ~Idle => client \in {"reading", "gone"}
    BY DEF Idle, EndInv, IInv, TypeInv
  <2>4. ASSUME pc = "listener", Idle, client = "reading" PROVE pipe # << >>
    <3>1. \E i \in 1 .. Len(pipe \o out) : (pipe \o out)[i] = Control("Done")
      BY <2>4 DEF EndInv
    <3>2. out = << >> /\ (pipe = << >> => pipe \o out = << >>)
      BY <2>4, ConcatEmptySeq DEF Idle
    <3>3. 1 .. Len(<< >>) = {}
      OBVIOUS
    <3> QED
      BY <3>1, <3>2, <3>3
  <2> QED
    BY <2>1, <2>2, <2>3, <2>4 DEF NobodyWaitsInVain, HangsUp, IInv, TypeInv
<1> QED
  BY <1>1, <1>2, <1>3, Invariant, PTL DEF Spec

-----------------------------------------------------------------------------
(* Progress *)

\* The main thread's way through stream_all_tables and main.
Stage(p) ==
  CASE p = "excluded" -> 5
    [] p \in {"check", "recv"} -> 4
    [] p \in {"flush", "cut"} -> 3
    [] p \in {"join", "interrupted"} -> 2
    [] p = "listener" -> 1
    [] p = "exit" -> 0

ThreadRank(s) ==
  CASE s = "run" -> 3 [] s = "spare" -> 2 [] s = "report" -> 1 [] s \in {"ok", "err"} -> 0

ClientRank(c) ==
  CASE c = "reading" -> 3 [] c = "done" -> 2 [] c = "shutdown" -> 1 [] c = "gone" -> 0

\* One more message of one table has been handed over.
SendsMore == \E t \in Tables : sent[t] < Total(t) /\ sent' = [sent EXCEPT ![t] = @ + 1]

ThreadMovesOn ==
  \E w \in Threads : /\ ThreadRank(thread'[w]) < ThreadRank(thread[w])
                     /\ \A v \in Threads \ {w} : thread'[v] = thread[v]

\* Messages move on towards the client, or the two ends take leave.
Drains ==
  \/ Len(chan') < Len(chan)
  \/ /\ chan' = chan
     /\ \/ Len(out') < Len(out)
        \/ /\ out' = out
           /\ \/ Len(pipe') < Len(pipe)
              \/ /\ pipe' = pipe
                 /\ \/ ClientRank(client') < ClientRank(client)
                    \/ client' = client /\ ~interrupt /\ interrupt'

Descends ==
  \/ Stage(pc') < Stage(pc)
  \/ /\ Stage(pc') = Stage(pc)
     /\ \/ SendsMore
        \/ /\ sent' = sent
           /\ ThreadMovesOn \/ (thread' = thread /\ Drains)

\* recv_timeout has passed in vain: the flag is looked at, and nothing else happens.
Polls ==
  /\ \/ pc = "check" /\ pc' = "recv" /\ ~interrupt
     \/ pc = "recv" /\ pc' = "check" /\ chan = << >> /\ ~AllEnded
  /\ UNCHANGED <<producers, faults, chan, writing, interrupt, pipe, reading>>

EveryStepCounts == [][Descends \/ Polls]_vars

\* The stages of the main thread, in order.
LEMMA Stages ==
  /\ Stage("excluded") = 5 /\ Stage("check") = 4 /\ Stage("recv") = 4 /\ Stage("flush") = 3
  /\ Stage("cut") = 3 /\ Stage("join") = 2 /\ Stage("interrupted") = 2
  /\ Stage("listener") = 1 /\ Stage("exit") = 0
BY DEF Stage

\* The ranks of the threads and the client.
LEMMA Ranks ==
  /\ ThreadRank("run") = 3 /\ ThreadRank("spare") = 2 /\ ThreadRank("report") = 1
  /\ ThreadRank("ok") = 0 /\ ThreadRank("err") = 0
  /\ ClientRank("reading") = 3 /\ ClientRank("done") = 2 /\ ClientRank("shutdown") = 1
  /\ ClientRank("gone") = 0
BY DEF ThreadRank, ClientRank

\* A thread that goes on, ends or gives up does so for good.
LEMMA ThreadDescends ==
  ASSUME IInv, NEW w \in Threads,
         ThreadEnds(w) \/ ThreadFails(w) \/ ReportError(w) \/ SendFails(w) \/ (w = Bfs /\ BfsToSpare)
  PROVE  Descends
<1>1. UNCHANGED <<pc, sent>>
  BY DEF ThreadEnds, ThreadFails, ReportError, SendFails, BfsToSpare
<1>2. \E to \in {"spare", "report", "ok", "err"} :
        thread' = [thread EXCEPT ![w] = to] /\ ThreadRank(to) < ThreadRank(thread[w])
  BY Ranks DEF ThreadEnds, ThreadFails, ReportError, SendFails, BfsToSpare
<1>3. ThreadMovesOn
  BY <1>2 DEF ThreadMovesOn, IInv, TypeInv
<1> QED
  BY <1>1, <1>3 DEF Descends

\* A message that is handed over is one less to be sent.
LEMMA SendDescends ==
  ASSUME IInv, NEW t \in Tables, Sends(t) \/ WriteExcluded(t)
  PROVE  Descends
<1>1. pc' = pc /\ sent[t] < Total(t) /\ sent' = [sent EXCEPT ![t] = @ + 1]
  BY DEF Sends, WriteExcluded, Unsent
<1> QED
  BY <1>1 DEF SendsMore, Descends

\* A step of the main thread brings it on, moves a message, or is a poll.
LEMMA MainDescends ==
  ASSUME IInv, Main
  PROVE  Descends \/ Polls
<1>0. chan \in Seq(Message) /\ out \in Seq(Message)
  BY DEF IInv, TypeInv
<1>1. ASSUME NEW t \in Tables, WriteExcluded(t) PROVE Descends
  BY <1>1, SendDescends
<1>2. CASE SpawnThreads \/ Flush \/ Finish \/ JoinListener
  <2>1. Stage(pc') < Stage(pc)
    BY <1>2, Stages DEF SpawnThreads, Flush, Finish, JoinListener
  <2> QED
    BY <2>1 DEF Descends
<1>3. CASE CheckInterrupt
  <2>1. CASE interrupt
    <3>1. Stage(pc') < Stage(pc)
      BY <1>3, <2>1, Stages DEF CheckInterrupt
    <3> QED
      BY <3>1 DEF Descends
  <2>2. CASE ~interrupt
    BY <1>3, <2>2 DEF CheckInterrupt, Polls
  <2> QED
    BY <2>1, <2>2
<1>4. CASE RecvNothing
  <2>1. CASE AllEnded
    <3>1. Stage(pc') < Stage(pc)
      BY <1>4, <2>1, Stages DEF RecvNothing, Disconnected
    <3> QED
      BY <3>1 DEF Descends
  <2>2. CASE ~AllEnded
    BY <1>4, <2>2 DEF RecvNothing, Disconnected, Polls
  <2> QED
    BY <2>1, <2>2
<1>5. CASE Recv
  <2>1. /\ pc = "recv" /\ pc' = "check" /\ UNCHANGED <<sent, thread>>
        /\ chan # << >> /\ chan' = Tail(chan)
    BY <1>5 DEF Recv, producers
  <2>2. Len(chan') < Len(chan)
    BY <1>0, <2>1
  <2> QED
    BY <2>1, <2>2, Stages DEF Descends, Drains
<1>6. CASE WriteAll
  <2>1. UNCHANGED <<pc, sent, thread, chan>> /\ out # << >> /\ out' = Tail(out)
    BY <1>6 DEF WriteAll, Idle, producers
  <2>2. Len(out') < Len(out)
    BY <1>0, <2>1
  <2> QED
    BY <2>1, <2>2 DEF Descends, Drains
<1>7. CASE WriteFails
  <2>1. UNCHANGED <<sent, thread, chan>> /\ pc' = "exit" /\ out # << >> /\ out' = << >>
    BY <1>7 DEF WriteFails, Idle, producers
  <2>2. Len(out') < Len(out)
    BY <1>0, <2>1
  <2>3. Stage(pc') < Stage(pc) \/ Stage(pc') = Stage(pc)
    BY <2>1, Stages DEF IInv, TypeInv
  <2> QED
    BY <2>1, <2>2, <2>3 DEF Descends, Drains
<1> QED
  BY <1>1, <1>2, <1>3, <1>4, <1>5, <1>6, <1>7 DEF Main

\* The client empties the pipe or takes leave, and the listener notes it once.
LEMMA ClientDescends ==
  ASSUME IInv, Client \/ ClientLeaves \/ Listen
  PROVE  Descends
<1>1. UNCHANGED <<pc, sent, thread, chan, out>>
  BY DEF Client, ClientRead, ClientEof, ClientShutdown, ClientLeaves, Listen, producers, writing
<1>2. CASE ClientRead
  <2>1. pipe \in Seq(Message) /\ pipe # << >> /\ pipe' = Tail(pipe)
    BY <1>2 DEF ClientRead, IInv, TypeInv
  <2>2. Len(pipe') < Len(pipe)
    BY <2>1
  <2> QED
    BY <1>1, <2>2 DEF Descends, Drains
<1>3. CASE ClientEof \/ ClientShutdown \/ ClientLeaves
  <2>1. pipe' = pipe /\ ClientRank(client') < ClientRank(client)
    BY <1>3, Ranks DEF ClientEof, ClientShutdown, ClientLeaves
  <2> QED
    BY <1>1, <2>1 DEF Descends, Drains
<1>4. CASE Listen
  <2>1. UNCHANGED <<pipe, client>> /\ ~interrupt /\ interrupt'
    BY <1>4 DEF Listen, reading
  <2> QED
    BY <1>1, <2>1 DEF Descends, Drains
<1> QED
  BY <1>2, <1>3, <1>4 DEF Client

\* Nothing is sent beyond its end, and every step brings the stream nearer to its end, but
\* for the polls of a main thread whose threads are still at work: no run of the server
\* and its client is busy for ever otherwise.
THEOREM StepsCount ==
  ASSUME EachOnce
  PROVE  Spec => [](\A t \in Tables : sent[t] <= Total(t)) /\ EveryStepCounts
<1>1. IInv => \A t \in Tables : sent[t] <= Total(t)
  BY DEF IInv, DutyInv
<1>2. IInv /\ [Next]_vars => [Descends \/ Polls]_vars
  <2> SUFFICES ASSUME IInv, Next, ~UNCHANGED vars PROVE Descends \/ Polls
    OBVIOUS
  <2>1. ASSUME NEW w \in Threads, Producer(w) \/ ThreadFails(w) PROVE Descends
    <3>1. CASE SendFull(w)
      <4>1. Sends(Head(todo[w])) /\ Head(todo[w]) \in Tables
        BY <2>1, <3>1, SendFullEffect DEF IInv, Sends
      <4> QED
        BY <4>1, SendDescends
    <3>2. ASSUME NEW t \in Tables, SendRows(t) \/ SendTableDone(t) PROVE Descends
      <4>1. Sends(t)
        BY <3>2, SendRowsEffect DEF IInv
      <4> QED
        BY <4>1, SendDescends
    <3>3. CASE ThreadEnds(w) \/ ThreadFails(w) \/ ReportError(w) \/ SendFails(w) \/ (w = Bfs /\ BfsToSpare)
      BY <2>1, <3>3, ThreadDescends
    <3> QED
      BY <2>1, <3>1, <3>2, <3>3 DEF Producer
  <2>2. CASE Main
    BY <2>2, MainDescends
  <2>3. CASE Client \/ ClientLeaves \/ Listen
    BY <2>3, ClientDescends
  <2> QED
    BY <2>1, <2>2, <2>3 DEF Next, Over
<1> QED
  BY <1>1, <1>2, Invariant, PTL DEF Spec, EveryStepCounts
=============================================================================
