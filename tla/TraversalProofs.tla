-------------------------- MODULE TraversalProofs --------------------------
(***************************************************************************)
(* The safety theorems of Traversal, for any tables, relations, plans and  *)
(* data.                                                                   *)
(***************************************************************************)
EXTENDS Traversal, FiniteSetTheorems, WellFoundedInduction, TLAPS

USE TraversalAssumption

Aggs    == 1 .. Len(plan.aggregates)
Entry   == [table : Tables, column : Columns, back : BOOLEAN, value : Values]
Marks   == [Tables -> {"no", "fwd", "both"}]
Planning == {"plan", "walk"}

-----------------------------------------------------------------------------
(* Types *)

ConfigInv ==
  /\ plan \in Plans /\ val \in Data
  /\ matched \in [Aggs -> SUBSET Rows]
  /\ \A i \in Aggs : matched[i] \subseteq RowsOf(plan.aggregates[i].root)

WalkType ==
  /\ queue \subseteq Importable \X BOOLEAN
  /\ explored \in Marks
  /\ potential \subseteq Importable

BfsType ==
  /\ rootTodo \subseteq Rows
  /\ pending \subseteq Entry /\ current \subseteq Entry
  /\ touched \subseteq Importable
  /\ spare \subseteq Tables /\ tasks \subseteq Tables
  /\ sent \in [Rows -> Nat]

TypeInv ==
  /\ ConfigInv
  /\ pc \in Planning \cup {"next", "root", "level", "spare", "failed", "done", "error"}
  /\ a \in Nat /\ a >= 1 /\ a <= Len(plan.aggregates) + 1
  /\ pc \in {"walk", "root", "level"} => a \in Aggs
  /\ WalkType /\ BfsType

\* The parts of a plan.
LEMMA PlanType ==
  ASSUME ConfigInv
  PROVE  /\ plan.aggregates \in Seq(ResolvedAggregate) /\ Len(plan.aggregates) \in Nat
         /\ plan.full \subseteq Tables /\ plan.excluded \subseteq Tables
         /\ plan.ignored \subseteq Tables /\ plan.aggregatesOnly \in BOOLEAN
         /\ Importable \subseteq Tables
         /\ \A i \in Aggs : /\ plan.aggregates[i].root \in Tables
                            /\ plan.aggregates[i].rootOnly \in BOOLEAN
                            /\ plan.aggregates[i].exclude \subseteq Tables
<1>1. plan \in ExecutionPlan
  BY DEF ConfigInv
<1>2. /\ plan.aggregates \in Seq(ResolvedAggregate)
      /\ plan.full \subseteq Tables /\ plan.excluded \subseteq Tables
      /\ plan.ignored \subseteq Tables /\ plan.aggregatesOnly \in BOOLEAN
  BY <1>1 DEF ExecutionPlan
<1>3. \A i \in Aggs : plan.aggregates[i] \in ResolvedAggregate
  BY <1>2 DEF Aggs
<1> QED
  BY <1>2, <1>3 DEF ResolvedAggregate, Importable

\* Declared and discovered relations are relations.
LEMMA RelationsType ==
  ASSUME ConfigInv
  PROVE  Relations \subseteq Relation
<1>1. plan \in ExecutionPlan
  BY DEF ConfigInv
<1>2. plan.relations \subseteq Relation
  BY <1>1 DEF ExecutionPlan
<1>3. Discovered \subseteq Relation
  BY DEF Discovered
<1> QED
  BY <1>2, <1>3 DEF Relations

\* A row has a value or NULL in each column.
LEMMA ValType ==
  ASSUME ConfigInv, NEW r \in Rows, NEW c \in Columns
  PROVE  val[r][c] \in Values \cup {Null}
<1>1. val \in Contents
  BY DEF ConfigInv
<1> QED
  BY <1>1 DEF Contents

\* What a row's look-ups ask for: the value it refers to, or is referred to by.
LEMMA ForwardEntry ==
  ASSUME ConfigInv, NEW r \in Rows, NEW e \in ForwardValues(r)
  PROVE  /\ e \in Entry
         /\ \E rel \in Forward(TableOf[r]) :
              e.table = rel.to /\ e.column = rel.toCol /\ e.back = FALSE
                /\ e.value = val[r][rel.fromCol] /\ val[r][rel.fromCol] # Null
<1>1. PICK rel \in Forward(TableOf[r]) :
             /\ val[r][rel.fromCol] # Null
             /\ e = [table |-> rel.to, column |-> rel.toCol, back |-> FALSE,
                     value |-> val[r][rel.fromCol]]
  BY DEF ForwardValues
<1>2. rel \in Relation
  BY RelationsType DEF Forward
<1>3. rel.fromCol \in Columns
  BY <1>2 DEF Relation
<1>4. val[r][rel.fromCol] \in Values
  BY <1>1, <1>3, ValType
<1> QED
  BY <1>1, <1>2, <1>4 DEF Entry, Relation

\* A lookup made for a row follows one of the relations that point at its table.
LEMMA BackwardEntry ==
  ASSUME ConfigInv, NEW r \in Rows, NEW e \in BackwardValues(r)
  PROVE  /\ e \in Entry
         /\ \E rel \in Backward(TableOf[r]) :
              e.table = rel.from /\ e.column = rel.fromCol /\ e.back = TRUE
                /\ e.value = val[r][rel.toCol] /\ val[r][rel.toCol] # Null
<1>1. PICK rel \in Backward(TableOf[r]) :
             /\ val[r][rel.toCol] # Null
             /\ e = [table |-> rel.from, column |-> rel.fromCol, back |-> TRUE,
                     value |-> val[r][rel.toCol]]
  BY DEF BackwardValues
<1>2. rel \in Relation
  BY RelationsType DEF Backward
<1>3. rel.toCol \in Columns
  BY <1>2 DEF Relation
<1>4. val[r][rel.toCol] \in Values
  BY <1>1, <1>3, ValType
<1> QED
  BY <1>1, <1>2, <1>4 DEF Entry, Relation

\* Each entry that a step of the traversal adds comes from a row it received.
LEMMA ReceiveAdds ==
  ASSUME ConfigInv, NEW R \in SUBSET Rows, NEW protocol, NEW back, NEW rest,
         Receive(R, protocol, back, rest)
  PROVE  /\ rest \subseteq pending'
         /\ \A e \in pending' : \/ e \in rest
                                \/ \E r \in R : e \in ForwardValues(r)
                                \/ back /\ \E r \in R : e \in BackwardValues(r)
BY DEF Receive

\* Receiving rows queues lookups and counts rows.
LEMMA ReceiveType ==
  ASSUME ConfigInv, NEW R \in SUBSET Rows, NEW protocol, NEW back,
         NEW rest \in SUBSET Entry, sent \in [Rows -> Nat],
         Receive(R, protocol, back, rest)
  PROVE  pending' \subseteq Entry /\ sent' \in [Rows -> Nat]
<1>1. \A e \in pending' : \/ e \in rest
                          \/ \E r \in R : e \in ForwardValues(r)
                          \/ back /\ \E r \in R : e \in BackwardValues(r)
  BY ReceiveAdds
<1>2. pending' \subseteq Entry
  BY <1>1, ForwardEntry, BackwardEntry
<1>3. sent' \in [Rows -> Nat]
  BY DEF Receive
<1> QED
  BY <1>2, <1>3

\* Sending a whole table counts rows.
LEMMA SendTableType ==
  ASSUME NEW t, sent \in [Rows -> Nat], SendTable(t)
  PROVE  sent' \in [Rows -> Nat]
BY DEF SendTable

\* The initial state is typed.
LEMMA TypeInit == Init => TypeInv
<1> SUFFICES ASSUME Init PROVE TypeInv
  OBVIOUS
<1>1. ConfigInv
  BY DEF Init, ConfigInv, Aggs
<1>2. Len(plan.aggregates) \in Nat
  BY <1>1, PlanType
<1> QED
  BY <1>1, <1>2 DEF Init, TypeInv, WalkType, BfsType, Planning, Marks

-----------------------------------------------------------------------------
(* The static walk *)

\* The tables that following aggregate i's relations from table t leads to are
\* marked in ex.
Expanded(ex, i, t, back) ==
  \A rel \in Relations :
    /\ rel.from = t /\ rel.to \in Reachable(i) => ex[rel.to] # "no"
    /\ back /\ rel.to = t /\ rel.from \in Reachable(i) => ex[rel.from] = "both"

\* What a table is marked for has been done, or is queued.
WalkInv(ex, i, Q) ==
  /\ ex[plan.aggregates[i].root] = "both"
  /\ \A t \in Tables :
       /\ ex[t] # "no" => \/ \E back \in BOOLEAN : <<t, back>> \in Q
                          \/ t \in potential /\ Expanded(ex, i, t, FALSE)
       /\ ex[t] = "both" => \/ <<t, TRUE>> \in Q
                            \/ t \in potential /\ Expanded(ex, i, t, TRUE)

\* One step of the walk: marks only grow, a changed mark is queued, and the
\* table that was popped is expanded.
LEMMA StaticPopEffect ==
  ASSUME TypeInv, NEW t \in Tables, NEW back \in BOOLEAN, StaticPop(t, back)
  PROVE  /\ explored' \in Marks /\ queue' \subseteq Importable \X BOOLEAN
         /\ queue \ {<<t, back>>} \subseteq queue'
         /\ \A u \in Tables :
              /\ explored[u] = "both" => explored'[u] = "both"
              /\ explored[u] # "no" => explored'[u] # "no"
              /\ explored[u] # "both" /\ explored'[u] = "both" => <<u, TRUE>> \in queue'
              /\ explored[u] = "no" /\ explored'[u] # "no" =>
                   \E b \in BOOLEAN : <<u, b>> \in queue'
         /\ Expanded(explored', a, t, back)
<1> DEFINE Walkable == Importable \ WalkExclude
           F == {u \in Walkable : /\ ShouldVisit(explored, u, FALSE)
                                  /\ \E rel \in Relations : rel.from = t /\ rel.to = u}
           ex == [u \in Tables |-> IF u \in F THEN "fwd" ELSE explored[u]]
           B == {u \in Walkable : /\ back /\ ShouldVisit(ex, u, TRUE)
                                  /\ \E rel \in Relations : rel.to = t /\ rel.from = u}
<1>1. /\ queue' = (queue \ {<<t, back>>}) \cup (F \X {FALSE}) \cup (B \X {TRUE})
      /\ explored' = [u \in Tables |-> IF u \in B THEN "both" ELSE ex[u]]
      /\ plan' = plan
  BY DEF StaticPop, config
<1>2. explored \in Marks /\ queue \subseteq Importable \X BOOLEAN
  BY DEF TypeInv, WalkType
<1>3. Walkable = Reachable(a) /\ Walkable \subseteq Importable /\ Importable \subseteq Tables
  BY PlanType DEF TypeInv, WalkExclude, Reachable, Agg
<1>4. /\ F \subseteq Importable /\ B \subseteq Importable
      /\ \A u \in F : explored[u] = "no"
      /\ \A u \in B : ex[u] # "both"
  <2>1. F \subseteq Importable /\ B \subseteq Importable
    BY <1>3
  <2>2. \A u \in F : explored[u] = "no"
    BY DEF ShouldVisit
  <2>3. \A u \in B : ex[u] # "both"
    BY DEF ShouldVisit
  <2> QED
    BY <2>1, <2>2, <2>3
<1>5. ex \in Marks /\ explored' \in Marks
  <2> HIDE DEF F, B
  <2> QED
    BY <1>1, <1>2, <1>3, <1>4 DEF Marks
<1>6. \A u \in Tables :
        /\ explored[u] = "both" => explored'[u] = "both"
        /\ explored[u] # "no" => explored'[u] # "no"
        /\ explored[u] # "both" /\ explored'[u] = "both" => u \in B
        /\ explored[u] = "no" /\ explored'[u] # "no" => u \in F \cup B
        /\ u \in F => explored'[u] # "no"
        /\ u \in B => explored'[u] = "both"
  <2> HIDE DEF F, B
  <2> QED
    BY <1>1, <1>2, <1>3, <1>4 DEF Marks
<1>7. /\ queue' \subseteq Importable \X BOOLEAN /\ queue \ {<<t, back>>} \subseteq queue'
      /\ \A u \in F : <<u, FALSE>> \in queue'
      /\ \A u \in B : <<u, TRUE>> \in queue'
  <2> HIDE DEF F, B
  <2> QED
    BY <1>1, <1>2, <1>4
<1>8. Expanded(explored', a, t, back)
  <2> SUFFICES ASSUME NEW rel \in Relations
               PROVE  /\ rel.from = t /\ rel.to \in Reachable(a) => explored'[rel.to] # "no"
                      /\ back /\ rel.to = t /\ rel.from \in Reachable(a) =>
                           explored'[rel.from] = "both"
    BY DEF Expanded
  <2>1. ASSUME rel.from = t, rel.to \in Reachable(a) PROVE explored'[rel.to] # "no"
    <3>1. explored[rel.to] # "no" \/ rel.to \in F
      BY <1>3, <2>1 DEF ShouldVisit
    <3> HIDE DEF F, B
    <3> QED
      BY <1>3, <1>6, <2>1, <3>1
  <2>2. ASSUME back, rel.to = t, rel.from \in Reachable(a) PROVE explored'[rel.from] = "both"
    <3>1. ex[rel.from] = "both" \/ rel.from \in B
      <4>1. rel.from \in Tables
        BY <1>3, <2>2
      <4>2. ex[rel.from] \in {"no", "fwd", "both"}
        BY <1>5, <4>1 DEF Marks
      <4>3. ex[rel.from] # "both" => ShouldVisit(ex, rel.from, TRUE)
        BY <4>2, <2>2 DEF ShouldVisit
      <4> HIDE DEF ex
      <4> QED
        BY <1>3, <2>2, <4>3
    <3>2. ex[rel.from] = "both" => explored'[rel.from] = "both"
      <4> HIDE DEF F, B
      <4> QED
        BY <1>1, <1>3, <2>2
    <3> QED
      BY <1>3, <1>6, <2>2, <3>1, <3>2
  <2> QED
    BY <2>1, <2>2
<1> HIDE DEF F, B
<1> QED
  BY <1>5, <1>6, <1>7, <1>8

\* Every step keeps the types.
LEMMA TypeNext == TypeInv /\ [Next]_vars => TypeInv'
<1> SUFFICES ASSUME TypeInv, [Next]_vars PROVE TypeInv'
  OBVIOUS
<1> USE DEF TypeInv, Planning
<1>p. /\ plan.aggregates \in Seq(ResolvedAggregate) /\ Len(plan.aggregates) \in Nat
      /\ Importable \subseteq Tables
      /\ \A i \in Aggs : plan.aggregates[i].root \in Tables
  BY PlanType
<1>c. UNCHANGED config => ConfigInv' /\ Importable' = Importable /\ Aggs' = Aggs
  BY DEF config, ConfigInv, Importable, Aggs, RowsOf
<1>w. UNCHANGED config /\ UNCHANGED walk => WalkType'
  BY <1>c DEF walk, WalkType
<1>b. UNCHANGED config /\ UNCHANGED bfs /\ UNCHANGED <<spare, tasks, sent>> => BfsType'
  BY <1>c DEF bfs, BfsType
<1>1. CASE StaticBegin
  <2>1. /\ a \in Aggs /\ Agg.root \in Tables /\ a + 1 <= Len(plan.aggregates) + 1
        /\ UNCHANGED config /\ pc = "plan" /\ BfsType'
    BY <1>1, <1>p, <1>b DEF StaticBegin, LastAgg, Aggs, Agg
  <2>2. CASE Agg.rootOnly \/ Agg.root \notin Importable
    <3>1. /\ potential' \subseteq potential \cup Importable
          /\ UNCHANGED <<queue, explored, pc>> /\ a' = a + 1
      BY <1>1, <2>2 DEF StaticBegin
    <3>2. WalkType'
      BY <1>c, <2>1, <3>1 DEF WalkType
    <3> QED
      BY <1>c, <2>1, <3>1, <3>2 DEF config
  <2>3. CASE ~(Agg.rootOnly \/ Agg.root \notin Importable)
    <3>1. /\ queue' = {<<Agg.root, TRUE>>}
          /\ explored' = [t \in Tables |-> IF t = Agg.root THEN "both" ELSE "no"]
          /\ UNCHANGED <<potential, a>> /\ pc' = "walk"
      BY <1>1, <2>3 DEF StaticBegin
    <3>2. WalkType'
      <4>1. explored' \in Marks
        BY <3>1 DEF Marks
      <4>2. queue' \subseteq Importable \X BOOLEAN
        <5>1. Agg.root \in Importable
          BY <2>3
        <5>2. <<Agg.root, TRUE>> \in Importable \X BOOLEAN
          BY <5>1
        <5> QED
          BY <3>1, <5>2
      <4>3. potential' \subseteq Importable
        BY <3>1 DEF WalkType
      <4> QED
        BY <1>c, <2>1, <4>1, <4>2, <4>3 DEF WalkType, Marks
    <3> QED
      BY <1>c, <2>1, <3>1, <3>2 DEF config
  <2> QED
    BY <2>2, <2>3
<1>2. ASSUME NEW t \in Tables, NEW back \in BOOLEAN, StaticPop(t, back) PROVE TypeInv'
  <2>1. WalkType'
    <3>1. explored' \in Marks /\ queue' \subseteq Importable \X BOOLEAN
      BY <1>2, StaticPopEffect
    <3>2. t \in Importable
      BY <1>2 DEF StaticPop, WalkType
    <3> QED
      BY <1>2, <1>c, <3>1, <3>2 DEF StaticPop, WalkType
  <2> QED
    BY <1>2, <1>c, <1>b, <2>1 DEF StaticPop, config
<1>3. CASE StaticEnd
  BY <1>3, <1>c, <1>w, <1>b, <1>p DEF StaticEnd, config, Aggs
<1>4. CASE SpawnThreads
  <2>1. DefiniteFull \subseteq Tables
    BY <1>p DEF DefiniteFull
  <2>2. BfsType'
    BY <1>4, <1>c, <2>1 DEF SpawnThreads, BfsType, bfs
  <2> QED
    BY <1>4, <1>c, <1>w, <1>p, <2>2 DEF SpawnThreads, config
<1>5. CASE BeginAggregate
  <2>1. a \in Aggs
    BY <1>5, <1>p DEF BeginAggregate, LastAgg, Aggs
  <2>2. BfsType'
    BY <1>5, <1>c, <2>1 DEF BeginAggregate, BfsType, bfs, FreshExpansion, Agg, ConfigInv
  <2> QED
    BY <1>5, <1>c, <1>w, <2>1, <2>2 DEF BeginAggregate, config
<1>6. ASSUME NEW r \in Rows, RootRow(r) PROVE TypeInv'
  <2>1. pending' \subseteq Entry /\ sent' \in [Rows -> Nat]
    <3>1. CASE Agg.rootOnly
      BY <1>6, <3>1 DEF RootRow, BfsType
    <3>2. CASE ~Agg.rootOnly
      <4>1. Receive({r}, "text", TRUE, pending)
        BY <1>6, <3>2 DEF RootRow
      <4> QED
        BY <4>1, ReceiveType DEF BfsType
    <3> QED
      BY <3>1, <3>2
  <2>2. BfsType'
    BY <1>6, <1>c, <2>1 DEF RootRow, BfsType
  <2> QED
    BY <1>6, <1>c, <1>w, <2>2 DEF RootRow, config
<1>7. CASE RootEnd
  BY <1>7, <1>c, <1>w, <1>b DEF RootEnd, config
<1>8. CASE NextLevel
  <2>1. BfsType'
    BY <1>8, <1>c DEF NextLevel, BfsType
  <2> QED
    BY <1>8, <1>c, <1>w, <2>1 DEF NextLevel, config
<1>9. ASSUME NEW t \in Tables, NEW c \in Columns, NEW back \in BOOLEAN, Lookup(t, c, back)
      PROVE  TypeInv'
  <2> DEFINE here == {e \in current : e.table = t /\ e.column = c /\ e.back = back}
             found == {r \in RowsOf(t) : \E e \in here : val[r][c] = e.value}
  <2>1. pending' \subseteq Entry /\ sent' \in [Rows -> Nat]
    <3>1. CASE UNCHANGED <<pending, sent>>
      BY <3>1 DEF BfsType
    <3>2. CASE Receive(found, "binary", back, pending)
      <4>1. found \subseteq Rows
        BY DEF RowsOf
      <4> QED
        BY <3>2, <4>1, ReceiveType DEF BfsType
    <3> QED
      BY <1>9, <3>1, <3>2 DEF Lookup
  <2>2. current' \subseteq Entry /\ touched' \subseteq Importable
    BY <1>9 DEF Lookup, BfsType
  <2>3. BfsType'
    BY <1>9, <1>c, <2>1, <2>2 DEF Lookup, BfsType
  <2> QED
    BY <1>9, <1>c, <1>w, <2>3 DEF Lookup, config
<1>10. CASE EndAggregate
  BY <1>10, <1>c, <1>w, <1>b, <1>p DEF EndAggregate, config, Aggs
<1>11. CASE EndBfs
  <2>1. FalsePositives \subseteq Tables
    BY <1>p DEF FalsePositives, WalkType
  <2>2. BfsType'
    BY <1>11, <1>c, <2>1 DEF EndBfs, BfsType, bfs
  <2> QED
    BY <1>11, <1>c, <1>w, <2>2 DEF EndBfs, config
<1>12. ASSUME NEW t \in Tables, SpareTable(t) PROVE TypeInv'
  <2>1. BfsType'
    BY <1>12, <1>c, SendTableType DEF SpareTable, BfsType, bfs
  <2> QED
    BY <1>12, <1>c, <1>w, <2>1 DEF SpareTable, config
<1>13. ASSUME NEW t \in Tables, WorkerTable(t) PROVE TypeInv'
  <2>1. BfsType'
    BY <1>13, <1>c, SendTableType DEF WorkerTable, BfsType, bfs
  <2> QED
    BY <1>13, <1>c, <1>w, <2>1 DEF WorkerTable, config
<1>14. CASE AllJoined
  BY <1>14, <1>c, <1>w, <1>b DEF AllJoined, config
<1>15. CASE UNCHANGED vars
  BY <1>15, <1>c, <1>w, <1>b DEF vars, config
<1> QED
  BY <1>1, <1>2, <1>3, <1>4, <1>5, <1>6, <1>7, <1>8, <1>9, <1>10, <1>11, <1>12,
     <1>13, <1>14, <1>15 DEF Next, Bfs, Finished

-----------------------------------------------------------------------------
(* The inductive invariant *)

Roots == {plan.aggregates[i].root : i \in Aggs}

\* The walk from this root went all the way: some marking is closed under the
\* relations that are followed.
Covered(i) ==
  plan.aggregates[i].root \in Importable =>
    IF plan.aggregates[i].rootOnly
    THEN plan.aggregates[i].root \in potential
    ELSE \E ex \in Marks : WalkInv(ex, i, {})

StaticInv ==
  /\ \A i \in Aggs : i < a \/ pc \notin Planning => Covered(i)
  /\ pc = "walk" => WalkInv(explored, a, queue) /\ ~Agg.rootOnly

\* The walk marked every table that is still to be looked up, in the direction
\* in which it will be expanded.
Foreseen(ex) ==
  \A e \in pending \cup current :
    e.table \in Reachable(a) => ex[e.table] # "no" /\ (e.back => ex[e.table] = "both")

DataInv ==
  /\ pc \in Planning => touched = {}
  /\ pc \notin Planning => touched \subseteq potential \cup plan.excluded
  /\ touched \cap plan.full \subseteq Roots
  /\ pc \in {"root", "level"} =>
       /\ Agg.root \in touched
       /\ rootTodo \subseteq RowsOf(Agg.root)
       /\ IF Agg.rootOnly THEN pending \cup current = {}
          ELSE \E ex \in Marks : WalkInv(ex, a, {}) /\ Foreseen(ex)

\* A worker, or the traversal thread at its end, has streamed this table.
Streamed(t) ==
  \/ pc \notin Planning /\ t \in DefiniteFull \ tasks
  \/ pc \in {"spare", "done"} /\ t \in FalsePositives \ spare

\* Which tables are left to the threads.
TasksInv ==
  /\ pc \in Planning => tasks = {}
  /\ pc \notin Planning => tasks \subseteq DefiniteFull
  /\ spare \subseteq IF pc = "spare" THEN FalsePositives ELSE {}
  /\ pc \in {"done", "error"} => tasks = {}

\* Streamed tables are complete, and no other row was sent than those and the
\* rows of touched tables.
StreamInv ==
  /\ TasksInv
  /\ \A r \in Rows :
       /\ Streamed(TableOf[r]) => sent[r] > 0
       /\ sent[r] > 0 => \/ TableOf[r] \in touched \ (plan.excluded \ Roots)
                         \/ Streamed(TableOf[r])

\* Where the two protocols agree on keys, a row the traversal met was sent once.
OnceInv ==
  \A r \in Rows :
    /\ sent[r] <= 1
    /\ <<r, "any">> \in visited => TableOf[r] \in touched /\ sent[r] = 1
    /\ sent[r] = 1 => <<r, "any">> \in visited \/ Streamed(TableOf[r])

IInv == TypeInv /\ StaticInv /\ DataInv /\ StreamInv

-----------------------------------------------------------------------------
(* The static walk covers what it should *)

\* Reserving more tables undoes no cover.
LEMMA WalkMono ==
  ASSUME NEW ex, NEW i, NEW Q, UNCHANGED plan, potential \subseteq potential',
         WalkInv(ex, i, Q)
  PROVE  WalkInv(ex, i, Q)'
BY DEF WalkInv, Expanded, Relations, Discovered, Reachable, Importable

\* A walk that reserved more still covers what it covered.
LEMMA CoveredMono ==
  ASSUME NEW i \in Aggs, UNCHANGED plan, potential \subseteq potential', Covered(i)
  PROVE  Covered(i)'
<1>1. Importable' = Importable
  BY DEF Importable
<1>2. ASSUME NEW ex \in Marks, WalkInv(ex, i, {}) PROVE WalkInv(ex, i, {})'
  BY <1>2, WalkMono
<1> QED
  BY <1>1, <1>2 DEF Covered

\* A step that leaves the plan, the walk and the aggregates already walked alone.
LEMMA StaticFrame ==
  ASSUME TypeInv, StaticInv, UNCHANGED <<config, walk>>, pc' # "walk",
         pc \in Planning /\ pc' \in Planning => a' = a,
         pc \in Planning /\ pc' \notin Planning => \A i \in Aggs : Covered(i),
         pc' \in Planning => pc \in Planning
  PROVE  StaticInv'
<1>1. UNCHANGED plan /\ potential \subseteq potential' /\ Aggs' = Aggs
  BY DEF config, walk, Aggs
<1>2. ASSUME NEW i \in Aggs, i < a' \/ pc' \notin Planning PROVE Covered(i)'
  <2>1. Covered(i)
    BY <1>2 DEF StaticInv
  <2> QED
    BY <1>1, <2>1, CoveredMono
<1> QED
  BY <1>1, <1>2 DEF StaticInv, Planning

\* A step that leaves the walk alone keeps StaticInv.
LEMMA StaticStutter ==
  ASSUME TypeInv, StaticInv, UNCHANGED <<config, walk, pc, a>>
  PROVE  StaticInv'
<1>1. /\ UNCHANGED <<plan, queue, explored, potential, pc, a>> /\ Aggs' = Aggs
      /\ potential \subseteq potential' /\ Agg' = Agg
  BY DEF config, walk, Aggs, Agg
<1>2. \A i \in Aggs : Covered(i) => Covered(i)'
  BY <1>1, CoveredMono
<1>3. WalkInv(explored, a, queue) => WalkInv(explored, a, queue)'
  <2>1. Relations' = Relations /\ Reachable(a)' = Reachable(a)
    BY <1>1 DEF Relations, Discovered, Reachable, Importable
  <2>2. \A ex, t, b : Expanded(ex, a, t, b)' <=> Expanded(ex, a, t, b)
    BY <1>1, <2>1 DEF Expanded
  <2>3. ASSUME WalkInv(explored, a, queue)
        PROVE  /\ explored'[plan.aggregates[a].root] = "both"
               /\ \A t \in Tables :
                    /\ explored'[t] # "no" =>
                         \/ \E back \in BOOLEAN : <<t, back>> \in queue'
                         \/ t \in potential' /\ Expanded(explored', a, t, FALSE)
                    /\ explored'[t] = "both" =>
                         \/ <<t, TRUE>> \in queue'
                         \/ t \in potential' /\ Expanded(explored', a, t, TRUE)
    BY <1>1, <2>3 DEF WalkInv
  <2> QED
    BY <1>1, <2>2, <2>3 DEF WalkInv
<1> QED
  BY <1>1, <1>2, <1>3 DEF StaticInv

\* Popping a table of the static walk keeps StaticInv.
LEMMA StaticPopKeeps ==
  ASSUME TypeInv, StaticInv, NEW t \in Tables, NEW back \in BOOLEAN, StaticPop(t, back)
  PROVE  StaticInv'
<1>1. /\ UNCHANGED plan /\ UNCHANGED <<pc, a>> /\ potential' = potential \cup {t}
      /\ Aggs' = Aggs /\ pc = "walk" /\ Agg' = Agg
  BY DEF StaticPop, config, Aggs, Agg
<1>2. /\ queue \ {<<t, back>>} \subseteq queue'
      /\ \A u \in Tables :
           /\ explored[u] = "both" => explored'[u] = "both"
           /\ explored[u] # "no" => explored'[u] # "no"
           /\ explored[u] # "both" /\ explored'[u] = "both" => <<u, TRUE>> \in queue'
           /\ explored[u] = "no" /\ explored'[u] # "no" =>
                \E b \in BOOLEAN : <<u, b>> \in queue'
      /\ Expanded(explored', a, t, back)
  BY StaticPopEffect
<1>3. /\ Reachable(a) \subseteq Tables
      /\ \A ex, u, b : Expanded(ex, a, u, b)' <=> Expanded(ex, a, u, b)
      /\ plan.aggregates[a].root \in Tables
  <2>1. Reachable(a) \subseteq Tables /\ plan.aggregates[a].root \in Tables
    BY <1>1, PlanType DEF TypeInv, Reachable
  <2>2. Relations' = Relations /\ Reachable(a)' = Reachable(a)
    BY <1>1 DEF Relations, Discovered, Reachable, Importable
  <2> QED
    BY <1>1, <2>1, <2>2 DEF Expanded
<1>4. ASSUME NEW u \in Tables, NEW b \in BOOLEAN, Expanded(explored, a, u, b)
      PROVE  Expanded(explored', a, u, b)
  BY <1>2, <1>3, <1>4 DEF Expanded
<1>5. WalkInv(explored, a, queue)
  BY <1>1 DEF StaticInv
<1>6. explored'[plan.aggregates[a].root] = "both"
  BY <1>2, <1>3, <1>5 DEF WalkInv
<1>7. ASSUME NEW u \in Tables
      PROVE  /\ explored'[u] # "no" =>
                  \/ \E b \in BOOLEAN : <<u, b>> \in queue'
                  \/ u \in potential' /\ Expanded(explored', a, u, FALSE)
             /\ explored'[u] = "both" =>
                  \/ <<u, TRUE>> \in queue'
                  \/ u \in potential' /\ Expanded(explored', a, u, TRUE)
  <2>1. Expanded(explored', a, t, FALSE)
    BY <1>2 DEF Expanded
  <2>2. ASSUME explored[u] # "no"
        PROVE  \/ \E b \in BOOLEAN : <<u, b>> \in queue'
               \/ u \in potential' /\ Expanded(explored', a, u, FALSE)
    BY <1>1, <1>2, <1>4, <1>5, <2>1, <2>2 DEF WalkInv
  <2>3. ASSUME explored[u] = "both"
        PROVE  \/ <<u, TRUE>> \in queue'
               \/ u \in potential' /\ Expanded(explored', a, u, TRUE)
    BY <1>1, <1>2, <1>4, <1>5, <2>3 DEF WalkInv
  <2> QED
    BY <1>2, <2>2, <2>3
<1>8. WalkInv(explored, a, queue)'
  BY <1>1, <1>3, <1>6, <1>7 DEF WalkInv
<1>9. ASSUME NEW i \in Aggs, i < a PROVE Covered(i)'
  BY <1>1, <1>9, CoveredMono DEF StaticInv
<1> QED
  BY <1>1, <1>8, <1>9 DEF StaticInv, Planning

\* Starting the walk of an aggregate keeps StaticInv.
LEMMA StaticBeginKeeps ==
  ASSUME TypeInv, StaticInv, StaticBegin
  PROVE  StaticInv'
<1>1. /\ UNCHANGED plan /\ Aggs' = Aggs /\ pc = "plan" /\ a \in Aggs /\ a \in Nat
      /\ Agg = plan.aggregates[a] /\ potential \subseteq potential'
      /\ Agg.root \in Tables /\ Agg.rootOnly \in BOOLEAN /\ Importable' = Importable
  <2>1. Len(plan.aggregates) \in Nat
    BY PlanType DEF TypeInv
  <2>2. a \in Aggs
    BY <2>1 DEF TypeInv, StaticBegin, LastAgg, Aggs
  <2> QED
    BY <2>2, PlanType DEF TypeInv, StaticBegin, config, Aggs, Agg, Importable
<1>2. ASSUME NEW i \in Aggs, i < a PROVE Covered(i)'
  BY <1>1, <1>2, CoveredMono DEF StaticInv
<1>3. CASE Agg.rootOnly \/ Agg.root \notin Importable
  <2>1. ASSUME NEW i \in Aggs, i = a PROVE Covered(i)'
    <3>1. Agg.rootOnly /\ Agg.root \in Importable => Agg.root \in potential'
      BY <1>3 DEF StaticBegin
    <3> QED
      BY <1>1, <1>3, <2>1, <3>1 DEF Covered
  <2>2. a' = a + 1 /\ pc' = pc
    BY <1>3 DEF StaticBegin
  <2>3. \A i \in Aggs : i < a + 1 => i < a \/ i = a
    BY <1>1 DEF Aggs
  <2> QED
    BY <1>1, <1>2, <2>1, <2>2, <2>3 DEF StaticInv, Planning
<1>4. CASE ~(Agg.rootOnly \/ Agg.root \notin Importable)
  <2>1. /\ queue' = {<<Agg.root, TRUE>>} /\ a' = a /\ pc' = "walk"
        /\ explored' = [t \in Tables |-> IF t = Agg.root THEN "both" ELSE "no"]
        /\ Agg' = Agg
    BY <1>1, <1>4 DEF StaticBegin, Agg
  <2>2. WalkInv(explored, a, queue)'
    BY <1>1, <2>1 DEF WalkInv
  <2> QED
    BY <1>1, <1>2, <1>4, <2>1, <2>2 DEF StaticInv, Planning
<1> QED
  BY <1>3, <1>4

\* Ending the walk keeps StaticInv: what it leaves is covered.
LEMMA StaticEndKeeps ==
  ASSUME TypeInv, StaticInv, StaticEnd
  PROVE  StaticInv'
<1>1. /\ UNCHANGED plan /\ Aggs' = Aggs /\ pc = "walk" /\ pc' = "plan" /\ a' = a + 1
      /\ queue = {} /\ potential \subseteq potential' /\ a \in Aggs /\ a \in Nat
      /\ Agg = plan.aggregates[a] /\ explored \in Marks
  BY DEF TypeInv, StaticEnd, config, walk, Aggs, Agg, WalkType
<1>2. WalkInv(explored, a, {}) /\ ~Agg.rootOnly
  BY <1>1 DEF StaticInv
<1>3. Covered(a)
  BY <1>1, <1>2 DEF Covered
<1>4. \A i \in Aggs : i < a + 1 => i < a \/ i = a
  BY <1>1 DEF Aggs
<1>5. ASSUME NEW i \in Aggs, i < a + 1 PROVE Covered(i)'
  BY <1>1, <1>3, <1>4, <1>5, CoveredMono DEF StaticInv
<1> QED
  BY <1>1, <1>5 DEF StaticInv, Planning

\* Every step keeps the cover of the aggregates already walked.
LEMMA StaticNext == TypeInv /\ StaticInv /\ [Next]_vars => StaticInv'
<1> SUFFICES ASSUME TypeInv, StaticInv, [Next]_vars PROVE StaticInv'
  OBVIOUS
<1> USE DEF Planning
<1>1. CASE StaticBegin
  BY <1>1, StaticBeginKeeps
<1>2. ASSUME NEW t \in Tables, NEW back \in BOOLEAN, StaticPop(t, back) PROVE StaticInv'
  BY <1>2, StaticPopKeeps
<1>3. CASE StaticEnd
  BY <1>3, StaticEndKeeps
<1>4. CASE SpawnThreads
  <2>1. Len(plan.aggregates) \in Nat
    BY PlanType DEF TypeInv
  <2>2. \A i \in Aggs : Covered(i)
    BY <1>4, <2>1 DEF SpawnThreads, LastAgg, StaticInv, Aggs, TypeInv
  <2> QED
    BY <1>4, <2>2, StaticFrame DEF SpawnThreads
<1>5. CASE BeginAggregate
  BY <1>5, StaticFrame DEF BeginAggregate
<1>6. ASSUME NEW r \in Rows, RootRow(r) PROVE StaticInv'
  BY <1>6, StaticFrame DEF RootRow
<1>7. CASE RootEnd
  BY <1>7, StaticFrame DEF RootEnd
<1>8. CASE NextLevel
  BY <1>8, StaticFrame DEF NextLevel
<1>9. ASSUME NEW t \in Tables, NEW c \in Columns, NEW back \in BOOLEAN, Lookup(t, c, back)
      PROVE  StaticInv'
  BY <1>9, StaticFrame DEF Lookup
<1>10. CASE EndAggregate
  BY <1>10, StaticFrame DEF EndAggregate
<1>11. CASE EndBfs
  BY <1>11, StaticFrame DEF EndBfs
<1>12. ASSUME NEW t \in Tables, SpareTable(t) PROVE StaticInv'
  BY <1>12, StaticFrame DEF SpareTable
<1>13. ASSUME NEW t \in Tables, WorkerTable(t) PROVE StaticInv'
  BY <1>13, StaticStutter DEF WorkerTable
<1>14. CASE AllJoined
  BY <1>14, StaticFrame DEF AllJoined
<1>15. CASE UNCHANGED vars
  BY <1>15, StaticStutter DEF vars
<1> QED
  BY <1>1, <1>2, <1>3, <1>4, <1>5, <1>6, <1>7, <1>8, <1>9, <1>10, <1>11, <1>12,
     <1>13, <1>14, <1>15 DEF Next, Bfs, Finished

-----------------------------------------------------------------------------
(* The traversal stays where the walk has been *)

\* A row of a marked table only leads to marked tables.
LEMMA FollowMarked ==
  ASSUME TypeInv, NEW ex \in Marks, WalkInv(ex, a, {}), NEW r \in Rows, NEW back \in BOOLEAN,
         ex[TableOf[r]] # "no", back => ex[TableOf[r]] = "both"
  PROVE  /\ \A e \in ForwardValues(r) :
              e.table \in Reachable(a) => ex[e.table] # "no" /\ (e.back => ex[e.table] = "both")
         /\ back => \A e \in BackwardValues(r) :
              e.table \in Reachable(a) => ex[e.table] # "no" /\ (e.back => ex[e.table] = "both")
<1>1. TableOf[r] \in Tables
  OBVIOUS
<1>2. /\ Expanded(ex, a, TableOf[r], FALSE)
      /\ back => Expanded(ex, a, TableOf[r], TRUE)
  BY <1>1 DEF WalkInv
<1>3. ConfigInv
  BY DEF TypeInv
<1>4. ASSUME NEW e \in ForwardValues(r), e.table \in Reachable(a)
      PROVE  ex[e.table] # "no" /\ e.back = FALSE
  <2>1. PICK rel \in Forward(TableOf[r]) : e.table = rel.to /\ e.back = FALSE
    BY <1>3, ForwardEntry
  <2>2. rel \in Relations /\ rel.from = TableOf[r]
    BY DEF Forward
  <2> QED
    BY <1>2, <1>4, <2>1, <2>2 DEF Expanded
<1>5. ASSUME back, NEW e \in BackwardValues(r), e.table \in Reachable(a)
      PROVE  ex[e.table] = "both"
  <2>1. PICK rel \in Backward(TableOf[r]) : e.table = rel.from /\ e.back = TRUE
    BY <1>3, BackwardEntry
  <2>2. rel \in Relations /\ rel.to = TableOf[r]
    BY DEF Backward
  <2> QED
    BY <1>2, <1>5, <2>1, <2>2 DEF Expanded
<1> QED
  BY <1>4, <1>5

\* Rows of marked tables keep the look-ups within the marked tables.
LEMMA ReceiveForeseen ==
  ASSUME TypeInv, NEW ex \in Marks, WalkInv(ex, a, {}), Foreseen(ex),
         NEW R \in SUBSET Rows, NEW protocol, NEW back \in BOOLEAN,
         Receive(R, protocol, back, pending),
         \A r \in R : ex[TableOf[r]] # "no" /\ (back => ex[TableOf[r]] = "both"),
         current' \subseteq current, UNCHANGED <<plan, a>>
  PROVE  Foreseen(ex)'
<1>1. \A e \in pending' : \/ e \in pending
                          \/ \E r \in R : e \in ForwardValues(r)
                          \/ back /\ \E r \in R : e \in BackwardValues(r)
  BY ReceiveAdds DEF TypeInv
<1>2. Reachable(a)' = Reachable(a)
  BY DEF Reachable, Importable
<1>3. ASSUME NEW e \in pending' \cup current', e.table \in Reachable(a)
      PROVE  ex[e.table] # "no" /\ (e.back => ex[e.table] = "both")
  <2>1. CASE e \in pending \cup current
    BY <1>3, <2>1 DEF Foreseen
  <2>2. ASSUME NEW r \in R, e \in ForwardValues(r)
        PROVE  ex[e.table] # "no" /\ (e.back => ex[e.table] = "both")
    BY <1>3, <2>2, FollowMarked
  <2>3. ASSUME NEW r \in R, back, e \in BackwardValues(r)
        PROVE  ex[e.table] # "no" /\ (e.back => ex[e.table] = "both")
    BY <1>3, <2>3, FollowMarked
  <2> QED
    BY <1>1, <1>3, <2>1, <2>2, <2>3
<1> QED
  BY <1>2, <1>3 DEF Foreseen

\* Steps outside an aggregate.
LEMMA DataFrame ==
  ASSUME TypeInv, DataInv, UNCHANGED <<config, touched>>, pc' \notin {"root", "level"},
         pc' \in Planning => pc \in Planning,
         pc' \notin Planning => potential' = potential
  PROVE  DataInv'
BY DEF DataInv, config, Roots, Aggs, Planning

\* Steps within an aggregate that take no look-up and read no row.
LEMMA DataStutter ==
  ASSUME TypeInv, DataInv, UNCHANGED <<config, a, walk, rootTodo, touched>>,
         pending' \cup current' = pending \cup current,
         pc \in {"root", "level"}, pc' \in {"root", "level"}
  PROVE  DataInv'
<1>1. /\ UNCHANGED plan /\ UNCHANGED <<a, potential, touched, rootTodo>> /\ Agg' = Agg
      /\ Roots' = Roots /\ RowsOf(Agg.root)' = RowsOf(Agg.root)
      /\ Reachable(a)' = Reachable(a) /\ potential \subseteq potential'
  BY DEF config, walk, Agg, Roots, Aggs, RowsOf, Reachable, Importable
<1>2. \A ex : Foreseen(ex) => Foreseen(ex)'
  BY <1>1 DEF Foreseen
<1>3. \A ex : WalkInv(ex, a, {}) => WalkInv(ex, a, {})'
  BY <1>1, WalkMono
<1> QED
  BY <1>1, <1>2, <1>3 DEF DataInv, Planning

\* The root query of an aggregate is at a table the walk covers.
LEMMA BeginAggregateData ==
  ASSUME TypeInv, StaticInv, DataInv, BeginAggregate
  PROVE  DataInv'
<1>1. CASE Agg.root \notin Importable
  BY <1>1, DataFrame DEF BeginAggregate, bfs, walk, Planning
<1>2. CASE Agg.root \in Importable
  <2>1. /\ pc = "next" /\ pc' = "root" /\ UNCHANGED <<a, potential>> /\ UNCHANGED plan
        /\ touched' = touched \cup {Agg.root} /\ rootTodo' = matched[a]
        /\ pending' = {} /\ current' = {} /\ potential \subseteq potential'
    BY <1>2 DEF BeginAggregate, walk, config
  <2>2. a \in Aggs /\ Agg = plan.aggregates[a] /\ Agg' = Agg /\ Roots' = Roots
    <3>1. Len(plan.aggregates) \in Nat
      BY PlanType DEF TypeInv
    <3> QED
      BY <2>1, <3>1 DEF BeginAggregate, TypeInv, LastAgg, Aggs, Agg, Roots
  <2>3. Covered(a) /\ Agg.rootOnly \in BOOLEAN /\ Agg.root \in Tables
    BY <2>1, <2>2, PlanType DEF StaticInv, Planning, TypeInv
  <2>4. Agg.root \in potential
    BY <1>2, <2>2, <2>3 DEF Covered, WalkInv
  <2>5. rootTodo' \subseteq RowsOf(Agg.root) /\ RowsOf(Agg.root)' = RowsOf(Agg.root)
    BY <2>1, <2>2 DEF TypeInv, ConfigInv, RowsOf
  <2>6. ~Agg.rootOnly => \E ex \in Marks : WalkInv(ex, a, {})' /\ Foreseen(ex)'
    <3>1. ~Agg.rootOnly => \E ex \in Marks : WalkInv(ex, a, {})
      BY <1>2, <2>2, <2>3 DEF Covered
    <3>2. \A ex : WalkInv(ex, a, {}) => WalkInv(ex, a, {})'
      BY <2>1, WalkMono
    <3>3. \A ex : Foreseen(ex)'
      BY <2>1 DEF Foreseen
    <3> QED
      BY <3>1, <3>2, <3>3
  <2>7. Agg.root \in Roots
    BY <2>2 DEF Roots
  <2> QED
    BY <2>1, <2>2, <2>3, <2>4, <2>5, <2>6, <2>7 DEF DataInv, Planning
<1> QED
  BY <1>1, <1>2

\* A row of the root query stays within what the walk covers.
LEMMA RootRowData ==
  ASSUME TypeInv, DataInv, NEW r \in Rows, RootRow(r)
  PROVE  DataInv'
<1>1. /\ pc = "root" /\ pc' = "root" /\ UNCHANGED <<a, potential, touched, current>>
      /\ UNCHANGED plan /\ rootTodo' \subseteq rootTodo /\ r \in rootTodo
      /\ potential \subseteq potential'
  BY DEF RootRow, config, walk
<1>2. /\ a \in Aggs /\ Agg = plan.aggregates[a] /\ Agg' = Agg /\ Roots' = Roots
      /\ RowsOf(Agg.root)' = RowsOf(Agg.root) /\ Agg.rootOnly \in BOOLEAN
  BY <1>1, PlanType DEF TypeInv, Aggs, Agg, Roots, RowsOf
<1>3. ASSUME ~Agg.rootOnly
      PROVE  \E ex \in Marks : WalkInv(ex, a, {})' /\ Foreseen(ex)'
  <2>1. PICK ex \in Marks : WalkInv(ex, a, {}) /\ Foreseen(ex)
    BY <1>1, <1>3 DEF DataInv
  <2>2. TableOf[r] = Agg.root /\ ex[Agg.root] = "both"
    BY <1>1, <1>2, <2>1 DEF DataInv, RowsOf, WalkInv
  <2>3. Receive({r}, "text", TRUE, pending)
    BY <1>3 DEF RootRow
  <2>4. Foreseen(ex)'
    BY <1>1, <2>1, <2>2, <2>3, ReceiveForeseen
  <2>5. WalkInv(ex, a, {})'
    BY <1>1, <2>1, WalkMono
  <2> QED
    BY <2>4, <2>5
<1>4. Agg.rootOnly => pending' = pending
  BY DEF RootRow
<1> QED
  BY <1>1, <1>2, <1>3, <1>4 DEF DataInv, Planning

\* A lookup stays within what the walk covers.
LEMMA LookupData ==
  ASSUME TypeInv, DataInv, NEW t \in Tables, NEW c \in Columns, NEW back \in BOOLEAN,
         Lookup(t, c, back)
  PROVE  DataInv'
<1> DEFINE here == {e \in current : e.table = t /\ e.column = c /\ e.back = back}
           found == {r \in RowsOf(t) : \E e \in here : val[r][c] = e.value}
<1>1. /\ pc = "level" /\ pc' = "level" /\ UNCHANGED <<a, potential, rootTodo>>
      /\ UNCHANGED plan /\ current' = current \ here /\ here # {}
      /\ potential \subseteq potential'
  BY DEF Lookup, config, walk
<1>2. /\ a \in Aggs /\ Agg = plan.aggregates[a] /\ Agg' = Agg /\ Roots' = Roots
      /\ RowsOf(Agg.root)' = RowsOf(Agg.root) /\ Agg.rootOnly \in BOOLEAN
  BY <1>1, PlanType DEF TypeInv, Aggs, Agg, Roots, RowsOf
<1>3. PICK ex \in Marks : WalkInv(ex, a, {}) /\ Foreseen(ex)
  BY <1>1, <1>2 DEF DataInv
<1>4. t \in Reachable(a) => /\ ex[t] # "no" /\ (back => ex[t] = "both")
                            /\ t \in potential
  <2>1. PICK e \in current : e.table = t /\ e.back = back
    BY <1>1
  <2>2. t \in Reachable(a) => ex[t] # "no" /\ (back => ex[t] = "both")
    BY <1>3, <2>1 DEF Foreseen
  <2> QED
    BY <1>3, <2>2 DEF WalkInv
<1>5. WalkInv(ex, a, {})'
  BY <1>1, <1>3, WalkMono
<1>6. ~Agg.rootOnly /\ (Agg.rootOnly => FALSE)
  BY <1>1, <1>2 DEF DataInv
<1>7. Reachable(a)' = Reachable(a)
  BY <1>1 DEF Reachable, Importable
<1>8. CASE t \in plan.full \cup Agg.exclude \/ t \notin Importable
  <2>1. UNCHANGED <<pending, touched>>
    BY <1>8 DEF Lookup
  <2>2. Foreseen(ex)'
    BY <1>1, <1>3, <1>7, <2>1 DEF Foreseen
  <2> QED
    BY <1>1, <1>2, <1>5, <1>6, <2>1, <2>2 DEF DataInv, Planning
<1>9. CASE ~(t \in plan.full \cup Agg.exclude \/ t \notin Importable)
  <2>1. touched' = touched \cup {t} /\ t \notin plan.full
    BY <1>9 DEF Lookup
  <2>2. t \in plan.excluded \/ t \in Reachable(a)
    BY <1>2, <1>9 DEF Reachable
  <2>3. Foreseen(ex)'
    <3>1. CASE t \in plan.excluded
      <4>1. pending' = pending
        BY <1>9, <3>1 DEF Lookup
      <4> QED
        BY <1>1, <1>3, <1>7, <4>1 DEF Foreseen
    <3>2. CASE t \notin plan.excluded
      <4>1. Receive(found, "binary", back, pending)
        BY <1>9, <3>2 DEF Lookup
      <4>2. found \subseteq Rows /\ \A r \in found : TableOf[r] = t
        BY DEF RowsOf
      <4> HIDE DEF found
      <4> QED
        BY <1>1, <1>3, <1>4, <2>2, <3>2, <4>1, <4>2, ReceiveForeseen
    <3> QED
      BY <3>1, <3>2
  <2> QED
    BY <1>1, <1>2, <1>4, <1>5, <1>6, <2>1, <2>2, <2>3 DEF DataInv, Planning
<1> QED
  BY <1>8, <1>9

\* Every step of the traversal stays within what the walk covers.
LEMMA DataNext == TypeInv /\ StaticInv /\ DataInv /\ [Next]_vars => DataInv'
<1> SUFFICES ASSUME TypeInv, StaticInv, DataInv, [Next]_vars PROVE DataInv'
  OBVIOUS
<1> USE DEF Planning
<1>1. CASE StaticBegin
  BY <1>1, DataFrame DEF StaticBegin, bfs
<1>2. ASSUME NEW t \in Tables, NEW back \in BOOLEAN, StaticPop(t, back) PROVE DataInv'
  BY <1>2, DataFrame DEF StaticPop, bfs
<1>3. CASE StaticEnd
  BY <1>3, DataFrame DEF StaticEnd, bfs
<1>4. CASE SpawnThreads
  <2>1. /\ touched' = {} /\ pc' = "next" /\ UNCHANGED plan
    BY <1>4 DEF SpawnThreads, bfs, DataInv, config
  <2> QED
    BY <2>1 DEF DataInv
<1>5. CASE BeginAggregate
  BY <1>5, BeginAggregateData
<1>6. ASSUME NEW r \in Rows, RootRow(r) PROVE DataInv'
  BY <1>6, RootRowData
<1>7. CASE RootEnd
  BY <1>7, DataStutter DEF RootEnd, bfs
<1>8. CASE NextLevel
  BY <1>8, DataStutter DEF NextLevel
<1>9. ASSUME NEW t \in Tables, NEW c \in Columns, NEW back \in BOOLEAN, Lookup(t, c, back)
      PROVE  DataInv'
  BY <1>9, LookupData
<1>10. CASE EndAggregate
  BY <1>10, DataFrame DEF EndAggregate, bfs, walk
<1>11. CASE EndBfs
  BY <1>11, DataFrame DEF EndBfs, bfs, walk
<1>12. ASSUME NEW t \in Tables, SpareTable(t) PROVE DataInv'
  BY <1>12, DataFrame DEF SpareTable, bfs, walk
<1>13. CASE UNCHANGED <<config, pc, a, walk, bfs>>
  <2>1. CASE pc \in {"root", "level"}
    BY <1>13, <2>1, DataStutter DEF bfs
  <2>2. CASE pc \notin {"root", "level"}
    BY <1>13, <2>2, DataFrame DEF bfs, walk
  <2> QED
    BY <2>1, <2>2
<1>14. CASE AllJoined
  BY <1>14, DataFrame DEF AllJoined, bfs, walk
<1> QED
  BY <1>1, <1>2, <1>3, <1>4, <1>5, <1>6, <1>7, <1>8, <1>9, <1>10, <1>11, <1>12,
     <1>13, <1>14 DEF Next, Bfs, Finished, WorkerTable, vars

\* Nothing is reserved or touched at the start.
LEMMA ReservedInit == Init => StaticInv /\ DataInv
<1> SUFFICES ASSUME Init PROVE StaticInv /\ DataInv
  OBVIOUS
<1>1. pc = "plan" /\ a = 1 /\ touched = {}
  BY DEF Init
<1>2. \A i \in Aggs : ~(i < 1)
  BY PlanType, TypeInit DEF TypeInv, Aggs
<1> QED
  BY <1>1, <1>2 DEF StaticInv, DataInv, Planning

\* The static walk and the traversal agree, on every plan and all data: no table
\* is touched that was not reserved (compute_potential_aggregate_tables follows
\* the same directional rules as run_aggregate_bfs).
THEOREM WalkForeseesData == Spec => []PotentialCovers
<1>1. Init => TypeInv /\ StaticInv /\ DataInv
  BY TypeInit, ReservedInit
<1>2. TypeInv /\ StaticInv /\ DataInv /\ [Next]_vars => (TypeInv /\ StaticInv /\ DataInv)'
  BY TypeNext, StaticNext, DataNext
<1>3. DataInv => PotentialCovers
  BY DEF DataInv, PotentialCovers, Planning
<1> QED
  BY <1>1, <1>2, <1>3, PTL DEF Spec

-----------------------------------------------------------------------------
(* What is sent *)

\* The tables of the workers, the tables the traversal touches and the tables
\* reserved in vain are disjoint.
LEMMA Disjoint ==
  ASSUME TypeInv, DataInv, pc \notin Planning
  PROVE  /\ \A t \in DefiniteFull : t \notin touched \cup potential \cup plan.excluded
         /\ \A t \in FalsePositives : t \in potential /\ t \notin touched \cup plan.excluded
BY DEF DataInv, DefiniteFull, FalsePositives

\* The rows of R that were not sent before are sent.
Emits(R, protocol) ==
  /\ visited' = visited \cup {Key(r, protocol) : r \in R}
  /\ sent' = [r \in Rows |-> IF r \in R /\ Key(r, protocol) \notin visited
                             THEN sent[r] + 1 ELSE sent[r]]

\* Receiving rows sends those not visited before.
LEMMA ReceiveEmits ==
  ASSUME NEW R, NEW protocol, NEW back, NEW rest, Receive(R, protocol, back, rest)
  PROVE  Emits(R, protocol)
BY DEF Receive, Emits

\* A row of the root query is sent under the text protocol, in a root table.
LEMMA RootRowEmits ==
  ASSUME TypeInv, DataInv, NEW r \in Rows, RootRow(r)
  PROVE  Emits({r}, "text") /\ TableOf[r] \in touched \cap Roots
<1>0. TableOf[r] \in touched \cap Roots
  BY PlanType DEF RootRow, TypeInv, DataInv, Roots, RowsOf, Agg
<1>1. CASE Agg.rootOnly
  <2>1. /\ sent' = [sent EXCEPT ![r] = IF Key(r, "text") \in visited THEN @ ELSE @ + 1]
        /\ visited' = visited \cup {Key(r, "text")}
    BY <1>1 DEF RootRow
  <2>2. sent \in [Rows -> Nat]
    BY DEF TypeInv, BfsType
  <2> QED
    BY <1>0, <2>1, <2>2 DEF Emits
<1>2. CASE ~Agg.rootOnly
  <2>1. Receive({r}, "text", TRUE, pending)
    BY <1>2 DEF RootRow
  <2> QED
    BY <1>0, <2>1, ReceiveEmits
<1> QED
  BY <1>1, <1>2

\* The rows a lookup sends are of the looked-up table, under the binary protocol.
LEMMA LookupEmits ==
  ASSUME TypeInv, NEW t \in Tables, NEW c \in Columns, NEW back \in BOOLEAN,
         Lookup(t, c, back)
  PROVE  \/ UNCHANGED <<visited, sent>>
         \/ \E R \in SUBSET RowsOf(t) :
              Emits(R, "binary") /\ t \in touched' \ plan.excluded
<1> DEFINE here == {e \in current : e.table = t /\ e.column = c /\ e.back = back}
           found == {r \in RowsOf(t) : \E e \in here : val[r][c] = e.value}
<1>1. CASE UNCHANGED <<visited, sent>>
  BY <1>1
<1>2. CASE t \notin plan.excluded /\ touched' = touched \cup {t}
             /\ Receive(found, "binary", back, pending)
  <2>1. Emits(found, "binary") /\ found \in SUBSET RowsOf(t)
    BY <1>2, ReceiveEmits
  <2> HIDE DEF found
  <2> QED
    BY <1>2, <2>1
<1> QED
  BY <1>1, <1>2 DEF Lookup

\* Rows sent by the traversal.
LEMMA EmitStream ==
  ASSUME TypeInv, DataInv, StreamInv, pc \in {"root", "level"}, UNCHANGED <<config, pc>>,
         UNCHANGED <<potential, spare, tasks>>, touched \subseteq touched',
         NEW R \in SUBSET Rows, NEW protocol, Emits(R, protocol),
         \A r \in R : TableOf[r] \in touched' \ (plan.excluded \ Roots)
  PROVE  StreamInv'
<1>1. UNCHANGED plan /\ Roots' = Roots /\ DefiniteFull' = DefiniteFull
  BY DEF config, Roots, Aggs, DefiniteFull, Importable
<1>2. \A u : Streamed(u)' <=> Streamed(u)
  BY <1>1 DEF Streamed, Planning
<1>3. \A r \in Rows : /\ sent[r] \in Nat /\ sent'[r] \in Nat /\ sent'[r] >= sent[r]
                      /\ r \notin R => sent'[r] = sent[r]
  BY DEF Emits, TypeInv, BfsType
<1>4. ASSUME NEW r \in Rows
      PROVE  /\ Streamed(TableOf[r])' => sent'[r] > 0
             /\ sent'[r] > 0 => \/ TableOf[r] \in touched' \ (plan.excluded \ Roots)
                                \/ Streamed(TableOf[r])'
  BY <1>2, <1>3 DEF StreamInv, TasksInv
<1> QED
  BY <1>1, <1>4 DEF StreamInv, TasksInv, Planning

\* Rows of a table the traversal touches are sent at most once.
LEMMA EmitOnce ==
  ASSUME Typed = {}, TypeInv, DataInv, DataInv', OnceInv, pc \in {"root", "level"},
         UNCHANGED <<config, pc>>,
         UNCHANGED <<potential, spare, tasks>>, touched \subseteq touched',
         NEW R \in SUBSET Rows, NEW protocol, Emits(R, protocol),
         \A r \in R : TableOf[r] \in touched'
  PROVE  OnceInv'
<1>1. UNCHANGED plan /\ DefiniteFull' = DefiniteFull
  BY DEF config, DefiniteFull, Importable
<1>2. \A u : /\ Streamed(u)' <=> Streamed(u)
             /\ Streamed(u) => u \notin touched'
  <2>1. touched' \subseteq potential \cup plan.excluded
    BY <1>1 DEF DataInv, Planning
  <2> QED
    BY <1>1, <2>1 DEF Streamed, Planning, DefiniteFull
<1>3. /\ visited' = visited \cup {<<r, "any">> : r \in R}
      /\ \A r \in Rows : /\ sent[r] \in Nat
                         /\ sent'[r] = IF r \in R /\ <<r, "any">> \notin visited
                                       THEN sent[r] + 1 ELSE sent[r]
  BY DEF Emits, TypeInv, BfsType, Key
<1>4. ASSUME NEW r \in Rows
      PROVE  /\ sent'[r] <= 1
             /\ <<r, "any">> \in visited' => TableOf[r] \in touched' /\ sent'[r] = 1
             /\ sent'[r] = 1 => <<r, "any">> \in visited' \/ Streamed(TableOf[r])'
  <2>1. CASE r \in R /\ <<r, "any">> \notin visited
    <3>1. sent[r] # 1
      BY <1>2, <2>1 DEF OnceInv
    <3>2. sent[r] \in Nat /\ sent[r] <= 1
      BY <1>3 DEF OnceInv
    <3> QED
      BY <1>3, <2>1, <3>1, <3>2
  <2>2. CASE ~(r \in R /\ <<r, "any">> \notin visited)
    BY <1>2, <1>3, <2>2 DEF OnceInv
  <2> QED
    BY <2>1, <2>2
<1> QED
  BY <1>4 DEF OnceInv

\* A whole table is streamed that nothing of was sent before.
LEMMA SendTableStream ==
  ASSUME TypeInv, StreamInv, NEW t \in Tables, SendTable(t), UNCHANGED <<config, pc>>,
         UNCHANGED <<potential, touched>>, pc \notin Planning \cup {"done", "error"},
         tasks' \subseteq tasks, spare' \subseteq spare,
         \A u : Streamed(u)' <=> Streamed(u) \/ u = t
  PROVE  StreamInv'
<1>1. /\ UNCHANGED plan /\ Roots' = Roots /\ DefiniteFull' = DefiniteFull
      /\ FalsePositives' = FalsePositives
  BY DEF config, Roots, Aggs, DefiniteFull, FalsePositives, Importable
<1>2. \A r \in Rows : /\ sent[r] \in Nat
                      /\ sent'[r] = IF TableOf[r] = t THEN sent[r] + 1 ELSE sent[r]
  BY DEF SendTable, TypeInv, BfsType
<1>3. ASSUME NEW r \in Rows
      PROVE  /\ Streamed(TableOf[r])' => sent'[r] > 0
             /\ sent'[r] > 0 => \/ TableOf[r] \in touched' \ (plan'.excluded \ Roots')
                                \/ Streamed(TableOf[r])'
  <2>1. CASE TableOf[r] = t
    BY <1>2, <2>1
  <2>2. CASE TableOf[r] # t
    BY <1>1, <1>2, <2>2 DEF StreamInv, TasksInv
  <2> QED
    BY <2>1, <2>2
<1> QED
  BY <1>1, <1>3 DEF StreamInv, TasksInv

\* A table streamed whole sends each of its rows once.
LEMMA SendTableOnce ==
  ASSUME TypeInv, OnceInv, NEW t \in Tables, SendTable(t),
         UNCHANGED <<visited, touched>>, t \notin touched, ~Streamed(t),
         \A u : Streamed(u)' <=> Streamed(u) \/ u = t
  PROVE  OnceInv'
<1>1. \A r \in Rows : /\ sent[r] \in Nat
                      /\ sent'[r] = IF TableOf[r] = t THEN sent[r] + 1 ELSE sent[r]
  BY DEF SendTable, TypeInv, BfsType
<1>2. ASSUME NEW r \in Rows
      PROVE  /\ sent'[r] <= 1
             /\ <<r, "any">> \in visited' => TableOf[r] \in touched' /\ sent'[r] = 1
             /\ sent'[r] = 1 => <<r, "any">> \in visited' \/ Streamed(TableOf[r])'
  <2>1. CASE TableOf[r] = t
    <3>1. sent[r] \in Nat /\ sent[r] <= 1 /\ sent[r] # 1 /\ <<r, "any">> \notin visited
      BY <1>1, <2>1 DEF OnceInv
    <3> QED
      BY <1>1, <2>1, <3>1
  <2>2. CASE TableOf[r] # t
    BY <1>1, <2>2 DEF OnceInv
  <2> QED
    BY <2>1, <2>2
<1> QED
  BY <1>2 DEF OnceInv

\* The two ways a table is streamed as a whole: each at most once.
LEMMA SpareEffect ==
  ASSUME TypeInv, DataInv, StreamInv, NEW t \in Tables, SpareTable(t)
  PROVE  /\ t \notin touched /\ ~Streamed(t) /\ pc = "spare"
         /\ \A u : Streamed(u)' <=> Streamed(u) \/ u = t
<1>1. /\ UNCHANGED plan /\ UNCHANGED <<pc, potential, touched, tasks>>
      /\ pc = "spare" /\ spare' = spare \ {t} /\ t \in spare
      /\ DefiniteFull' = DefiniteFull /\ FalsePositives' = FalsePositives
  BY DEF SpareTable, config, walk, bfs, DefiniteFull, FalsePositives, Importable
<1>2. t \in FalsePositives /\ t \notin DefiniteFull /\ t \notin touched
  BY <1>1, Disjoint DEF StreamInv, TasksInv, Planning
<1> QED
  BY <1>1, <1>2 DEF Streamed, Planning

\* A table a worker takes has not been touched or streamed.
LEMMA WorkerEffect ==
  ASSUME TypeInv, DataInv, StreamInv, NEW t \in Tables, WorkerTable(t)
  PROVE  /\ t \notin touched /\ ~Streamed(t) /\ pc \notin Planning \cup {"done", "error"}
         /\ \A u : Streamed(u)' <=> Streamed(u) \/ u = t
<1>1. /\ UNCHANGED plan /\ UNCHANGED <<pc, potential, touched, spare>>
      /\ tasks' = tasks \ {t} /\ t \in tasks
      /\ DefiniteFull' = DefiniteFull /\ FalsePositives' = FalsePositives
  BY DEF WorkerTable, config, walk, bfs, DefiniteFull, FalsePositives, Importable
<1>2. pc \notin Planning \cup {"done", "error"}
  BY <1>1 DEF StreamInv, TasksInv
<1>3. t \in DefiniteFull /\ t \notin FalsePositives /\ t \notin touched
  BY <1>1, <1>2, Disjoint DEF StreamInv, TasksInv
<1> QED
  BY <1>1, <1>2, <1>3 DEF Streamed

Silent ==
  \/ StaticBegin \/ StaticEnd \/ SpawnThreads
  \/ \E t \in Tables, back \in BOOLEAN : StaticPop(t, back)
  \/ BeginAggregate \/ RootEnd \/ NextLevel \/ EndAggregate \/ EndBfs
  \/ AllJoined \/ UNCHANGED vars

\* The steps that send nothing.
LEMMA SilentEffect ==
  ASSUME TypeInv, StreamInv, Silent
  PROVE  /\ UNCHANGED <<config, visited, sent>> /\ touched \subseteq touched'
         /\ (\A u : Streamed(u)' <=> Streamed(u)) /\ TasksInv'
<1> USE DEF StreamInv, TasksInv, Streamed, Planning
<1>d. UNCHANGED <<config, potential, touched>> =>
        DefiniteFull' = DefiniteFull /\ FalsePositives' = FalsePositives
  BY DEF config, DefiniteFull, FalsePositives, Importable
<1>1. CASE StaticBegin
  BY <1>1 DEF StaticBegin, config, bfs
<1>2. ASSUME NEW t \in Tables, NEW back \in BOOLEAN, StaticPop(t, back)
      PROVE  /\ UNCHANGED <<config, visited, sent>> /\ touched \subseteq touched'
             /\ (\A u : Streamed(u)' <=> Streamed(u)) /\ TasksInv'
  BY <1>2 DEF StaticPop, config, bfs
<1>3. CASE StaticEnd
  BY <1>3 DEF StaticEnd, config, bfs
<1>4. CASE SpawnThreads
  <2>1. DefiniteFull' = DefiniteFull
    BY <1>4, <1>d DEF SpawnThreads, bfs, walk
  <2> QED
    BY <1>4, <2>1 DEF SpawnThreads, bfs
<1>5. CASE BeginAggregate
  <2>1. DefiniteFull' = DefiniteFull
    BY <1>5 DEF BeginAggregate, DefiniteFull, Importable, config, walk
  <2>2. UNCHANGED <<config, visited, sent, tasks, spare>> /\ touched \subseteq touched'
    BY <1>5 DEF BeginAggregate, bfs
  <2>3. pc = "next" /\ pc' \in {"root", "failed"}
    BY <1>5 DEF BeginAggregate
  <2> QED
    BY <2>1, <2>2, <2>3
<1>6. CASE RootEnd
  BY <1>6, <1>d DEF RootEnd, bfs, walk
<1>7. CASE NextLevel
  BY <1>7, <1>d DEF NextLevel, walk
<1>8. CASE EndAggregate
  BY <1>8, <1>d DEF EndAggregate, bfs, walk
<1>9. CASE EndBfs
  BY <1>9, <1>d DEF EndBfs, bfs, walk
<1>10. CASE AllJoined
  BY <1>10, <1>d DEF AllJoined, bfs, walk
<1>11. CASE UNCHANGED vars
  BY <1>11, <1>d DEF vars, bfs, walk
<1> QED
  BY <1>1, <1>2, <1>3, <1>4, <1>5, <1>6, <1>7, <1>8, <1>9, <1>10, <1>11 DEF Silent

\* A step keeps what is known of the tasks.
LEMMA StreamNext == TypeInv /\ DataInv /\ StreamInv /\ [Next]_vars => StreamInv'
<1> SUFFICES ASSUME TypeInv, DataInv, StreamInv, [Next]_vars PROVE StreamInv'
  OBVIOUS
<1>1. CASE Silent
  <2>1. /\ UNCHANGED <<config, sent>> /\ touched \subseteq touched'
        /\ (\A u : Streamed(u)' <=> Streamed(u)) /\ TasksInv'
    BY <1>1, SilentEffect
  <2>2. UNCHANGED plan /\ Roots' = Roots
    BY <2>1 DEF config, Roots, Aggs
  <2> QED
    BY <2>1, <2>2 DEF StreamInv, TasksInv
<1>2. ASSUME NEW r \in Rows, RootRow(r) PROVE StreamInv'
  <2>1. Emits({r}, "text") /\ TableOf[r] \in touched \cap Roots
    BY <1>2, RootRowEmits
  <2> QED
    BY <1>2, <2>1, EmitStream DEF RootRow, walk
<1>3. ASSUME NEW t \in Tables, NEW c \in Columns, NEW back \in BOOLEAN, Lookup(t, c, back)
      PROVE  StreamInv'
  <2>1. /\ UNCHANGED <<config, pc>> /\ UNCHANGED <<potential, spare, tasks>>
        /\ pc = "level" /\ touched \subseteq touched'
    BY <1>3 DEF Lookup, walk
  <2>2. CASE UNCHANGED <<visited, sent>>
    <3>1. UNCHANGED plan /\ Roots' = Roots /\ DefiniteFull' = DefiniteFull
      BY <2>1 DEF config, Roots, Aggs, DefiniteFull, Importable
    <3>2. \A u : Streamed(u)' <=> Streamed(u)
      BY <2>1, <3>1 DEF Streamed, Planning
    <3> QED
      BY <2>1, <2>2, <3>1, <3>2 DEF StreamInv, TasksInv, Planning
  <2>3. ASSUME NEW R \in SUBSET RowsOf(t), Emits(R, "binary"), t \in touched' \ plan.excluded
        PROVE  StreamInv'
    <3>1. R \subseteq Rows /\ \A r \in R : TableOf[r] \in touched' \ (plan.excluded \ Roots)
      BY <2>3 DEF RowsOf
    <3> QED
      BY <2>1, <2>3, <3>1, EmitStream
  <2> QED
    BY <1>3, <2>2, <2>3, LookupEmits
<1>4. ASSUME NEW t \in Tables, SpareTable(t) PROVE StreamInv'
  <2>1. /\ SendTable(t) /\ UNCHANGED <<config, pc>> /\ UNCHANGED <<potential, touched>>
        /\ tasks' \subseteq tasks /\ spare' \subseteq spare
    BY <1>4 DEF SpareTable, walk, bfs
  <2>2. pc = "spare" /\ \A u : Streamed(u)' <=> Streamed(u) \/ u = t
    BY <1>4, SpareEffect
  <2> QED
    BY <2>1, <2>2, SendTableStream DEF Planning
<1>5. ASSUME NEW t \in Tables, WorkerTable(t) PROVE StreamInv'
  <2>1. /\ SendTable(t) /\ UNCHANGED <<config, pc>> /\ UNCHANGED <<potential, touched>>
        /\ tasks' \subseteq tasks /\ spare' \subseteq spare
    BY <1>5 DEF WorkerTable, walk, bfs
  <2>2. /\ pc \notin Planning \cup {"done", "error"}
        /\ \A u : Streamed(u)' <=> Streamed(u) \/ u = t
    BY <1>5, WorkerEffect
  <2> QED
    BY <2>1, <2>2, SendTableStream
<1> QED
  BY <1>1, <1>2, <1>3, <1>4, <1>5 DEF Next, Bfs, Finished, Silent

\* A step keeps every row sent at most once, when no key is typed differently.
LEMMA OnceNext ==
  ASSUME Typed = {}
  PROVE  TypeInv /\ DataInv /\ DataInv' /\ StreamInv /\ OnceInv /\ [Next]_vars => OnceInv'
<1> SUFFICES ASSUME TypeInv, DataInv, DataInv', StreamInv, OnceInv, [Next]_vars PROVE OnceInv'
  OBVIOUS
<1>1. CASE Silent
  <2>1. /\ UNCHANGED <<visited, sent>> /\ touched \subseteq touched'
        /\ \A u : Streamed(u)' <=> Streamed(u)
    BY <1>1, SilentEffect
  <2> QED
    BY <2>1 DEF OnceInv
<1>2. ASSUME NEW r \in Rows, RootRow(r) PROVE OnceInv'
  <2>1. Emits({r}, "text") /\ TableOf[r] \in touched \cap Roots
    BY <1>2, RootRowEmits
  <2> QED
    BY <1>2, <2>1, EmitOnce DEF RootRow, walk
<1>3. ASSUME NEW t \in Tables, NEW c \in Columns, NEW back \in BOOLEAN, Lookup(t, c, back)
      PROVE  OnceInv'
  <2>1. /\ UNCHANGED <<config, pc>> /\ UNCHANGED <<potential, spare, tasks>>
        /\ pc = "level" /\ touched \subseteq touched'
    BY <1>3 DEF Lookup, walk
  <2>2. CASE UNCHANGED <<visited, sent>>
    <3>1. DefiniteFull' = DefiniteFull
      BY <2>1 DEF config, DefiniteFull, Importable
    <3>2. \A u : Streamed(u)' <=> Streamed(u)
      BY <2>1, <3>1 DEF Streamed, Planning
    <3> QED
      BY <2>1, <2>2, <3>2 DEF OnceInv
  <2>3. ASSUME NEW R \in SUBSET RowsOf(t), Emits(R, "binary"), t \in touched' \ plan.excluded
        PROVE  OnceInv'
    <3>1. R \subseteq Rows /\ \A r \in R : TableOf[r] \in touched'
      BY <2>3 DEF RowsOf
    <3> QED
      BY <2>1, <2>3, <3>1, EmitOnce
  <2> QED
    BY <1>3, <2>2, <2>3, LookupEmits
<1>4. ASSUME NEW t \in Tables, SpareTable(t) PROVE OnceInv'
  <2>1. SendTable(t) /\ UNCHANGED <<visited, touched>>
    BY <1>4 DEF SpareTable, bfs
  <2>2. t \notin touched /\ ~Streamed(t) /\ \A u : Streamed(u)' <=> Streamed(u) \/ u = t
    BY <1>4, SpareEffect
  <2> QED
    BY <2>1, <2>2, SendTableOnce
<1>5. ASSUME NEW t \in Tables, WorkerTable(t) PROVE OnceInv'
  <2>1. SendTable(t) /\ UNCHANGED <<visited, touched>>
    BY <1>5 DEF WorkerTable, bfs
  <2>2. t \notin touched /\ ~Streamed(t) /\ \A u : Streamed(u)' <=> Streamed(u) \/ u = t
    BY <1>5, WorkerEffect
  <2> QED
    BY <2>1, <2>2, SendTableOnce
<1> QED
  BY <1>1, <1>2, <1>3, <1>4, <1>5 DEF Next, Bfs, Finished, Silent

-----------------------------------------------------------------------------
(* The theorems *)

\* Nothing is sent at the start.
LEMMA SendInit == Init => StreamInv /\ OnceInv
BY DEF Init, StreamInv, TasksInv, OnceInv, Streamed, Planning

\* The inductive invariant of the walk, the traversal and the workers.
THEOREM Invariant == Spec => []IInv
<1>1. Init => IInv
  BY TypeInit, ReservedInit, SendInit DEF IInv
<1>2. IInv /\ [Next]_vars => IInv'
  BY TypeNext, StaticNext, DataNext, StreamNext DEF IInv
<1> QED
  BY <1>1, <1>2, PTL DEF Spec

\* Each row is sent at most once by all threads together, if the two MySQL
\* protocols render every key alike (row_pk_key; where they do not, TLC finds a
\* row that is sent twice).
THEOREM RowsSentOnce == ASSUME Typed = {} PROVE Spec => []SentOnce
<1>1. Init => IInv /\ OnceInv
  BY TypeInit, ReservedInit, SendInit DEF IInv
<1>2. IInv /\ OnceInv /\ [Next]_vars => (IInv /\ OnceInv)'
  BY TypeNext, StaticNext, DataNext, StreamNext, OnceNext DEF IInv
<1>3. OnceInv => SentOnce
  BY DEF OnceInv, SentOnce
<1> QED
  BY <1>1, <1>2, <1>3, PTL DEF Spec

\* What a table whose rows no aggregate reads looks like at the end.
LEMMA Untouched ==
  ASSUME IInv, pc = "done", ~plan.aggregatesOnly,
         NEW t \in Importable \ plan.excluded, t \notin touched
  PROVE  \A r \in RowsOf(t) : sent[r] > 0
<1>1. tasks = {} /\ spare = {}
  BY DEF IInv, StreamInv, TasksInv
<1>2. t \in DefiniteFull \/ t \in FalsePositives
  BY DEF DefiniteFull, FalsePositives, Importable
<1>3. Streamed(t)
  BY <1>1, <1>2 DEF Streamed, Planning
<1> QED
  BY <1>3 DEF IInv, StreamInv, RowsOf

\* A full table is complete, and so is every table no aggregate touches, unless
\* a root is itself a full table: stream_all_tables reserves it, and only the
\* rows its root query returns are sent.
THEOREM FullMeansComplete ==
  ASSUME \A p \in Plans : \A i \in 1 .. Len(p.aggregates) : p.aggregates[i].root \notin p.full
  PROVE  Spec => []FullTablesComplete
<1>1. IInv => FullTablesComplete
  <2> SUFFICES ASSUME IInv, pc = "done", ~plan.aggregatesOnly,
                      NEW t \in Importable \ plan.excluded, t \in plan.full \/ t \notin touched
               PROVE  \A r \in RowsOf(t) : sent[r] > 0
    BY DEF FullTablesComplete
  <2>1. Roots \cap plan.full = {}
    BY DEF IInv, TypeInv, ConfigInv, Roots, Aggs
  <2>2. t \notin touched
    BY <2>1 DEF IInv, DataInv
  <2> QED
    BY <2>2, Untouched
<1> QED
  BY <1>1, Invariant, PTL

\* The report is true of what was sent, and the dry run promised it, unless a
\* root is also an exclude_data table, which is reported as excluded although
\* its root rows are sent (run_aggregate_bfs does not look at excluded_tables
\* before the root query).
THEOREM HonestReports ==
  ASSUME \A p \in Plans : \A i \in 1 .. Len(p.aggregates) : p.aggregates[i].root \notin p.excluded
  PROVE  Spec => []ReportsHonest
<1>1. IInv => ReportsHonest
  <2> SUFFICES ASSUME IInv, pc = "done", NEW t \in Importable
               PROVE  /\ Disposition(t) = "Full" => \A r \in RowsOf(t) : sent[r] > 0
                      /\ Disposition(t) \in {"Empty", "Excluded"} =>
                           \A r \in RowsOf(t) : sent[r] = 0
                      /\ Disposition(t) = "Empty" /\ ~plan.aggregatesOnly => RowsOf(t) = {}
                      /\ DryRun(t) = "Full" =>
                           Disposition(t) = IF RowsOf(t) = {} THEN "Empty" ELSE "Full"
                      /\ DryRun(t) = "Excluded" <=> Disposition(t) = "Excluded"
    BY DEF ReportsHonest
  <2>1. Roots \cap plan.excluded = {} /\ plan.aggregatesOnly \in BOOLEAN
    BY PlanType DEF IInv, TypeInv, ConfigInv, Roots, Aggs
  <2>2. \A r \in Rows : sent[r] \in Nat
    BY DEF IInv, TypeInv, BfsType
  <2>3. \A r \in RowsOf(t) : r \in Rows /\ TableOf[r] = t
    BY DEF RowsOf
  <2>4. \A r \in RowsOf(t) : sent[r] > 0 =>
          \/ t \in touched \ plan.excluded
          \/ ~plan.aggregatesOnly /\ t \notin plan.excluded
    BY <2>1, <2>3 DEF IInv, StreamInv, Streamed, DefiniteFull, FalsePositives
  <2>5. ~plan.aggregatesOnly /\ t \notin plan.excluded /\ t \notin touched =>
          \A r \in RowsOf(t) : sent[r] > 0
    BY Untouched
  <2>6. Disposition(t) = "Full" => \A r \in RowsOf(t) : sent[r] > 0
    BY <2>4, <2>5 DEF Disposition, ExcludedSet
  <2>7. Disposition(t) \in {"Empty", "Excluded"} => \A r \in RowsOf(t) : sent[r] = 0
    BY <2>2, <2>3, <2>4 DEF Disposition, ExcludedSet
  <2>8. Disposition(t) = "Empty" /\ ~plan.aggregatesOnly => RowsOf(t) = {}
    BY <2>2, <2>3, <2>5 DEF Disposition, ExcludedSet
  <2>9. DryRun(t) = "Full" => Disposition(t) = IF RowsOf(t) = {} THEN "Empty" ELSE "Full"
    <3>1. SUFFICES ASSUME DryRun(t) = "Full"
                   PROVE  Disposition(t) = IF RowsOf(t) = {} THEN "Empty" ELSE "Full"
      OBVIOUS
    <3>2. t \notin plan.excluded /\ t \notin potential /\ ~plan.aggregatesOnly
      BY <2>1, <3>1 DEF DryRun
    <3>3. t \notin touched
      BY <3>2 DEF IInv, DataInv, Planning
    <3> QED
      BY <2>5, <3>2, <3>3 DEF Disposition, ExcludedSet
  <2>10. DryRun(t) = "Excluded" <=> Disposition(t) = "Excluded"
    BY <2>1 DEF DryRun, Disposition, ExcludedSet
  <2> QED
    BY <2>6, <2>7, <2>8, <2>9, <2>10
<1> QED
  BY <1>1, Invariant, PTL

-----------------------------------------------------------------------------
(* Induction, over sets instead of predicates *)

\* A nonempty set of naturals has a least element.
LEMMA LeastNatural ==
  ASSUME NEW T \in SUBSET Nat, T # {}
  PROVE  \E n \in T : \A m \in T : ~ (m < n)
<1> DEFINE Less == OpToRel(<, Nat)
<1>1. \A x, y \in Nat : <<y, x>> \in Less <=> y < x
  BY DEF OpToRel
<1>2. IsWellFoundedOn(Less, Nat)
  BY NatLessThanWellFounded
<1> HIDE DEF Less
<1>3. PICK n \in T : \A m \in T : ~ (<<m, n>> \in Less)
  BY <1>2, WFMin
<1> QED
  BY <1>1, <1>3

\* Induction over the naturals, stated for a set.
LEMMA Induction ==
  ASSUME NEW S, 0 \in S, \A n \in Nat : n \in S => n + 1 \in S
  PROVE  Nat \subseteq S
<1> SUFFICES ASSUME Nat \ S # {} PROVE FALSE
  OBVIOUS
<1>1. PICK n \in Nat \ S : \A m \in Nat \ S : ~ (m < n)
  BY LeastNatural
<1>2. n - 1 \in Nat
  BY <1>1
<1> QED
  BY <1>1, <1>2

-----------------------------------------------------------------------------
(* Reach is the least set that holds the root rows and is closed *)

Pairs == Rows \X BOOLEAN

Iterates(f, A, step, N) == \A n \in 0 .. N : f[n] = IF n = 0 THEN A ELSE step[f[n - 1]]

\* Iterating a function on sets has a result at every step.
LEMMA Iteration ==
  ASSUME NEW X, NEW A \in SUBSET X, NEW step \in [SUBSET X -> SUBSET X], NEW N \in Nat
  PROVE  \E f \in [0 .. N -> SUBSET X] : Iterates(f, A, step, N)
<1> DEFINE Good(k, f) == Iterates(f, A, step, k)
           S == {k \in Nat : \E f \in [0 .. k -> SUBSET X] : Good(k, f)}
<1> USE DEF Iterates
<1>1. 0 \in S
  <2>1. [n \in 0 .. 0 |-> A] \in [0 .. 0 -> SUBSET X] /\ Good(0, [n \in 0 .. 0 |-> A])
    OBVIOUS
  <2> QED
    BY <2>1
<1>2. ASSUME NEW k \in Nat, k \in S PROVE k + 1 \in S
  <2>1. PICK f \in [0 .. k -> SUBSET X] : Good(k, f)
    BY <1>2
  <2> DEFINE g == [n \in 0 .. k + 1 |-> IF n \in 0 .. k THEN f[n] ELSE step[f[k]]]
  <2>2. f[k] \in SUBSET X /\ step[f[k]] \in SUBSET X
    OBVIOUS
  <2>3. g \in [0 .. k + 1 -> SUBSET X]
    BY <2>2
  <2>4. ASSUME NEW n \in 0 .. k + 1
        PROVE  g[n] = IF n = 0 THEN A ELSE step[g[n - 1]]
    <3>1. CASE n \in 0 .. k
      <4>1. n # 0 => n - 1 \in 0 .. k /\ n - 1 \in 0 .. k + 1
        BY <3>1
      <4> QED
        BY <2>1, <3>1, <4>1
    <3>2. CASE n = k + 1
      <4>1. n # 0 /\ n \notin 0 .. k /\ n - 1 = k /\ k \in 0 .. k /\ k \in 0 .. k + 1
        BY <3>2
      <4> QED
        BY <4>1
    <3> QED
      BY <3>1, <3>2
  <2>5. Good(k + 1, g)
    BY <2>4
  <2> HIDE DEF Good, g
  <2> QED
    BY <2>3, <2>5
<1>3. N \in S
  <2> HIDE DEF S
  <2> QED
    BY <1>1, <1>2, Induction
<1> QED
  BY <1>3

\* One more step from every pair of S.
Layer(i, S) == S \cup UNION {Follow(i, m) : m \in S}

Closed(i, S) == \A m \in S : Follow(i, m) \subseteq S

\* A layer of reachable pairs is a set of pairs.
LEMMA LayerType ==
  ASSUME NEW i, NEW S \in SUBSET Pairs
  PROVE  Layer(i, S) \in SUBSET Pairs
BY DEF Layer, Follow, Pairs

\* There are finitely many pairs, two for each row.
LEMMA PairsFinite ==
  /\ IsFiniteSet(Pairs) /\ Cardinality(Rows) \in Nat
  /\ Cardinality(Pairs) = 2 * Cardinality(Rows)
<1>1. IsFiniteSet({TRUE}) /\ Cardinality({TRUE}) = 1
  BY FS_Singleton
<1>2. IsFiniteSet({TRUE} \cup {FALSE}) /\ Cardinality({TRUE} \cup {FALSE}) = 2
  <2>1. FALSE \notin {TRUE}
    OBVIOUS
  <2>2. /\ IsFiniteSet({TRUE} \cup {FALSE})
        /\ Cardinality({TRUE} \cup {FALSE}) =
             IF FALSE \in {TRUE} THEN Cardinality({TRUE}) ELSE Cardinality({TRUE}) + 1
    BY <1>1, FS_AddElement
  <2>3. Cardinality({TRUE} \cup {FALSE}) = 1 + 1
    BY <1>1, <2>1, <2>2, Zenon
  <2>4. 1 + 1 = 2
    OBVIOUS
  <2> QED
    BY <2>2, <2>3, <2>4, Zenon
<1>3. {TRUE} \cup {FALSE} = BOOLEAN
  OBVIOUS
<1>4. IsFiniteSet(BOOLEAN) /\ Cardinality(BOOLEAN) = 2
  BY <1>2, <1>3
<1>5. IsFiniteSet(Rows) /\ Cardinality(Rows) \in Nat
  BY FS_CardinalityType
<1>6. IsFiniteSet(Pairs) /\ Cardinality(Pairs) = Cardinality(Rows) * Cardinality(BOOLEAN)
  BY <1>4, <1>5, FS_Product DEF Pairs
<1> QED
  BY <1>4, <1>5, <1>6

\* The layers that Reach iterates over.
LEMMA ReachLayers ==
  ASSUME ConfigInv, NEW i \in Aggs
  PROVE  \E R \in [0 .. 2 * Cardinality(Rows) -> SUBSET Pairs] :
           /\ Reach(i) = R[2 * Cardinality(Rows)]
           /\ R[0] = matched[i] \X {TRUE}
           /\ \A n \in 0 .. 2 * Cardinality(Rows) : n # 0 => R[n] = Layer(i, R[n - 1])
<1> DEFINE N == 2 * Cardinality(Rows)
           A == matched[i] \X {TRUE}
           step == [S \in SUBSET Pairs |-> Layer(i, S)]
           Body(f) == [n \in 0 .. N |-> IF n = 0 THEN A ELSE Layer(i, f[n - 1])]
           R == CHOOSE f : f = Body(f)
<1>1. N \in Nat /\ A \in SUBSET Pairs /\ step \in [SUBSET Pairs -> SUBSET Pairs]
  <2>1. matched[i] \subseteq Rows
    BY DEF ConfigInv
  <2>2. step \in [SUBSET Pairs -> SUBSET Pairs]
    BY LayerType
  <2>3. A \in SUBSET Pairs
    BY <2>1 DEF Pairs
  <2>4. N \in Nat
    BY PairsFinite
  <2> QED
    BY <2>2, <2>3, <2>4
<1>2. PICK f \in [0 .. N -> SUBSET Pairs] : Iterates(f, A, step, N)
  <2> HIDE DEF N, A, step
  <2> QED
    BY <1>1, Iteration
<1>3. f = Body(f)
  <2>1. ASSUME NEW n \in 0 .. N PROVE f[n] = IF n = 0 THEN A ELSE Layer(i, f[n - 1])
    <3>1. CASE n = 0
      BY <1>2, <3>1 DEF Iterates
    <3>2. CASE n # 0
      <4>1. n - 1 \in 0 .. N
        BY <1>1, <3>2
      <4>2. f[n] = step[f[n - 1]] /\ f[n - 1] \in SUBSET Pairs
        BY <1>2, <3>2, <4>1 DEF Iterates
      <4> QED
        BY <3>2, <4>2
    <3> QED
      BY <3>1, <3>2
  <2> HIDE DEF N, A
  <2> QED
    BY <2>1
<1>4. R = Body(R)
  <2> HIDE DEF Body
  <2> QED
    BY <1>3
<1>5. Reach(i) = R[N]
  BY DEF Reach, Layer
<1> HIDE DEF R
<1>6. /\ R[0] = A
      /\ \A n \in 0 .. N : n # 0 => R[n] = Layer(i, R[n - 1])
  <2> HIDE DEF N, A
  <2> QED
    BY <1>1, <1>4
<1>7. \A n \in 0 .. N : R[n] \in SUBSET Pairs
  <2> DEFINE S == {n \in Nat : n \in 0 .. N => R[n] \in SUBSET Pairs}
  <2> HIDE DEF N, A
  <2>1. 0 \in S
    BY <1>1, <1>6
  <2>2. ASSUME NEW n \in Nat, n \in S PROVE n + 1 \in S
    <3>1. CASE n + 1 \in 0 .. N
      <4>1. n \in 0 .. N /\ n + 1 # 0 /\ (n + 1) - 1 = n
        BY <1>1, <3>1
      <4>2. R[n + 1] = Layer(i, R[n]) /\ R[n] \in SUBSET Pairs
        BY <1>6, <2>2, <3>1, <4>1
      <4> QED
        BY <4>2, LayerType
    <3>2. CASE n + 1 \notin 0 .. N
      BY <3>2
    <3> QED
      BY <3>1, <3>2
  <2>3. Nat \subseteq S
    <3> HIDE DEF S
    <3> QED
      BY <2>1, <2>2, Induction
  <2> QED
    BY <1>1, <2>3
<1>8. R \in [0 .. N -> SUBSET Pairs]
  <2> HIDE DEF N, A
  <2> QED
    BY <1>4, <1>7
<1> QED
  BY <1>5, <1>6, <1>8

\* A layer that is not closed yet grows: after as many steps as there are pairs
\* nothing is left to add.
LEMMA ReachClosed ==
  ASSUME ConfigInv, NEW i \in Aggs
  PROVE  Reach(i) \subseteq Pairs /\ Closed(i, Reach(i))
<1> DEFINE N == 2 * Cardinality(Rows)
<1>1. N \in Nat /\ IsFiniteSet(Pairs) /\ Cardinality(Pairs) = N
  BY PairsFinite
<1>2. PICK R \in [0 .. N -> SUBSET Pairs] :
             /\ Reach(i) = R[N]
             /\ R[0] = matched[i] \X {TRUE}
             /\ \A n \in 0 .. N : n # 0 => R[n] = Layer(i, R[n - 1])
  BY ReachLayers
<1> HIDE DEF N
<1> DEFINE S == {n \in Nat : n \in 0 .. N => Closed(i, R[n]) \/ Cardinality(R[n]) >= n}
<1>3. \A n \in 0 .. N : IsFiniteSet(R[n]) /\ Cardinality(R[n]) \in Nat
  BY <1>1, FS_Subset, FS_CardinalityType
<1>4. 0 \in S
  BY <1>1, <1>3
<1>5. ASSUME NEW n \in Nat, n \in S PROVE n + 1 \in S
  <2> SUFFICES ASSUME n + 1 \in 0 .. N
               PROVE  Closed(i, R[n + 1]) \/ Cardinality(R[n + 1]) >= n + 1
    OBVIOUS
  <2>1. n \in 0 .. N /\ n + 1 # 0 /\ (n + 1) - 1 = n
    BY <1>1
  <2>2. R[n + 1] = Layer(i, R[n])
    BY <1>2, <2>1
  <2>3. CASE Closed(i, R[n])
    <3>1. R[n + 1] = R[n]
      BY <2>2, <2>3 DEF Layer, Closed
    <3> QED
      BY <2>3, <3>1
  <2>4. CASE ~Closed(i, R[n])
    <3>1. R[n] \subseteq R[n + 1] /\ R[n] # R[n + 1]
      BY <2>2, <2>4 DEF Layer, Closed
    <3>2. Cardinality(R[n]) < Cardinality(R[n + 1])
      <4>1. /\ IsFiniteSet(R[n + 1]) /\ R[n] \in SUBSET R[n + 1]
            /\ Cardinality(R[n]) \in Nat /\ Cardinality(R[n + 1]) \in Nat
        BY <1>3, <2>1, <3>1
      <4>2. /\ Cardinality(R[n]) <= Cardinality(R[n + 1])
            /\ Cardinality(R[n + 1]) = Cardinality(R[n]) => R[n + 1] = R[n]
        BY <4>1, FS_Subset
      <4> QED
        BY <3>1, <4>1, <4>2
    <3>3. Cardinality(R[n]) >= n
      BY <1>5, <2>1, <2>4
    <3> QED
      BY <1>3, <2>1, <3>2, <3>3
  <2> QED
    BY <2>3, <2>4
<1>6. N \in S
  <2> HIDE DEF S
  <2> QED
    BY <1>1, <1>4, <1>5, Induction
<1>7. N \in 0 .. N /\ R[N] \in SUBSET Pairs
  BY <1>1
<1>8. CASE Closed(i, R[N])
  BY <1>2, <1>7, <1>8
<1>9. CASE Cardinality(R[N]) >= N
  <2>1. Cardinality(R[N]) = Cardinality(Pairs)
    <3>1. Cardinality(R[N]) <= Cardinality(Pairs)
      BY <1>1, <1>7, FS_Subset
    <3> QED
      BY <1>1, <1>3, <1>7, <1>9, <3>1
  <2>2. R[N] = Pairs
    BY <1>1, <1>7, <2>1, FS_Subset
  <2> QED
    BY <1>2, <2>2 DEF Closed, Follow, Pairs
<1> QED
  BY <1>6, <1>7, <1>8, <1>9

\* What is reached lies within every closed set that holds the roots.
LEMMA ReachLeast ==
  ASSUME ConfigInv, NEW i \in Aggs, NEW S \in SUBSET Pairs,
         matched[i] \X {TRUE} \subseteq S, Closed(i, S)
  PROVE  Reach(i) \subseteq S
<1> DEFINE N == 2 * Cardinality(Rows)
<1>1. N \in Nat
  BY PairsFinite
<1>2. PICK R \in [0 .. N -> SUBSET Pairs] :
             /\ Reach(i) = R[N]
             /\ R[0] = matched[i] \X {TRUE}
             /\ \A n \in 0 .. N : n # 0 => R[n] = Layer(i, R[n - 1])
  BY ReachLayers
<1> HIDE DEF N
<1> DEFINE Below == {n \in Nat : n \in 0 .. N => R[n] \subseteq S}
<1>3. 0 \in Below
  BY <1>2
<1>4. ASSUME NEW n \in Nat, n \in Below PROVE n + 1 \in Below
  <2> SUFFICES ASSUME n + 1 \in 0 .. N PROVE R[n + 1] \subseteq S
    OBVIOUS
  <2>1. n \in 0 .. N /\ n + 1 # 0 /\ (n + 1) - 1 = n
    BY <1>1
  <2>2. R[n + 1] = Layer(i, R[n]) /\ R[n] \subseteq S
    BY <1>2, <1>4, <2>1
  <2> QED
    BY <2>2 DEF Layer, Closed
<1>5. N \in Below
  <2> HIDE DEF Below
  <2> QED
    BY <1>1, <1>3, <1>4, Induction
<1> QED
  BY <1>1, <1>2, <1>5

\* The matched roots are reached.
LEMMA ReachRoots ==
  ASSUME ConfigInv, NEW i \in Aggs
  PROVE  matched[i] \X {TRUE} \subseteq Reach(i)
<1> DEFINE N == 2 * Cardinality(Rows)
<1>1. N \in Nat
  BY PairsFinite
<1>2. PICK R \in [0 .. N -> SUBSET Pairs] :
             /\ Reach(i) = R[N]
             /\ R[0] = matched[i] \X {TRUE}
             /\ \A n \in 0 .. N : n # 0 => R[n] = Layer(i, R[n - 1])
  BY ReachLayers
<1> HIDE DEF N
<1> DEFINE Above == {n \in Nat : n \in 0 .. N => R[0] \subseteq R[n]}
<1>3. 0 \in Above
  OBVIOUS
<1>4. ASSUME NEW n \in Nat, n \in Above PROVE n + 1 \in Above
  <2> SUFFICES ASSUME n + 1 \in 0 .. N PROVE R[0] \subseteq R[n + 1]
    OBVIOUS
  <2>1. n \in 0 .. N /\ n + 1 # 0 /\ (n + 1) - 1 = n
    BY <1>1
  <2>2. R[n + 1] = Layer(i, R[n]) /\ R[0] \subseteq R[n]
    BY <1>2, <1>4, <2>1
  <2> QED
    BY <2>2 DEF Layer
<1>5. N \in Above
  <2> HIDE DEF Above
  <2> QED
    BY <1>1, <1>3, <1>4, Induction
<1>6. N \in 0 .. N
  BY <1>1
<1>7. R[0] \subseteq R[N]
  BY <1>5, <1>6
<1> QED
  BY <1>2, <1>7

-----------------------------------------------------------------------------
(* The traversal sends exactly the rows the relations lead to *)

\* What an aggregate reaches: the least closed set with the rows it matched.
LeastClosed(i, S) ==
  /\ S \in SUBSET Pairs /\ Closed(i, S) /\ matched[i] \X {TRUE} \subseteq S
  /\ \A T \in SUBSET Pairs : matched[i] \X {TRUE} \subseteq T /\ Closed(i, T) => S \subseteq T

\* What an aggregate reaches is the least closed set that holds its roots.
LEMMA ReachLeastClosed == ConfigInv => \A i \in Aggs : LeastClosed(i, Reach(i))
BY ReachClosed, ReachLeast, ReachRoots DEF LeastClosed

\* It depends on the plan and the data alone.
LEMMA ReachFixed ==
  ASSUME ConfigInv, UNCHANGED config
  PROVE  /\ \A i \in Aggs : Reach(i)' = Reach(i)
         /\ Wanted' = Wanted
<1>1. plan' = plan /\ val' = val /\ matched' = matched /\ Aggs' = Aggs
  BY DEF config, Aggs
<1>2. (ConfigInv => \A i \in Aggs : LeastClosed(i, Reach(i)))'
  BY ReachLeastClosed, PTL
<1>3. ConfigInv'
  BY <1>1 DEF ConfigInv, RowsOf
<1>4. ASSUME NEW i \in Aggs PROVE Reach(i)' = Reach(i)
  <2>2. Followed' = Followed
    BY <1>1 DEF Followed
  <2>3. Reachable(i)' = Reachable(i)
    BY <1>1 DEF Reachable, Importable
  <2>4. \A m : Follow(i, m)' = Follow(i, m)
    BY <1>1, <2>2, <2>3 DEF Follow, Joined
  <2>5. \A S : Closed(i, S)' <=> Closed(i, S)
    BY <2>4 DEF Closed
  <2>7. LeastClosed(i, Reach(i)) /\ LeastClosed(i, Reach(i))'
    BY <1>1, <1>2, <1>3, ReachLeastClosed
  <2> QED
    BY <1>1, <2>5, <2>7 DEF LeastClosed
<1> QED
  BY <1>1, <1>4 DEF Wanted, Aggs

\* The pairs of a set of rows with TRUE.
LEMMA PairWith ==
  ASSUME NEW A, NEW m \in A \X {TRUE}
  PROVE  \E r \in A : m = <<r, TRUE>>
<1>1. PICK b \in BOOLEAN : b = TRUE
  OBVIOUS
<1>2. m \in A \X {b}
  BY <1>1
<1>3. \E r \in A : m = <<r, b>>
  BY <1>2
<1> QED
  BY <1>1, <1>3

\* The wanted rows are those some aggregate reaches.
LEMMA WantedRows ==
  /\ \A i \in Aggs : \A r, b : <<r, b>> \in Reach(i) => r \in Wanted
  /\ \A r \in Wanted : \E i \in Aggs : \E m \in Reach(i) : r = m[1]
<1>1. ASSUME NEW i \in Aggs, NEW r, NEW b, <<r, b>> \in Reach(i) PROVE r \in Wanted
  <2>1. r \in {m[1] : m \in Reach(i)}
    BY <1>1
  <2> QED
    BY <2>1 DEF Wanted, Aggs
<1> QED
  BY <1>1 DEF Wanted, Aggs

\* The relations the traversal follows are those the reference follows.
LEMMA RelationsFollowed ==
  ASSUME ConfigInv
  PROVE  Relations = Followed
<1>1. ASSUME NEW k \in Constraints, Cardinality(k) = 1, NEW rel \in k
      PROVE  {rel} \in Constraints
  <2>1. IsFiniteSet(k) /\ IsFiniteSet({rel}) /\ Cardinality({rel}) = 1
    BY FS_Singleton
  <2>2. {rel} \in SUBSET k
    BY <1>1
  <2>3. {rel} = k
    BY <1>1, <2>1, <2>2, FS_Subset
  <2> QED
    BY <2>3
<1>2. ASSUME NEW rel, {rel} \in Constraints
      PROVE  rel \in Discovered
  <2>1. Cardinality({rel}) = 1
    BY FS_Singleton
  <2> QED
    BY <1>2, <2>1 DEF Discovered
<1>3. \A rel \in Discovered : {rel} \in Constraints
  BY <1>1 DEF Discovered
<1>4. \A rel \in Discovered : rel \in UNION Constraints
  BY DEF Discovered
<1> QED
  BY <1>2, <1>3, <1>4 DEF Relations, Followed

\* The pairs that the look-ups E of aggregate i ask for.
Answers(i, E) ==
  {m \in Pairs :
     /\ TableOf[m[1]] \in Reachable(i)
     /\ \E e \in E : e.table = TableOf[m[1]] /\ e.back = m[2] /\ val[m[1]][e.column] = e.value}

\* The look-ups a row leads to ask for the rows it is related to, no more and no
\* less.
LEMMA ForwardAnswers ==
  ASSUME TypeInv, a \in Aggs, ~Agg.rootOnly, NEW r \in Rows, TableOf[r] \in Importable
  PROVE  Answers(a, ForwardValues(r)) = Follow(a, <<r, FALSE>>)
<1>c. ConfigInv /\ Agg = plan.aggregates[a] /\ Relations = Followed
  BY RelationsFollowed DEF TypeInv, Agg
<1>1. ASSUME NEW m \in Answers(a, ForwardValues(r))
      PROVE  m \in Follow(a, <<r, FALSE>>)
  <2>1. PICK e \in ForwardValues(r) :
          e.table = TableOf[m[1]] /\ e.back = m[2] /\ val[m[1]][e.column] = e.value
    BY DEF Answers
  <2>2. PICK rel \in Forward(TableOf[r]) :
          e.table = rel.to /\ e.column = rel.toCol /\ e.back = FALSE
            /\ e.value = val[r][rel.fromCol] /\ val[r][rel.fromCol] # Null
    BY <1>c, ForwardEntry
  <2>3. rel \in Followed /\ rel.from = TableOf[r]
    BY <1>c DEF Forward
  <2>4. Joined(rel, r, m[1])
    BY <2>1, <2>2, <2>3 DEF Joined
  <2>5. m \in Rows \X BOOLEAN /\ TableOf[m[1]] \in Reachable(a) /\ ~m[2]
    BY <2>1, <2>2 DEF Answers, Pairs
  <2> QED
    BY <1>c, <2>3, <2>4, <2>5 DEF Follow
<1>2. ASSUME NEW m \in Follow(a, <<r, FALSE>>)
      PROVE  m \in Answers(a, ForwardValues(r))
  <2>1. /\ m \in Rows \X BOOLEAN /\ TableOf[m[1]] \in Reachable(a)
        /\ \E rel \in Followed : ~m[2] /\ Joined(rel, r, m[1])
    BY DEF Follow
  <2>2. PICK rel \in Followed : ~m[2] /\ Joined(rel, r, m[1])
    BY <2>1
  <2>3. rel \in Forward(TableOf[r])
    BY <1>c, <2>1, <2>2 DEF Forward, Joined, Reachable
  <2> DEFINE e == [table |-> rel.to, column |-> rel.toCol, back |-> FALSE,
                   value |-> val[r][rel.fromCol]]
  <2>4. e \in ForwardValues(r)
    BY <2>2, <2>3 DEF ForwardValues, Joined
  <2>5. m[2] = FALSE
    BY <2>1, <2>2
  <2>6. e.table = TableOf[m[1]] /\ e.back = m[2] /\ val[m[1]][e.column] = e.value
    BY <2>2, <2>5 DEF Joined
  <2> QED
    BY <2>1, <2>4, <2>6 DEF Answers, Pairs
<1> QED
  BY <1>1, <1>2

\* The lookups queued for a row met backward answer what the reference follows from it.
LEMMA BackwardAnswers ==
  ASSUME TypeInv, a \in Aggs, ~Agg.rootOnly, NEW r \in Rows, TableOf[r] \in Importable
  PROVE  /\ Answers(a, BackwardValues(r)) \subseteq Follow(a, <<r, TRUE>>)
         /\ Follow(a, <<r, TRUE>>) \subseteq
              Answers(a, BackwardValues(r)) \cup Follow(a, <<r, FALSE>>)
         /\ Follow(a, <<r, FALSE>>) \subseteq Follow(a, <<r, TRUE>>)
<1>c. ConfigInv /\ Agg = plan.aggregates[a] /\ Relations = Followed
  BY RelationsFollowed DEF TypeInv, Agg
<1>1. ASSUME NEW m \in Answers(a, BackwardValues(r))
      PROVE  m \in Follow(a, <<r, TRUE>>)
  <2>1. PICK e \in BackwardValues(r) :
          e.table = TableOf[m[1]] /\ e.back = m[2] /\ val[m[1]][e.column] = e.value
    BY DEF Answers
  <2>2. PICK rel \in Backward(TableOf[r]) :
          e.table = rel.from /\ e.column = rel.fromCol /\ e.back = TRUE
            /\ e.value = val[r][rel.toCol] /\ val[r][rel.toCol] # Null
    BY <1>c, BackwardEntry
  <2>3. rel \in Followed /\ rel.to = TableOf[r]
    BY <1>c DEF Backward
  <2>4. Joined(rel, m[1], r)
    BY <2>1, <2>2, <2>3 DEF Joined
  <2>5. m \in Rows \X BOOLEAN /\ TableOf[m[1]] \in Reachable(a) /\ m[2]
    BY <2>1, <2>2 DEF Answers, Pairs
  <2> QED
    BY <1>c, <2>3, <2>4, <2>5 DEF Follow
<1>2. ASSUME NEW m \in Follow(a, <<r, TRUE>>), m[2]
      PROVE  m \in Answers(a, BackwardValues(r))
  <2>1. /\ m \in Rows \X BOOLEAN /\ TableOf[m[1]] \in Reachable(a)
        /\ \E rel \in Followed : Joined(rel, m[1], r)
    BY <1>2 DEF Follow
  <2>2. PICK rel \in Followed : Joined(rel, m[1], r)
    BY <2>1
  <2>3. rel \in Backward(TableOf[r])
    BY <1>c, <2>1, <2>2 DEF Backward, Joined, Reachable
  <2> DEFINE e == [table |-> rel.from, column |-> rel.fromCol, back |-> TRUE,
                   value |-> val[r][rel.toCol]]
  <2>4. e \in BackwardValues(r)
    BY <2>2, <2>3 DEF BackwardValues, Joined
  <2>5. m[2] = TRUE
    BY <1>2, <2>1
  <2>6. e.table = TableOf[m[1]] /\ e.back = m[2] /\ val[m[1]][e.column] = e.value
    BY <2>2, <2>5 DEF Joined
  <2> QED
    BY <2>1, <2>4, <2>6 DEF Answers, Pairs
<1>3. ASSUME NEW m \in Follow(a, <<r, TRUE>>), ~m[2]
      PROVE  m \in Follow(a, <<r, FALSE>>)
  BY <1>3 DEF Follow
<1>4. Follow(a, <<r, FALSE>>) \subseteq Follow(a, <<r, TRUE>>)
  BY DEF Follow
<1> QED
  BY <1>1, <1>2, <1>3, <1>4

\* Whatever pair n is related to has been met, or a look-up is under way for it.
Settled(i, W, n) == Follow(i, n) \subseteq W \cup Answers(i, pending \cup current)

\* The pairs W that aggregate i has met so far: all of them reachable, sent and
\* settled, and so is every row that will not be expanded again.
Met(i, W) ==
  /\ W \subseteq Reach(i)
  /\ \A r \in matched[i] : <<r, TRUE>> \in W \/ r \in rootTodo
  /\ \A m \in W : sent[m[1]] > 0 /\ Settled(i, W, m)
  /\ \A k \in expandedFwd : Settled(i, W, <<k[1], FALSE>>)
  /\ \A k \in expandedBwd : Settled(i, W, <<k[1], TRUE>>)

\* Nothing but what the relations lead to was sent by the traversal.
SoundInv ==
  /\ \A k \in visited : k[1] \in Rows /\ sent[k[1]] > 0
  /\ \A r \in Rows : sent[r] > 0 => Streamed(TableOf[r]) \/ r \in Wanted

\* The aggregates that are through have sent all of it.
ThroughInv ==
  /\ pc \notin Planning =>
       \A i \in Aggs : i < a => /\ plan.aggregates[i].root \in Importable
                                /\ \A m \in Reach(i) : sent[m[1]] > 0
  /\ pc \in {"spare", "done"} => LastAgg

MetInv ==
  pc \in {"root", "level"} =>
    /\ Agg.root \in Importable
    /\ rootTodo \subseteq matched[a] /\ (pc = "level" => rootTodo = {})
    /\ Answers(a, pending \cup current) \subseteq Reach(a)
    /\ \E W \in SUBSET Pairs : Met(a, W)

\* More lookups have more answers.
LEMMA AnswersMono ==
  ASSUME NEW i, NEW E, NEW D, E \subseteq D
  PROVE  Answers(i, E) \subseteq Answers(i, D)
BY DEF Answers

\* The answers depend on the next state only through its lookups.
LEMMA AnswersFixed ==
  ASSUME NEW i, UNCHANGED config
  PROVE  Answers(i, pending \cup current)' = Answers(i, pending' \cup current')
<1>1. plan' = plan /\ val' = val
  BY DEF config
<1>2. Reachable(i)' = Reachable(i)
  BY <1>1 DEF Reachable, Importable
<1> QED
  BY <1>1, <1>2 DEF Answers

\* What follows from a pair is fixed by the configuration.
LEMMA FollowFixed ==
  ASSUME NEW i, NEW n, UNCHANGED config
  PROVE  Follow(i, n)' = Follow(i, n)
<1>1. plan' = plan /\ val' = val
  BY DEF config
<1>2. Reachable(i)' = Reachable(i) /\ Followed' = Followed
  BY <1>1 DEF Reachable, Importable, Followed
<1> QED
  BY <1>1, <1>2 DEF Follow, Joined

\* A settled pair stays settled while what was asked for is met or still asked
\* for.
LEMMA SettledMono ==
  ASSUME UNCHANGED config, NEW i, NEW W, NEW V, NEW n, W \subseteq V, Settled(i, W, n),
         Answers(i, pending \cup current) \subseteq V \cup Answers(i, pending' \cup current')
  PROVE  Settled(i, V, n)'
<1>1. Follow(i, n)' = Follow(i, n)
  BY FollowFixed
<1>2. Answers(i, pending \cup current)' = Answers(i, pending' \cup current')
  BY AnswersFixed
<1> QED
  BY <1>1, <1>2 DEF Settled

\* What the look-ups ask for is reachable if the rows that asked are.
LEMMA ReceiveSound ==
  ASSUME TypeInv, a \in Aggs, ~Agg.rootOnly, NEW R \in SUBSET Rows, NEW back \in BOOLEAN,
         NEW protocol, Receive(R, protocol, back, pending),
         \A r \in R : TableOf[r] \in Importable /\ <<r, back>> \in Reach(a),
         Answers(a, pending \cup current) \subseteq Reach(a),
         current' \subseteq current
  PROVE  Answers(a, pending' \cup current') \subseteq Reach(a)
<1>1. \A e \in pending' : \/ e \in pending
                          \/ \E r \in R : e \in ForwardValues(r)
                          \/ back /\ \E r \in R : e \in BackwardValues(r)
  BY ReceiveAdds DEF TypeInv
<1>2. Closed(a, Reach(a))
  BY ReachClosed DEF TypeInv
<1>3. ASSUME NEW r \in R
      PROVE  /\ Answers(a, ForwardValues(r)) \subseteq Reach(a)
             /\ back => Answers(a, BackwardValues(r)) \subseteq Reach(a)
  <2>1. Follow(a, <<r, back>>) \subseteq Reach(a)
    BY <1>2 DEF Closed
  <2>2. Follow(a, <<r, FALSE>>) \subseteq Follow(a, <<r, back>>)
    BY BackwardAnswers
  <2>3. Answers(a, ForwardValues(r)) \subseteq Reach(a)
    BY <2>1, <2>2, ForwardAnswers
  <2>4. Answers(a, BackwardValues(r)) \subseteq Follow(a, <<r, TRUE>>)
    BY BackwardAnswers
  <2> QED
    BY <2>1, <2>3, <2>4
<1>4. ASSUME NEW m \in Answers(a, pending' \cup current')
      PROVE  m \in Reach(a)
  <2>1. PICK e \in pending' \cup current' : m \in Answers(a, {e})
    BY DEF Answers
  <2>2. CASE e \in pending \cup current
    <3>1. Answers(a, {e}) \subseteq Answers(a, pending \cup current)
      BY <2>2, AnswersMono
    <3> QED
      BY <2>1, <3>1
  <2>3. ASSUME NEW r \in R, e \in ForwardValues(r) PROVE m \in Reach(a)
    <3>1. Answers(a, {e}) \subseteq Answers(a, ForwardValues(r))
      BY <2>3, AnswersMono
    <3> QED
      BY <1>3, <2>1, <3>1
  <2>4. ASSUME back, NEW r \in R, e \in BackwardValues(r) PROVE m \in Reach(a)
    <3>1. Answers(a, {e}) \subseteq Answers(a, BackwardValues(r))
      BY <2>4, AnswersMono
    <3> QED
      BY <1>3, <2>1, <2>4, <3>1
  <2> QED
    BY <1>1, <2>2, <2>3, <2>4
<1> QED
  BY <1>4

\* What a step sends of the rows it meets, all of it reachable.
LEMMA EmitSound ==
  ASSUME TypeInv, SoundInv, a \in Aggs, UNCHANGED config,
         \A u : Streamed(u)' <=> Streamed(u),
         NEW R \in SUBSET Rows, NEW protocol, Emits(R, protocol),
         \A r \in R : \E b \in BOOLEAN : <<r, b>> \in Reach(a)
  PROVE  /\ SoundInv' /\ \A r \in Rows : sent[r] > 0 => sent'[r] > 0
         /\ \A r \in R : sent'[r] > 0
<1>1. \A r \in Rows : /\ sent[r] \in Nat
                      /\ sent'[r] = IF r \in R /\ Key(r, protocol) \notin visited
                                    THEN sent[r] + 1 ELSE sent[r]
  BY DEF Emits, TypeInv, BfsType
<1>2. \A r \in Rows : sent[r] > 0 => sent'[r] > 0
  BY <1>1
<1>3. \A r : Key(r, protocol)[1] = r
  BY DEF Key
<1>4. \A r \in R : sent'[r] > 0
  <2> SUFFICES ASSUME NEW r \in R PROVE sent'[r] > 0
    OBVIOUS
  <2>1. Key(r, protocol) \in visited => sent[r] > 0
    BY <1>3 DEF SoundInv
  <2> QED
    BY <1>1, <2>1
<1>5. \A k \in visited' : k[1] \in Rows /\ sent'[k[1]] > 0
  <2>1. \A k \in visited' : k \in visited \/ \E r \in R : k = Key(r, protocol)
    BY DEF Emits
  <2> QED
    BY <1>2, <1>3, <1>4, <2>1 DEF SoundInv
<1>6. Wanted' = Wanted /\ \A r \in R : r \in Wanted
  <2>1. Wanted' = Wanted
    BY ReachFixed DEF TypeInv
  <2> QED
    BY <2>1, WantedRows
<1>7. \A r \in Rows : sent'[r] > 0 => sent[r] > 0 \/ r \in R
  BY <1>1
<1>8. \A r \in Rows : sent'[r] > 0 => Streamed(TableOf[r])' \/ r \in Wanted'
  BY <1>6, <1>7 DEF SoundInv
<1> QED
  BY <1>2, <1>4, <1>5, <1>8 DEF SoundInv

\* Receiving reachable rows: they are met, and their lookups ask for reachable rows only.
LEMMA ReceiveMet ==
  ASSUME TypeInv, SoundInv, NEW i \in Aggs, i = a, ~Agg.rootOnly, UNCHANGED <<config, a>>,
         \A u : Streamed(u)' <=> Streamed(u),
         NEW R \in SUBSET Rows, NEW back \in BOOLEAN, NEW protocol,
         Receive(R, protocol, back, pending), current' \subseteq current,
         \A r \in R : TableOf[r] \in Importable /\ <<r, back>> \in Reach(a),
         \A m \in Answers(a, current \ current') : m \in R \X {back},
         \A r \in rootTodo : r \in rootTodo' \/ (r \in R /\ back = TRUE),
         Answers(a, pending \cup current) \subseteq Reach(a),
         NEW W \in SUBSET Pairs, Met(i, W)
  PROVE  /\ \E V \in SUBSET Pairs : Met(i, V)'
         /\ Answers(i, pending \cup current)' \subseteq Reach(i)'
<1> DEFINE V == W \cup (R \X {back})
<1>1. V \in SUBSET Pairs /\ W \subseteq V /\ \A r \in R : <<r, back>> \in V
  BY DEF Pairs
<1>2. /\ \A r \in Rows : sent[r] > 0 => sent'[r] > 0
      /\ \A r \in R : sent'[r] > 0
  <2>1. Emits(R, protocol)
    BY ReceiveEmits
  <2> QED
    BY <2>1, EmitSound
<1>3. Reach(i)' = Reach(i) /\ matched' = matched
  BY ReachFixed DEF TypeInv, config
<1>4. Answers(i, pending \cup current) \subseteq V \cup Answers(i, pending' \cup current')
  <2> SUFFICES ASSUME NEW m \in Answers(i, pending \cup current),
                      m \notin Answers(i, pending' \cup current')
               PROVE  m \in V
    OBVIOUS
  <2>1. PICK e \in pending \cup current : m \in Answers(i, {e})
    BY DEF Answers
  <2>2. e \notin pending' \cup current'
    <3> SUFFICES ASSUME e \in pending' \cup current' PROVE FALSE
      OBVIOUS
    <3>1. Answers(i, {e}) \subseteq Answers(i, pending' \cup current')
      BY AnswersMono
    <3> QED
      BY <2>1, <3>1
  <2>3. pending \subseteq pending'
    BY ReceiveAdds DEF TypeInv
  <2>4. e \in current \ current'
    BY <2>2, <2>3
  <2>5. Answers(i, {e}) \subseteq Answers(i, current \ current')
    BY <2>4, AnswersMono
  <2> QED
    BY <2>1, <2>5
<1>5. V \subseteq Reach(i)'
  BY <1>3 DEF Met
<1>6. \A r \in matched'[i] : <<r, TRUE>> \in V \/ r \in rootTodo'
  BY <1>1, <1>3 DEF Met
<1>7. \A r \in R : /\ Follow(i, <<r, FALSE>>) \subseteq V \cup Answers(i, pending' \cup current')
                   /\ back => Follow(i, <<r, TRUE>>) \subseteq V \cup Answers(i, pending' \cup current')
  <2> HIDE DEF V
  <2>m. Met(a, W) /\ W \subseteq V /\ a \in Aggs /\ UNCHANGED config
    BY <1>1
  <2>a. Answers(a, pending \cup current) \subseteq V \cup Answers(a, pending' \cup current')
    BY <1>4
  <2> SUFFICES ASSUME NEW r \in R
               PROVE  /\ Follow(a, <<r, FALSE>>) \subseteq V \cup Answers(a, pending' \cup current')
                      /\ back => Follow(a, <<r, TRUE>>) \subseteq V \cup Answers(a, pending' \cup current')
    OBVIOUS
  <2>k. Key(r, protocol)[1] = r
    BY DEF Key
  <2>1. Follow(a, <<r, FALSE>>) \subseteq V \cup Answers(a, pending' \cup current')
    <3>0. Answers(a, ForwardValues(r)) = Follow(a, <<r, FALSE>>)
      BY <2>m, ForwardAnswers
    <3>1. CASE Forward(TableOf[r]) = {}
      <4>1. ForwardValues(r) = {}
        BY <3>1 DEF ForwardValues
      <4> QED
        BY <3>0, <4>1 DEF Answers
    <3>2. CASE Key(r, protocol) \in expandedFwd
      BY <2>k, <2>m, <2>a, <3>2 DEF Met, Settled
    <3>3. CASE Forward(TableOf[r]) # {} /\ Key(r, protocol) \notin expandedFwd
      <4>1. ForwardValues(r) \subseteq pending' \cup current'
        BY <3>3 DEF Receive, Expands
      <4> QED
        BY <3>0, <4>1, AnswersMono
    <3> QED
      BY <3>1, <3>2, <3>3
  <2>2. ASSUME back PROVE Follow(a, <<r, TRUE>>) \subseteq V \cup Answers(a, pending' \cup current')
    <3>0. Follow(a, <<r, TRUE>>) \subseteq
                Answers(a, BackwardValues(r)) \cup Follow(a, <<r, FALSE>>)
      BY <2>m, BackwardAnswers
    <3>1. CASE Backward(TableOf[r]) = {}
      <4>1. BackwardValues(r) = {}
        BY <3>1 DEF BackwardValues
      <4> QED
        BY <2>1, <3>0, <4>1 DEF Answers
    <3>2. CASE Key(r, protocol) \in expandedBwd
      BY <2>k, <2>m, <2>a, <3>2 DEF Met, Settled
    <3>3. CASE Backward(TableOf[r]) # {} /\ Key(r, protocol) \notin expandedBwd
      <4>1. BackwardValues(r) \subseteq pending' \cup current'
        BY <2>2, <3>3 DEF Receive, Expands
      <4>2. Answers(a, BackwardValues(r)) \subseteq Answers(a, pending' \cup current')
        BY <4>1, AnswersMono
      <4> QED
        BY <2>1, <3>0, <4>2
    <3> QED
      BY <3>1, <3>2, <3>3
  <2> QED
    BY <2>1, <2>2
<1>8. \A n : Follow(i, n) \subseteq V \cup Answers(i, pending' \cup current') => Settled(i, V, n)'
  <2> HIDE DEF V
  <2>1. Answers(i, pending \cup current)' = Answers(i, pending' \cup current')
    BY AnswersFixed
  <2>2. \A n : Follow(i, n)' = Follow(i, n)
    BY FollowFixed
  <2> QED
    BY <2>1, <2>2 DEF Settled
<1>9. \A n : Settled(i, W, n) => Settled(i, V, n)'
  <2> HIDE DEF V
  <2> QED
    BY <1>1, <1>4, SettledMono
<1>10. ASSUME NEW m \in V PROVE sent'[m[1]] > 0 /\ Settled(i, V, m)'
  <2>1. CASE m \in W
    BY <1>2, <1>9, <2>1 DEF Met, Pairs
  <2>2. CASE m \in R \X {back}
    <3>1. PICK r \in R : m = <<r, back>>
      BY <2>2
    <3>2. Follow(i, m) \subseteq V \cup Answers(i, pending' \cup current')
      <4>1. CASE back = TRUE
        BY <1>7, <3>1, <4>1
      <4>2. CASE back = FALSE
        BY <1>7, <3>1, <4>2
      <4> QED
        BY <4>1, <4>2
    <3> QED
      BY <1>2, <1>8, <3>1, <3>2
  <2> QED
    BY <2>1, <2>2
<1>11. ASSUME NEW k \in expandedFwd' PROVE Settled(i, V, <<k[1], FALSE>>)'
  <2>1. CASE k \in expandedFwd
    BY <1>9, <2>1 DEF Met
  <2>2. CASE k \notin expandedFwd
    <3>1. PICK r \in R : k = Key(r, protocol)
      BY <2>2 DEF Receive
    <3>2. k[1] = r
      BY <3>1 DEF Key
    <3> QED
      BY <1>7, <1>8, <3>2
  <2> QED
    BY <2>1, <2>2
<1>12. ASSUME NEW k \in expandedBwd' PROVE Settled(i, V, <<k[1], TRUE>>)'
  <2>1. CASE k \in expandedBwd
    BY <1>9, <2>1 DEF Met
  <2>2. CASE k \notin expandedBwd
    <3>1. PICK r \in R : k = Key(r, protocol) /\ back
      BY <2>2 DEF Receive
    <3>2. k[1] = r
      BY <3>1 DEF Key
    <3> QED
      BY <1>7, <1>8, <3>1, <3>2
  <2> QED
    BY <2>1, <2>2
<1>13. Met(i, V)'
  <2> HIDE DEF V
  <2> QED
    BY <1>5, <1>6, <1>10, <1>11, <1>12 DEF Met
<1>14. Answers(i, pending \cup current)' \subseteq Reach(i)'
  <2>1. Answers(a, pending' \cup current') \subseteq Reach(a)
    BY ReceiveSound
  <2>2. Answers(i, pending \cup current)' = Answers(i, pending' \cup current')
    BY AnswersFixed
  <2> QED
    BY <1>3, <2>1, <2>2
<1> QED
  BY <1>1, <1>13, <1>14

\* A step that leaves the aggregate under way alone.
LEMMA MetFrame ==
  ASSUME TypeInv, MetInv, pc \in {"root", "level"}, pc' \in {"root", "level"},
         pc' = "level" => rootTodo = {}, UNCHANGED <<config, a, rootTodo>>,
         UNCHANGED <<expandedFwd, expandedBwd>>,
         Answers(a, pending' \cup current') = Answers(a, pending \cup current),
         \A r \in Rows : sent[r] > 0 => sent'[r] > 0
  PROVE  MetInv'
<1>1. /\ a \in Aggs /\ plan' = plan /\ matched' = matched /\ Agg' = Agg
      /\ Importable' = Importable /\ UNCHANGED config
  BY DEF TypeInv, config, Agg, Importable
<1>2. PICK W \in SUBSET Pairs : Met(a, W)
  BY DEF MetInv
<1>3. ASSUME NEW i \in Aggs, i = a
      PROVE  Met(i, W)' /\ Answers(i, pending \cup current)' \subseteq Reach(i)'
  <2>1. Reach(i)' = Reach(i)
    BY <1>1, ReachFixed DEF TypeInv
  <2>2. Answers(i, pending \cup current)' = Answers(i, pending \cup current)
    BY <1>1, <1>3, AnswersFixed
  <2>3. \A n : Settled(i, W, n) => Settled(i, W, n)'
    BY <1>1, <1>3, SettledMono
  <2>4. Answers(i, pending \cup current) \subseteq Reach(i)
    BY <1>3 DEF MetInv
  <2>5. Met(i, W)'
    BY <1>1, <1>2, <1>3, <2>1, <2>3 DEF Met, Pairs
  <2> QED
    BY <2>1, <2>2, <2>4, <2>5
<1>4. PICK i \in Aggs : i = a /\ i = a'
  BY <1>1
<1>5. Answers(a, pending \cup current)' \subseteq Reach(a)' /\ Met(a, W)'
  BY <1>3, <1>4
<1> QED
  BY <1>1, <1>5 DEF MetInv

\* At the start of an aggregate nothing but its roots is owed.
LEMMA BeginAggregateMet ==
  ASSUME TypeInv, DataInv, BeginAggregate
  PROVE  MetInv'
<1>1. CASE Agg.root \notin Importable
  BY <1>1 DEF BeginAggregate, MetInv
<1>2. CASE Agg.root \in Importable
  <2>1. /\ UNCHANGED config /\ a' = a /\ rootTodo' = matched[a] /\ pc' = "root"
        /\ pending' = {} /\ current' = {} /\ expandedFwd' = {} /\ expandedBwd' = {}
    BY <1>2 DEF BeginAggregate, FreshExpansion
  <2>2. Agg' = Agg /\ Importable' = Importable /\ matched' = matched
    BY <2>1 DEF config, Agg, Importable
  <2>3. Answers(a, pending \cup current)' = {}
    BY <2>1 DEF Answers
  <2>4. Met(a, {})'
    BY <2>1, <2>2 DEF Met
  <2> QED
    BY <1>2, <2>1, <2>2, <2>3, <2>4 DEF MetInv
<1> QED
  BY <1>1, <1>2

\* A row of the root query keeps the traversal exact.
LEMMA RootRowExact ==
  ASSUME TypeInv, DataInv, SoundInv, MetInv, NEW r \in Rows, RootRow(r)
  PROVE  SoundInv' /\ MetInv' /\ \A s \in Rows : sent[s] > 0 => sent'[s] > 0
<1>1. /\ pc = "root" /\ pc' = "root" /\ UNCHANGED <<a, current>> /\ UNCHANGED config
      /\ rootTodo' = rootTodo \ {r} /\ r \in rootTodo /\ UNCHANGED <<potential, spare, tasks>>
  BY DEF RootRow, walk
<1>2. /\ a \in Aggs /\ Agg = plan.aggregates[a] /\ Agg' = Agg /\ Importable' = Importable
      /\ matched' = matched /\ Agg.rootOnly \in BOOLEAN
      /\ rootTodo \subseteq matched[a] /\ TableOf[r] \in Importable
  <2>1. a \in Aggs /\ rootTodo \subseteq matched[a] /\ Agg.root \in Importable
    BY <1>1 DEF TypeInv, MetInv
  <2>2. TableOf[r] = Agg.root
    BY <1>1 DEF DataInv, RowsOf
  <2> QED
    BY <1>1, <2>1, <2>2, PlanType DEF TypeInv, Agg, Importable, config
<1>3. \A u : Streamed(u)' <=> Streamed(u)
  <2>1. DefiniteFull' = DefiniteFull
    BY <1>1 DEF DefiniteFull, Importable, config
  <2> QED
    BY <1>1, <2>1 DEF Streamed, Planning
<1>4. <<r, TRUE>> \in Reach(a)
  BY <1>1, <1>2, ReachRoots DEF TypeInv
<1>5. Emits({r}, "text")
  BY RootRowEmits
<1>6. /\ SoundInv' /\ \A s \in Rows : sent[s] > 0 => sent'[s] > 0
      /\ sent'[r] > 0
  <2>1. {r} \in SUBSET Rows /\ \A s \in {r} : \E b \in BOOLEAN : <<s, b>> \in Reach(a)
    BY <1>4
  <2>2. \A s \in {r} : sent'[s] > 0
    BY <1>1, <1>2, <1>3, <1>5, <2>1, EmitSound
  <2> QED
    BY <1>1, <1>2, <1>3, <1>5, <2>1, <2>2, EmitSound
<1>7. PICK W \in SUBSET Pairs : Met(a, W)
  BY <1>1 DEF MetInv
<1>8. ASSUME NEW i \in Aggs, i = a
      PROVE  /\ \E V \in SUBSET Pairs : Met(i, V)'
             /\ Answers(i, pending \cup current)' \subseteq Reach(i)'
  <2>0. Met(i, W) /\ Answers(a, pending \cup current) \subseteq Reach(a)
    BY <1>1, <1>7, <1>8 DEF MetInv
  <2>1. CASE ~Agg.rootOnly
    <3>1. Receive({r}, "text", TRUE, pending)
      BY <2>1 DEF RootRow
    <3>2. Answers(a, current \ current') = {}
      BY <1>1 DEF Answers
    <3>3. \A s \in rootTodo : s \in rootTodo' \/ (s \in {r} /\ TRUE = TRUE)
      BY <1>1
    <3>4. current' \subseteq current
      BY <1>1
    <3>5. \A s \in {r} : TableOf[s] \in Importable /\ <<s, TRUE>> \in Reach(a)
      BY <1>2, <1>4
    <3>6. \A m \in Answers(a, current \ current') : m \in {r} \X {TRUE}
      BY <3>2
    <3> QED
      BY <1>1, <1>3, <1>8, <2>0, <2>1, <3>1, <3>3, <3>4, <3>5, <3>6, ReceiveMet
  <2>2. CASE Agg.rootOnly
    <3>1. UNCHANGED <<pending, expandedFwd, expandedBwd>>
      BY <2>2 DEF RootRow
    <3>2. \A n : Follow(i, n)' = {}
      BY <1>2, <1>8, <2>2, FollowFixed, <1>1 DEF Follow
    <3>3. Reach(i)' = Reach(i)
      BY <1>1, ReachFixed DEF TypeInv
    <3>4. Answers(i, pending \cup current)' = Answers(i, pending \cup current)
      BY <1>1, <3>1, AnswersFixed
    <3> DEFINE V == W \cup {<<r, TRUE>>}
    <3>5. V \in SUBSET Pairs /\ V \subseteq Reach(i)'
      <4>1. W \subseteq Reach(i) /\ <<r, TRUE>> \in Reach(i)
        BY <1>4, <1>8, <2>0 DEF Met
      <4>2. <<r, TRUE>> \in Pairs
        BY DEF Pairs
      <4> QED
        BY <3>3, <4>1, <4>2
    <3>6. ASSUME NEW m \in V PROVE sent'[m[1]] > 0
      <4>1. CASE m \in W
        BY <1>6, <2>0, <4>1 DEF Met, Pairs
      <4>2. CASE m = <<r, TRUE>>
        BY <1>6, <4>2
      <4> QED
        BY <4>1, <4>2
    <3>7. \A s \in matched'[i] : <<s, TRUE>> \in V \/ s \in rootTodo'
      BY <1>1, <1>2, <2>0 DEF Met
    <3>8. Met(i, V)'
      <4> HIDE DEF V
      <4> QED
        BY <3>2, <3>5, <3>6, <3>7 DEF Met, Settled
    <3> QED
      BY <1>8, <2>0, <3>3, <3>4, <3>5, <3>8
  <2> QED
    BY <1>2, <2>1, <2>2
<1>9. PICK i \in Aggs : i = a /\ i = a'
  BY <1>1, <1>2
<1>10. /\ \E V \in SUBSET Pairs : Met(a, V)'
       /\ Answers(a, pending \cup current)' \subseteq Reach(a)'
  BY <1>8, <1>9
<1>11. MetInv'
  BY <1>1, <1>2, <1>10 DEF MetInv
<1> QED
  BY <1>6, <1>11

\* A lookup keeps the traversal exact.
LEMMA LookupExact ==
  ASSUME TypeInv, DataInv, SoundInv, MetInv,
         NEW t \in Tables, NEW c \in Columns, NEW back \in BOOLEAN, Lookup(t, c, back)
  PROVE  SoundInv' /\ MetInv' /\ \A s \in Rows : sent[s] > 0 => sent'[s] > 0
<1> DEFINE here == {e \in current : e.table = t /\ e.column = c /\ e.back = back}
           found == {r \in RowsOf(t) : \E e \in here : val[r][c] = e.value}
<1>1. /\ pc = "level" /\ pc' = "level" /\ UNCHANGED <<a, rootTodo>> /\ UNCHANGED config
      /\ UNCHANGED <<potential, spare, tasks>>
      /\ current' = current \ here /\ here # {}
  BY DEF Lookup, walk
<1>2. /\ a \in Aggs /\ Agg = plan.aggregates[a] /\ Agg' = Agg /\ Importable' = Importable
      /\ matched' = matched /\ Agg.rootOnly \in BOOLEAN /\ rootTodo = {}
      /\ rootTodo \subseteq matched[a] /\ Agg.root \in Importable
  BY <1>1, PlanType DEF TypeInv, MetInv, Agg, Importable, config
<1>3. \A u : Streamed(u)' <=> Streamed(u)
  <2>1. DefiniteFull' = DefiniteFull
    BY <1>1 DEF DefiniteFull, Importable, config
  <2> QED
    BY <1>1, <2>1 DEF Streamed, Planning
<1>4. ~Agg.rootOnly
  BY <1>1, <1>2 DEF DataInv
<1>5. CASE t \notin Reachable(a)
  <2>1. UNCHANGED <<pending, visited, expandedFwd, expandedBwd, sent>>
    BY <1>2, <1>5 DEF Lookup, Reachable
  <2>2. Answers(a, pending' \cup current') = Answers(a, pending \cup current)
    <3> SUFFICES ASSUME NEW m \in Pairs
                 PROVE  m \in Answers(a, pending' \cup current') <=>
                          m \in Answers(a, pending \cup current)
      BY DEF Answers
    <3> QED
      BY <1>1, <1>5, <2>1 DEF Answers
  <2>3. MetInv'
    BY <1>1, <1>2, <2>1, <2>2, MetFrame
  <2>4. SoundInv'
    <3>1. Wanted' = Wanted
      BY <1>1, ReachFixed DEF TypeInv
    <3> QED
      BY <1>3, <2>1, <3>1 DEF SoundInv
  <2> QED
    BY <2>1, <2>3, <2>4
<1>6. CASE t \in Reachable(a)
  <2>1. Receive(found, "binary", back, pending) /\ t \in Importable
    BY <1>2, <1>6 DEF Lookup, Reachable
  <2>2. found \in SUBSET Rows /\ \A r \in found : TableOf[r] = t
    BY DEF RowsOf
  <2>3. Answers(a, pending \cup current) \subseteq Reach(a)
    BY <1>1 DEF MetInv
  <2>4. ASSUME NEW r \in found PROVE <<r, back>> \in Reach(a)
    <3>1. PICK e \in here : val[r][c] = e.value
      OBVIOUS
    <3>2. r \in Rows /\ TableOf[r] = t /\ <<r, back>> \in Pairs
      BY <2>2 DEF Pairs
    <3>3. <<r, back>> \in Answers(a, pending \cup current)
      BY <1>6, <3>1, <3>2 DEF Answers
    <3> QED
      BY <2>3, <3>3
  <2>5. ASSUME NEW m \in Answers(a, current \ current') PROVE m \in found \X {back}
    <3>1. PICK e \in here : /\ e.table = TableOf[m[1]] /\ e.back = m[2]
                            /\ val[m[1]][e.column] = e.value
      BY <1>1 DEF Answers
    <3>2. m \in Rows \X BOOLEAN /\ e.table = t /\ e.column = c /\ e.back = back
      BY <3>1 DEF Answers, Pairs
    <3>3. m[1] \in found /\ m[2] = back
      BY <3>1, <3>2 DEF RowsOf
    <3> QED
      BY <3>2, <3>3
  <2>6. PICK W \in SUBSET Pairs : Met(a, W)
    BY <1>1 DEF MetInv
  <2>7. ASSUME NEW i \in Aggs, i = a
        PROVE  /\ \E V \in SUBSET Pairs : Met(i, V)'
               /\ Answers(i, pending \cup current)' \subseteq Reach(i)'
    <3>1. Met(i, W) /\ current' \subseteq current /\ UNCHANGED <<config, a>>
      BY <1>1, <2>6, <2>7
    <3>2. \A r \in found : TableOf[r] \in Importable /\ <<r, back>> \in Reach(a)
      BY <2>1, <2>2, <2>4
    <3>3. \A r \in rootTodo : r \in rootTodo' \/ (r \in found /\ back = TRUE)
      BY <1>2
    <3>4. \A m \in Answers(a, current \ current') : m \in found \X {back}
      BY <2>5
    <3> HIDE DEF found, here
    <3> QED
      BY <1>3, <1>4, <2>1, <2>2, <2>3, <2>7, <3>1, <3>2, <3>3, <3>4, ReceiveMet
  <2>8. SoundInv' /\ \A s \in Rows : sent[s] > 0 => sent'[s] > 0
    <3>1. Emits(found, "binary")
      BY <2>1, ReceiveEmits
    <3>2. \A r \in found : \E b \in BOOLEAN : <<r, b>> \in Reach(a)
      BY <2>4
    <3> HIDE DEF found, here
    <3> QED
      BY <1>1, <1>2, <1>3, <2>2, <3>1, <3>2, EmitSound
  <2>9. PICK i \in Aggs : i = a /\ i = a'
    BY <1>1, <1>2
  <2>10. /\ \E V \in SUBSET Pairs : Met(a, V)'
         /\ Answers(a, pending \cup current)' \subseteq Reach(a)'
    BY <2>7, <2>9
  <2>11. MetInv'
    BY <1>1, <1>2, <2>10 DEF MetInv
  <2> QED
    BY <2>8, <2>11
<1> QED
  BY <1>5, <1>6

\* The aggregate is through when nothing is left to look up.
LEMMA EndAggregateThrough ==
  ASSUME TypeInv, MetInv, EndAggregate
  PROVE  a \in Aggs /\ Agg.root \in Importable /\ \A m \in Reach(a) : sent[m[1]] > 0
<1>1. pc = "level" /\ current = {} /\ pending = {} /\ a \in Aggs /\ ConfigInv
  BY DEF EndAggregate, TypeInv
<1>2. Agg.root \in Importable /\ rootTodo = {}
  BY <1>1 DEF MetInv
<1>3. PICK W \in SUBSET Pairs : Met(a, W)
  BY <1>1 DEF MetInv
<1>4. Answers(a, pending \cup current) = {}
  BY <1>1 DEF Answers
<1>5. Closed(a, W)
  BY <1>3, <1>4 DEF Met, Settled, Closed
<1>6. matched[a] \X {TRUE} \subseteq W
  <2>1. \A r \in matched[a] : <<r, TRUE>> \in W
    BY <1>2, <1>3 DEF Met
  <2> SUFFICES ASSUME NEW m \in matched[a] \X {TRUE} PROVE m \in W
    OBVIOUS
  <2>2. PICK r \in matched[a] : m = <<r, TRUE>>
    BY PairWith
  <2> QED
    BY <2>1, <2>2
<1>7. Reach(a) \subseteq W
  BY <1>1, <1>5, <1>6, ReachLeast
<1> QED
  BY <1>1, <1>2, <1>3, <1>7 DEF Met

\* What the finished aggregates have sent stays sent.
LEMMA ThroughFrame ==
  ASSUME TypeInv, ThroughInv, UNCHANGED config,
         \A r \in Rows : sent[r] > 0 => sent'[r] > 0,
         pc' \notin Planning => pc \notin Planning /\ a' = a,
         pc' \in {"spare", "done"} => LastAgg
  PROVE  ThroughInv'
<1>1. plan' = plan /\ Aggs' = Aggs /\ Importable' = Importable
  BY DEF config, Aggs, Importable
<1>2. \A i \in Aggs : Reach(i)' = Reach(i) /\ Reach(i) \subseteq Pairs
  BY ReachFixed, ReachClosed DEF TypeInv
<1>3. pc' \in {"spare", "done"} => LastAgg'
  BY <1>1 DEF LastAgg, Planning
<1>4. ASSUME pc' \notin Planning, NEW i \in Aggs, i < a
      PROVE  /\ plan.aggregates[i].root \in Importable
             /\ \A m \in Reach(i)' : sent'[m[1]] > 0
  BY <1>2, <1>4 DEF ThroughInv, Pairs
<1> QED
  BY <1>1, <1>3, <1>4 DEF ThroughInv

ExactInv == SoundInv /\ ThroughInv /\ MetInv

\* A step that sends and asks nothing keeps the traversal exact.
LEMMA SilentExact ==
  ASSUME TypeInv, DataInv, StreamInv, ExactInv, Silent
  PROVE  ExactInv'
<1> USE DEF ExactInv
<1>s. /\ UNCHANGED <<config, visited, sent>>
      /\ \A u : Streamed(u)' <=> Streamed(u)
  BY SilentEffect
<1>1. SoundInv'
  <2>1. Wanted' = Wanted
    BY <1>s, ReachFixed DEF TypeInv
  <2> QED
    BY <1>s, <2>1 DEF SoundInv
<1> USE DEF Planning
<1>2. CASE StaticBegin
  <2>1. pc' \in Planning
    BY <1>2 DEF StaticBegin
  <2> QED
    BY <1>1, <1>s, <2>1, ThroughFrame DEF MetInv
<1>3. ASSUME NEW t \in Tables, NEW back \in BOOLEAN, StaticPop(t, back) PROVE ExactInv'
  <2>1. pc' \in Planning
    BY <1>3 DEF StaticPop
  <2> QED
    BY <1>1, <1>s, <2>1, ThroughFrame DEF MetInv
<1>4. CASE StaticEnd
  <2>1. pc' \in Planning
    BY <1>4 DEF StaticEnd
  <2> QED
    BY <1>1, <1>s, <2>1, ThroughFrame DEF MetInv
<1>5. CASE SpawnThreads
  <2>1. pc' = "next" /\ a' = 1
    BY <1>5 DEF SpawnThreads
  <2>2. ThroughInv'
    <3>1. \A i \in Aggs' : ~(i < 1)
      BY DEF Aggs
    <3> QED
      BY <2>1, <3>1 DEF ThroughInv
  <2> QED
    BY <1>1, <2>1, <2>2 DEF MetInv
<1>6. CASE BeginAggregate
  <2>1. pc = "next" /\ a' = a /\ pc' \in {"root", "failed"}
    BY <1>6 DEF BeginAggregate
  <2>2. ThroughInv'
    BY <1>s, <2>1, ThroughFrame
  <2> QED
    BY <1>1, <1>6, <2>2, BeginAggregateMet
<1>7. CASE RootEnd
  <2>1. /\ pc = "root" /\ pc' = "level" /\ rootTodo = {}
        /\ UNCHANGED <<a, rootTodo, expandedFwd, expandedBwd, pending, current>>
    BY <1>7 DEF RootEnd, bfs
  <2>2. ThroughInv'
    BY <1>s, <2>1, ThroughFrame
  <2>3. MetInv'
    BY <1>s, <2>1, MetFrame
  <2> QED
    BY <1>1, <2>2, <2>3
<1>8. CASE NextLevel
  <2>1. /\ pc = "level" /\ pc' = "level" /\ pending' \cup current' = pending \cup current
        /\ UNCHANGED <<a, rootTodo, expandedFwd, expandedBwd>>
    BY <1>8 DEF NextLevel
  <2>2. ThroughInv'
    BY <1>s, <2>1, ThroughFrame
  <2>3. rootTodo = {}
    BY <2>1 DEF MetInv
  <2>4. MetInv'
    BY <1>s, <2>1, <2>3, MetFrame
  <2> QED
    BY <1>1, <2>2, <2>4
<1>9. CASE EndAggregate
  <2>1. pc = "level" /\ pc' = "next" /\ a' = a + 1
    BY <1>9 DEF EndAggregate
  <2>2. a \in Aggs /\ Agg.root \in Importable /\ \A m \in Reach(a) : sent[m[1]] > 0
    BY <1>9, EndAggregateThrough
  <2>3. plan' = plan /\ Aggs' = Aggs /\ Importable' = Importable /\ sent' = sent
    BY <1>s DEF config, Aggs, Importable
  <2>4. ASSUME NEW i \in Aggs, i < a'
        PROVE  /\ plan'.aggregates[i].root \in Importable'
               /\ \A m \in Reach(i)' : sent'[m[1]] > 0
    <3>1. Reach(i)' = Reach(i)
      BY <1>s, ReachFixed DEF TypeInv
    <3>2. CASE i = a
      BY <2>2, <2>3, <3>1, <3>2 DEF Agg
    <3>3. CASE i # a
      <4>1. i < a
        BY <2>1, <2>4, <3>3 DEF TypeInv, Aggs
      <4> QED
        BY <2>1, <2>3, <3>1, <4>1 DEF ThroughInv
    <3> QED
      BY <3>2, <3>3
  <2>5. ThroughInv'
    BY <2>1, <2>3, <2>4 DEF ThroughInv
  <2> QED
    BY <1>1, <2>1, <2>5 DEF MetInv
<1>10. CASE EndBfs
  <2>1. pc = "next" /\ a' = a /\ pc' = "spare" /\ LastAgg
    BY <1>10 DEF EndBfs
  <2> QED
    BY <1>1, <1>s, <2>1, ThroughFrame DEF MetInv
<1>11. CASE AllJoined
  <2>1. /\ pc \in {"spare", "failed"} /\ a' = a /\ pc' \in {"done", "error"}
        /\ pc' = "done" => pc = "spare"
    BY <1>11 DEF AllJoined
  <2>2. pc' = "done" => LastAgg
    BY <2>1 DEF ThroughInv
  <2> QED
    BY <1>1, <1>s, <2>1, <2>2, ThroughFrame DEF MetInv
<1>12. CASE UNCHANGED vars
  <2>1. UNCHANGED <<pc, a, rootTodo, expandedFwd, expandedBwd, pending, current>>
    BY <1>12 DEF vars, bfs
  <2>2. ThroughInv'
    BY <1>s, <2>1, ThroughFrame DEF ThroughInv
  <2>3. CASE pc \in {"root", "level"}
    <3>1. pc = "level" => rootTodo = {}
      BY DEF MetInv
    <3>2. MetInv'
      BY <1>s, <2>1, <2>3, <3>1, MetFrame
    <3> QED
      BY <1>1, <2>2, <3>2
  <2> QED
    BY <1>1, <2>1, <2>2, <2>3 DEF MetInv
<1> QED
  BY <1>2, <1>3, <1>4, <1>5, <1>6, <1>7, <1>8, <1>9, <1>10, <1>11, <1>12 DEF Silent

\* A whole table is streamed: nothing changes for the traversal.
LEMMA SendTableExact ==
  ASSUME TypeInv, ExactInv, NEW t \in Tables, SendTable(t), UNCHANGED <<config, pc, a, bfs>>,
         \A u : Streamed(u)' <=> Streamed(u) \/ u = t, pc \notin Planning \cup {"done", "error"}
  PROVE  ExactInv'
<1> USE DEF ExactInv
<1>1. \A r \in Rows : /\ sent[r] > 0 => sent'[r] > 0
                      /\ sent'[r] > 0 => sent[r] > 0 \/ TableOf[r] = t
  BY DEF SendTable, TypeInv, BfsType
<1>2. UNCHANGED <<visited, rootTodo, expandedFwd, expandedBwd, pending, current>>
  BY DEF bfs
<1>3. SoundInv'
  <2>1. Wanted' = Wanted
    BY ReachFixed DEF TypeInv
  <2> QED
    BY <1>1, <1>2, <2>1 DEF SoundInv
<1>4. ThroughInv'
  BY <1>1, ThroughFrame DEF ThroughInv
<1>5. MetInv'
  <2>1. CASE pc \in {"root", "level"}
    <3>1. pc = "level" => rootTodo = {}
      BY DEF MetInv
    <3> QED
      BY <1>1, <1>2, <2>1, <3>1, MetFrame
  <2>2. CASE pc \notin {"root", "level"}
    BY <2>2 DEF MetInv
  <2> QED
    BY <2>1, <2>2
<1> QED
  BY <1>3, <1>4, <1>5

\* Every step keeps the traversal exact.
LEMMA ExactNext == IInv /\ ExactInv /\ [Next]_vars => ExactInv'
<1> SUFFICES ASSUME IInv, ExactInv, [Next]_vars PROVE ExactInv'
  OBVIOUS
<1> USE DEF IInv, Planning
<1>1. CASE Silent
  BY <1>1, SilentExact
<1>2. ASSUME NEW r \in Rows, RootRow(r) PROVE ExactInv'
  <2>1. SoundInv' /\ MetInv' /\ \A s \in Rows : sent[s] > 0 => sent'[s] > 0
    BY <1>2, RootRowExact DEF ExactInv
  <2>2. pc = "root" /\ pc' = pc /\ a' = a /\ UNCHANGED config
    BY <1>2 DEF RootRow
  <2> QED
    BY <2>1, <2>2, ThroughFrame DEF ExactInv
<1>3. ASSUME NEW t \in Tables, NEW c \in Columns, NEW back \in BOOLEAN, Lookup(t, c, back)
      PROVE  ExactInv'
  <2>1. SoundInv' /\ MetInv' /\ \A s \in Rows : sent[s] > 0 => sent'[s] > 0
    BY <1>3, LookupExact DEF ExactInv
  <2>2. pc = "level" /\ pc' = pc /\ a' = a /\ UNCHANGED config
    BY <1>3 DEF Lookup
  <2> QED
    BY <2>1, <2>2, ThroughFrame DEF ExactInv
<1>4. ASSUME NEW t \in Tables, SpareTable(t) PROVE ExactInv'
  <2>1. SendTable(t) /\ UNCHANGED <<config, pc, a, bfs>>
    BY <1>4 DEF SpareTable
  <2>2. pc = "spare" /\ \A u : Streamed(u)' <=> Streamed(u) \/ u = t
    BY <1>4, SpareEffect
  <2> QED
    BY <2>1, <2>2, SendTableExact
<1>5. ASSUME NEW t \in Tables, WorkerTable(t) PROVE ExactInv'
  <2>1. SendTable(t) /\ UNCHANGED <<config, pc, a, bfs>>
    BY <1>5 DEF WorkerTable
  <2>2. /\ pc \notin Planning \cup {"done", "error"}
        /\ \A u : Streamed(u)' <=> Streamed(u) \/ u = t
    BY <1>5, WorkerEffect
  <2> QED
    BY <2>1, <2>2, SendTableExact
<1> QED
  BY <1>1, <1>2, <1>3, <1>4, <1>5 DEF Next, Bfs, Finished, Silent

\* What the relations lead to lies in the tables the walk reserved.
LEMMA ReachReserved ==
  ASSUME TypeInv, NEW i \in Aggs, Covered(i), plan.aggregates[i].root \in Importable,
         NEW m \in Reach(i)
  PROVE  m[1] \in Rows /\ TableOf[m[1]] \in potential
<1>1. /\ ConfigInv /\ plan.aggregates[i].rootOnly \in BOOLEAN
      /\ plan.aggregates[i].root \in Tables
      /\ \A r \in matched[i] : r \in Rows /\ TableOf[r] = plan.aggregates[i].root
  BY PlanType DEF TypeInv, ConfigInv, RowsOf
<1>2. CASE plan.aggregates[i].rootOnly
  <2> DEFINE S == matched[i] \X {TRUE}
  <2>1. S \in SUBSET Pairs /\ Closed(i, S)
    BY <1>1, <1>2 DEF Closed, Follow, Pairs
  <2>2. Reach(i) \subseteq S
    <3> HIDE DEF S
    <3>1. matched[i] \X {TRUE} \subseteq S
      BY DEF S
    <3> QED
      BY <1>1, <2>1, <3>1, ReachLeast
  <2> QED
    BY <1>1, <1>2, <2>2 DEF Covered
<1>3. CASE ~plan.aggregates[i].rootOnly
  <2>1. PICK ex \in Marks : WalkInv(ex, i, {})
    BY <1>3 DEF Covered
  <2> DEFINE S == {n \in Pairs : /\ ex[TableOf[n[1]]] # "no"
                                 /\ n[2] => ex[TableOf[n[1]]] = "both"}
  <2>2. matched[i] \X {TRUE} \subseteq S
    <3> SUFFICES ASSUME NEW n \in matched[i] \X {TRUE} PROVE n \in S
      OBVIOUS
    <3>1. PICK r \in matched[i] : n = <<r, TRUE>>
      BY PairWith
    <3>2. ex[TableOf[r]] = "both" /\ n \in Pairs
      BY <1>1, <2>1, <3>1 DEF WalkInv, Pairs
    <3> QED
      BY <3>1, <3>2
  <2>3. ASSUME NEW n \in S, NEW k \in Follow(i, n) PROVE k \in S
    <3>1. /\ n[1] \in Rows /\ n[2] \in BOOLEAN /\ k \in Pairs /\ k[2] \in BOOLEAN
          /\ TableOf[k[1]] \in Reachable(i) /\ TableOf[n[1]] \in Tables
      BY DEF Follow, Pairs
    <3>2. PICK rel \in Followed : \/ ~k[2] /\ Joined(rel, n[1], k[1])
                                  \/ k[2] /\ n[2] /\ Joined(rel, k[1], n[1])
      BY DEF Follow
    <3>3. rel \in Relations
      BY <1>1, RelationsFollowed
    <3>4. CASE ~k[2] /\ Joined(rel, n[1], k[1])
      <4>1. Expanded(ex, i, TableOf[n[1]], FALSE)
        BY <2>1, <3>1 DEF WalkInv
      <4>2. ex[TableOf[k[1]]] # "no"
        BY <3>1, <3>3, <3>4, <4>1 DEF Expanded, Joined
      <4> QED
        BY <3>1, <3>4, <4>2
    <3>5. CASE k[2] /\ n[2] /\ Joined(rel, k[1], n[1])
      <4>1. Expanded(ex, i, TableOf[n[1]], TRUE)
        BY <2>1, <3>1, <3>5 DEF WalkInv
      <4>2. ex[TableOf[k[1]]] = "both"
        BY <3>1, <3>3, <3>5, <4>1 DEF Expanded, Joined
      <4> QED
        BY <3>1, <3>5, <4>2
    <3> QED
      BY <3>2, <3>4, <3>5
  <2>4. S \in SUBSET Pairs /\ Closed(i, S)
    BY <2>3 DEF Closed
  <2>5. Reach(i) \subseteq S
    <3> HIDE DEF S
    <3> QED
      BY <1>1, <2>2, <2>4, ReachLeast
  <2>6. m \in Pairs /\ ex[TableOf[m[1]]] # "no"
    BY <2>5
  <2>7. m[1] \in Rows /\ TableOf[m[1]] \in Tables
    BY <2>6 DEF Pairs
  <2> QED
    BY <2>1, <2>6, <2>7 DEF WalkInv
<1> QED
  BY <1>1, <1>2, <1>3

\* When the aggregates are through, the rows sent of the reserved tables are
\* exactly those the relations lead to, for any relations, plan and data
\* (run_aggregate_bfs).
THEOREM AggregatesSendExactly == Spec => []AggregatesExact
<1>1. Init => ExactInv
  BY DEF Init, ExactInv, SoundInv, ThroughInv, MetInv, Planning
<1>2. IInv /\ ExactInv => AggregatesExact
  <2> SUFFICES ASSUME IInv, ExactInv, pc = "spare", spare = FalsePositives
               PROVE  {r \in Rows : TableOf[r] \in potential /\ sent[r] > 0} = Wanted
    BY DEF AggregatesExact
  <2>1. ASSUME NEW r \in Rows, TableOf[r] \in potential, sent[r] > 0
        PROVE  r \in Wanted
    <3>1. ~Streamed(TableOf[r])
      BY <2>1 DEF Streamed, DefiniteFull
    <3> QED
      BY <2>1, <3>1 DEF ExactInv, SoundInv
  <2>2. ASSUME NEW r \in Wanted
        PROVE  r \in Rows /\ TableOf[r] \in potential /\ sent[r] > 0
    <3>1. PICK i \in Aggs : \E m \in Reach(i) : r = m[1]
      BY WantedRows
    <3>2. PICK m \in Reach(i) : r = m[1]
      BY <3>1
    <3>3. i < a
      <4>1. Len(plan.aggregates) \in Nat /\ a \in Nat
        BY PlanType DEF IInv, TypeInv
      <4> QED
        BY <4>1 DEF ExactInv, ThroughInv, LastAgg, Aggs
    <3>4. plan.aggregates[i].root \in Importable /\ sent[r] > 0
      BY <3>2, <3>3 DEF ExactInv, ThroughInv, Planning
    <3>5. Covered(i) /\ TypeInv
      BY DEF IInv, StaticInv, Planning
    <3> QED
      BY <3>2, <3>4, <3>5, ReachReserved
  <2> QED
    BY <2>1, <2>2
<1> QED
  BY <1>1, <1>2, ExactNext, Invariant, PTL DEF Spec

-----------------------------------------------------------------------------
(* The traversal ends *)

\* How many parts of stream_all_tables are still to come, and how many of an
\* aggregate's.
Stage(p) ==
  IF p \in Planning THEN 3
  ELSE IF p \in {"next", "root", "level"} THEN 2
  ELSE IF p \in {"spare", "failed"} THEN 1 ELSE 0
Part(p) == IF p \in {"plan", "next"} THEN 2 ELSE IF p = "root" THEN 1 ELSE 0

Shrinks(S, T) == T \subseteq S /\ T # S

\* What the static walk may still mark, and the keys of the look-ups' map.
Unmarked ==
  {x \in Tables \X {"fwd", "both"} :
     explored[x[1]] = "no" \/ (x[2] = "both" /\ explored[x[1]] = "fwd")}
Asked == {<<<<e.table, e.column>>, e.back>> : e \in current}
Keys  == Rows \X {"text", "binary", "any"}

\* The next part, or the next aggregate.
Advances ==
  \/ Stage(pc') < Stage(pc)
  \/ Stage(pc') = Stage(pc) /\ a < a'
  \/ Stage(pc') = Stage(pc) /\ a' = a /\ Part(pc') < Part(pc)

\* A level of the traversal: rows are expanded, or the level ends without,
\* or one look-up of it is done.
LevelDescends ==
  \/ /\ expandedFwd \subseteq expandedFwd' /\ expandedBwd \subseteq expandedBwd'
     /\ expandedFwd' # expandedFwd \/ expandedBwd' # expandedBwd
  \/ /\ UNCHANGED <<expandedFwd, expandedBwd>>
     /\ \/ pending # {} /\ pending' = {}
        \/ pending' = pending /\ Shrinks(Asked, Asked')

\* In every step something comes to an end that only an earlier entry of this
\* list can begin again.
Descends ==
  \/ Advances
  \/ /\ UNCHANGED <<pc, a>>
     /\ \/ Shrinks(tasks, tasks')
        \/ /\ tasks' = tasks
           /\ \/ /\ pc = "walk"
                 /\ \/ Shrinks(Unmarked, Unmarked')
                    \/ Unmarked' = Unmarked /\ Shrinks(queue, queue')
              \/ pc = "root" /\ Shrinks(rootTodo, rootTodo')
              \/ pc = "level" /\ LevelDescends
              \/ pc = "spare" /\ Shrinks(spare, spare')

\* What shrinks is finite, and what grows is bounded.
Bounded ==
  /\ a <= Len(plan.aggregates) + 1
  /\ IsFiniteSet(tasks) /\ IsFiniteSet(Unmarked) /\ IsFiniteSet(queue)
  /\ IsFiniteSet(rootTodo) /\ IsFiniteSet(Asked) /\ IsFiniteSet(spare)
  /\ IsFiniteSet(Keys) /\ expandedFwd \subseteq Keys /\ expandedBwd \subseteq Keys

KeysInv == expandedFwd \subseteq Keys /\ expandedBwd \subseteq Keys

\* Expanding rows adds their keys.
LEMMA ReceiveKeys ==
  ASSUME KeysInv, NEW R \in SUBSET Rows, NEW protocol \in {"text", "binary"},
         NEW back, NEW rest, Receive(R, protocol, back, rest)
  PROVE  KeysInv' /\ expandedFwd \subseteq expandedFwd' /\ expandedBwd \subseteq expandedBwd'
<1>1. \A r \in R : Key(r, protocol) \in Keys
  BY DEF Key, Keys
<1> QED
  BY <1>1 DEF Receive, KeysInv, Keys

\* Rows that add no key ask for nothing.
LEMMA ReceiveAsks ==
  ASSUME NEW R \in SUBSET Rows, NEW protocol, NEW back, NEW rest,
         Receive(R, protocol, back, rest), UNCHANGED <<expandedFwd, expandedBwd>>
  PROVE  pending' = rest
<1> DEFINE F == {r \in R : Forward(TableOf[r]) # {} /\ Expands(r, protocol, expandedFwd)}
           B == {r \in R : back /\ Backward(TableOf[r]) # {}
                            /\ Expands(r, protocol, expandedBwd)}
<1>1. /\ expandedFwd' = expandedFwd \cup {Key(r, protocol) : r \in F}
      /\ expandedBwd' = expandedBwd \cup {Key(r, protocol) : r \in B}
      /\ pending' = rest \cup (UNION {ForwardValues(r) : r \in F})
                         \cup (UNION {BackwardValues(r) : r \in B})
  BY DEF Receive
<1>2. F = {}
  <2> SUFFICES ASSUME NEW r \in F PROVE FALSE
    OBVIOUS
  <2>1. Key(r, protocol) \in expandedFwd'
    BY <1>1
  <2> QED
    BY <2>1 DEF Expands
<1>3. B = {}
  <2> SUFFICES ASSUME NEW r \in B PROVE FALSE
    OBVIOUS
  <2>1. Key(r, protocol) \in expandedBwd'
    BY <1>1
  <2> QED
    BY <2>1 DEF Expands
<1> HIDE DEF F, B
<1> QED
  BY <1>1, <1>2, <1>3

\* The expanded keys are keys.
LEMMA KeysNext == TypeInv /\ KeysInv /\ [Next]_vars => KeysInv'
<1> SUFFICES ASSUME TypeInv, KeysInv, [Next]_vars PROVE KeysInv'
  OBVIOUS
<1>1. CASE UNCHANGED <<expandedFwd, expandedBwd>>
  BY <1>1 DEF KeysInv, Keys
<1>2. CASE BeginAggregate
  BY <1>2 DEF BeginAggregate, FreshExpansion, KeysInv, bfs
<1>3. ASSUME NEW r \in Rows, RootRow(r) PROVE KeysInv'
  BY <1>1, <1>3, ReceiveKeys DEF RootRow
<1>4. ASSUME NEW t \in Tables, NEW c \in Columns, NEW back \in BOOLEAN, Lookup(t, c, back)
      PROVE  KeysInv'
  <2> DEFINE here == {e \in current : e.table = t /\ e.column = c /\ e.back = back}
             found == {r \in RowsOf(t) : \E e \in here : val[r][c] = e.value}
  <2>1. found \in SUBSET Rows
    BY DEF RowsOf
  <2>2. UNCHANGED <<expandedFwd, expandedBwd>> \/ Receive(found, "binary", back, pending)
    BY <1>4 DEF Lookup
  <2> HIDE DEF found
  <2> QED
    BY <1>1, <2>1, <2>2, ReceiveKeys
<1> QED
  BY <1>1, <1>2, <1>3, <1>4
     DEF Next, Bfs, StaticBegin, StaticEnd, SpawnThreads, StaticPop, RootEnd, NextLevel,
         EndAggregate, EndBfs, SpareTable, AllJoined, WorkerTable, Finished, vars, bfs

\* A table popped in the static walk marks others or leaves the queue for good.
LEMMA PopDescends ==
  ASSUME TypeInv, NEW t \in Tables, NEW back \in BOOLEAN, StaticPop(t, back)
  PROVE  Shrinks(Unmarked, Unmarked') \/ (Unmarked' = Unmarked /\ Shrinks(queue, queue'))
<1> DEFINE Walkable == Importable \ WalkExclude
           F == {u \in Walkable : /\ ShouldVisit(explored, u, FALSE)
                                  /\ \E rel \in Relations : rel.from = t /\ rel.to = u}
           ex == [u \in Tables |-> IF u \in F THEN "fwd" ELSE explored[u]]
           B == {u \in Walkable : /\ back /\ ShouldVisit(ex, u, TRUE)
                                  /\ \E rel \in Relations : rel.to = t /\ rel.from = u}
<1>1. /\ queue' = (queue \ {<<t, back>>}) \cup (F \X {FALSE}) \cup (B \X {TRUE})
      /\ explored' = [u \in Tables |-> IF u \in B THEN "both" ELSE ex[u]]
      /\ <<t, back>> \in queue
  BY DEF StaticPop
<1>2. explored \in Marks /\ F \subseteq Tables /\ B \subseteq Tables
  BY PlanType DEF TypeInv, WalkType
<1>3. \A u \in F : explored[u] = "no"
  BY DEF ShouldVisit
<1>4. \A u \in B : ex[u] = "no" \/ ex[u] = "fwd"
  BY DEF ShouldVisit
<1>5. \A u \in Tables : ex[u] = IF u \in F THEN "fwd" ELSE explored[u]
  OBVIOUS
<1> HIDE DEF F, B, ex, Walkable
<1>6. \A u \in Tables :
        explored'[u] = IF u \in B THEN "both" ELSE IF u \in F THEN "fwd" ELSE explored[u]
  BY <1>1, <1>5
<1>7. \A u \in B : explored[u] # "both"
  BY <1>2, <1>3, <1>4, <1>5
<1>8. Unmarked' \subseteq Unmarked
  <2> SUFFICES ASSUME NEW x \in Unmarked' PROVE x \in Unmarked
    OBVIOUS
  <2>1. /\ x \in Tables \X {"fwd", "both"}
        /\ explored'[x[1]] = "no" \/ (x[2] = "both" /\ explored'[x[1]] = "fwd")
    BY DEF Unmarked
  <2>2. x[1] \in Tables
    BY <2>1
  <2>3. explored[x[1]] = "no" \/ (x[2] = "both" /\ explored[x[1]] = "fwd")
    BY <1>3, <1>6, <2>1, <2>2
  <2> QED
    BY <2>1, <2>3 DEF Unmarked
<1>9. CASE F = {} /\ B = {}
  <2>1. \A u \in Tables : explored'[u] = explored[u]
    BY <1>6, <1>9
  <2>2. Unmarked' = Unmarked
    BY <2>1 DEF Unmarked
  <2>3. queue' = queue \ {<<t, back>>}
    BY <1>1, <1>9
  <2> QED
    BY <1>1, <2>2, <2>3 DEF Shrinks
<1>10. CASE B # {}
  <2>1. PICK u \in B : TRUE
    BY <1>10
  <2>2. u \in Tables /\ explored[u] \in {"no", "fwd"} /\ explored'[u] = "both"
    BY <1>2, <1>6, <1>7 DEF Marks
  <2>3. <<u, "both">> \in Unmarked /\ <<u, "both">> \notin Unmarked'
    BY <2>2 DEF Unmarked
  <2> QED
    BY <1>8, <2>3 DEF Shrinks
<1>11. CASE F # {}
  <2>1. PICK u \in F : TRUE
    BY <1>11
  <2>2. u \in Tables /\ explored[u] = "no" /\ explored'[u] \in {"fwd", "both"}
    BY <1>2, <1>3, <1>6
  <2>3. <<u, "fwd">> \in Unmarked /\ <<u, "fwd">> \notin Unmarked'
    BY <2>2 DEF Unmarked
  <2> QED
    BY <1>8, <2>3 DEF Shrinks
<1> QED
  BY <1>9, <1>10, <1>11

\* A look-up expands rows, or is one fewer in its level.
LEMMA LookupDescends ==
  ASSUME TypeInv, KeysInv, NEW t \in Tables, NEW c \in Columns, NEW back \in BOOLEAN,
         Lookup(t, c, back)
  PROVE  LevelDescends
<1> DEFINE here == {e \in current : e.table = t /\ e.column = c /\ e.back = back}
           found == {r \in RowsOf(t) : \E e \in here : val[r][c] = e.value}
<1>1. here # {} /\ current' = current \ here
  BY DEF Lookup
<1>2. \/ UNCHANGED <<expandedFwd, expandedBwd, pending>>
      \/ Receive(found, "binary", back, pending)
  BY DEF Lookup
<1>3. found \in SUBSET Rows
  BY DEF RowsOf
<1>4. Shrinks(Asked, Asked')
  <2>1. Asked' \subseteq Asked
    BY <1>1 DEF Asked
  <2>2. PICK e \in here : TRUE
    BY <1>1
  <2>3. <<<<t, c>>, back>> \in Asked
    BY <2>2 DEF Asked
  <2>4. <<<<t, c>>, back>> \notin Asked'
    <3> SUFFICES ASSUME NEW d \in current', <<<<t, c>>, back>> = <<<<d.table, d.column>>, d.back>>
                 PROVE  FALSE
      BY DEF Asked
    <3>1. d.table = t /\ d.column = c /\ d.back = back
      OBVIOUS
    <3> QED
      BY <1>1, <3>1
  <2> QED
    BY <2>1, <2>3, <2>4 DEF Shrinks
<1> HIDE DEF found, here
<1>5. CASE UNCHANGED <<expandedFwd, expandedBwd, pending>>
  BY <1>4, <1>5 DEF LevelDescends
<1>6. CASE Receive(found, "binary", back, pending)
  <2>1. expandedFwd \subseteq expandedFwd' /\ expandedBwd \subseteq expandedBwd'
    BY <1>3, <1>6, ReceiveKeys
  <2>2. CASE UNCHANGED <<expandedFwd, expandedBwd>>
    <3>1. pending' = pending
      BY <1>3, <1>6, <2>2, ReceiveAsks
    <3> QED
      BY <1>4, <2>2, <3>1 DEF LevelDescends
  <2> QED
    BY <2>1, <2>2 DEF LevelDescends
<1> QED
  BY <1>2, <1>5, <1>6

\* Every step descends.
LEMMA StepDescends == TypeInv /\ KeysInv /\ Next => Descends \/ UNCHANGED vars
<1> SUFFICES ASSUME TypeInv, KeysInv, Next PROVE Descends \/ UNCHANGED vars
  OBVIOUS
<1>0. a \in Nat /\ a < a + 1
  BY DEF TypeInv
<1>1. CASE StaticBegin
  <2>1. pc = "plan" /\ ((pc' = pc /\ a' = a + 1) \/ (pc' = "walk" /\ a' = a))
    BY <1>1 DEF StaticBegin
  <2>2. Stage(pc') = Stage(pc) /\ (pc' = "walk" => Part(pc') < Part(pc))
    BY <2>1 DEF Stage, Part, Planning
  <2>3. Advances
    BY <1>0, <2>1, <2>2 DEF Advances
  <2> QED
    BY <2>3 DEF Descends
<1>2. CASE StaticEnd \/ SpawnThreads \/ RootEnd \/ EndAggregate \/ EndBfs
  BY <1>0, <1>2 DEF StaticEnd, SpawnThreads, RootEnd, EndAggregate, EndBfs, Descends, Advances,
                    Stage, Part, Planning
<1>3. CASE BeginAggregate \/ AllJoined
  BY <1>3 DEF BeginAggregate, AllJoined, Descends, Advances, Stage, Part, Planning
<1>4. ASSUME NEW t \in Tables, NEW back \in BOOLEAN, StaticPop(t, back) PROVE Descends
  <2>1. UNCHANGED <<pc, a, tasks>> /\ pc = "walk"
    BY <1>4 DEF StaticPop
  <2> QED
    BY <1>4, <2>1, PopDescends DEF Descends
<1>5. ASSUME NEW r \in Rows, RootRow(r) PROVE Descends
  <2>1. /\ UNCHANGED <<pc, a, tasks>> /\ pc = "root"
        /\ r \in rootTodo /\ rootTodo' = rootTodo \ {r}
    BY <1>5 DEF RootRow
  <2> QED
    BY <2>1 DEF Descends, Shrinks
<1>6. CASE NextLevel
  BY <1>6 DEF NextLevel, Descends, LevelDescends
<1>7. ASSUME NEW t \in Tables, NEW c \in Columns, NEW back \in BOOLEAN, Lookup(t, c, back)
      PROVE  Descends
  <2>1. UNCHANGED <<pc, a, tasks>> /\ pc = "level"
    BY <1>7 DEF Lookup
  <2> QED
    BY <1>7, <2>1, LookupDescends DEF Descends
<1>8. ASSUME NEW t \in Tables, SpareTable(t) PROVE Descends
  BY <1>8 DEF SpareTable, Descends, Shrinks
<1>9. ASSUME NEW t \in Tables, WorkerTable(t) PROVE Descends
  BY <1>9 DEF WorkerTable, Descends, Shrinks
<1> QED
  BY <1>1, <1>2, <1>3, <1>4, <1>5, <1>6, <1>7, <1>8, <1>9 DEF Next, Bfs, Finished

\* The sets that measure what is left are finite.
LEMMA MeasuresFinite ==
  ASSUME IsFiniteSet(Tables), IsFiniteSet(Columns), TypeInv, KeysInv
  PROVE  Bounded
<1>1. IsFiniteSet(BOOLEAN) /\ IsFiniteSet({"fwd", "both"}) /\ IsFiniteSet({"text", "binary", "any"})
  <2>1. IsFiniteSet({TRUE}) /\ IsFiniteSet({FALSE}) /\ IsFiniteSet({"fwd"}) /\ IsFiniteSet({"both"})
        /\ IsFiniteSet({"text"}) /\ IsFiniteSet({"binary"}) /\ IsFiniteSet({"any"})
    BY FS_Singleton
  <2>2. IsFiniteSet({TRUE} \cup {FALSE}) /\ IsFiniteSet({"fwd"} \cup {"both"})
    BY <2>1, FS_Union
  <2>3. IsFiniteSet({"text"} \cup {"binary"})
    BY <2>1, FS_Union
  <2>4. IsFiniteSet(({"text"} \cup {"binary"}) \cup {"any"})
    BY <2>1, <2>3, FS_Union
  <2>5. /\ {TRUE} \cup {FALSE} = BOOLEAN /\ {"fwd"} \cup {"both"} = {"fwd", "both"}
        /\ ({"text"} \cup {"binary"}) \cup {"any"} = {"text", "binary", "any"}
    OBVIOUS
  <2> QED
    BY <2>2, <2>4, <2>5
<1>2. /\ IsFiniteSet(Tables \X {"fwd", "both"}) /\ IsFiniteSet(Tables \X BOOLEAN)
      /\ IsFiniteSet(Tables \X Columns) /\ IsFiniteSet(Keys)
  BY <1>1, FS_Product DEF Keys
<1>3. IsFiniteSet((Tables \X Columns) \X BOOLEAN)
  BY <1>1, <1>2, FS_Product
<1>4. /\ tasks \in SUBSET Tables /\ spare \in SUBSET Tables /\ rootTodo \in SUBSET Rows
      /\ Unmarked \in SUBSET (Tables \X {"fwd", "both"})
  BY DEF TypeInv, BfsType, Unmarked
<1>5. queue \in SUBSET (Tables \X BOOLEAN)
  <2>1. Importable \subseteq Tables
    BY PlanType DEF TypeInv
  <2> QED
    BY <2>1 DEF TypeInv, WalkType
<1>6. Asked \in SUBSET ((Tables \X Columns) \X BOOLEAN)
  <2>1. \A e \in current : e.table \in Tables /\ e.column \in Columns /\ e.back \in BOOLEAN
    BY DEF TypeInv, BfsType, Entry
  <2> QED
    BY <2>1 DEF Asked
<1>7. IsFiniteSet(tasks) /\ IsFiniteSet(spare) /\ IsFiniteSet(rootTodo)
  BY <1>4, FS_Subset
<1>8. IsFiniteSet(Unmarked)
  BY <1>2, <1>4, FS_Subset
<1>9. IsFiniteSet(queue)
  BY <1>2, <1>5, FS_Subset
<1>10. IsFiniteSet(Asked)
  BY <1>3, <1>6, FS_Subset
<1> QED
  BY <1>2, <1>7, <1>8, <1>9, <1>10 DEF Bounded, KeysInv, TypeInv

\* The traversal never goes round for ever, also where rows refer to each other
\* in circles and relations lead back to their table (run_aggregate_bfs,
\* compute_potential_aggregate_tables): each step descends in a lexicographic
\* order of finite sets and bounded numbers, so there are finitely many.
THEOREM StepsDescend ==
  ASSUME IsFiniteSet(Tables), IsFiniteSet(Columns)
  PROVE  Spec => []Bounded /\ [][Descends]_vars
<1>1. Init => TypeInv /\ KeysInv
  BY TypeInit DEF Init, KeysInv
<1>2. TypeInv /\ KeysInv /\ [Next]_vars => (TypeInv /\ KeysInv)'
  BY TypeNext, KeysNext
<1>3. TypeInv /\ KeysInv => Bounded
  BY MeasuresFinite
<1>4. TypeInv /\ KeysInv /\ [Next]_vars => [Descends]_vars
  BY StepDescends
<1> QED
  BY <1>1, <1>2, <1>3, <1>4, PTL DEF Spec

-----------------------------------------------------------------------------
(* What the threads of Streaming are given *)

NoRepetition(l) == \A i, j \in 1 .. Len(l) : l[i] = l[j] => i = j
Elements(l) == {l[i] : i \in 1 .. Len(l)}

\* The tables of S in some order.
Listings(S) == {l \in Seq(S) : NoRepetition(l) /\ Elements(l) = S}

\* The tables of l, in turn, that fall to the worker at place w of n.
Dealt(l, n, w) == [k \in 1 .. (Len(l) + n - w) \div n |-> l[(k - 1) * n + w]]

\* What is dealt out lies in the list.
LEMMA DealtWithin ==
  ASSUME NEW n \in Nat \ {0}, NEW m \in Nat, NEW w \in 1 .. n,
         NEW k \in 1 .. (m + n - w) \div n
  PROVE  (k - 1) * n + w \in 1 .. m
<1>1. m + n - w \in Nat /\ k * n <= m + n - w
  OBVIOUS
<1> QED
  BY <1>1

\* No place of the list is dealt out twice.
LEMMA DealtApart ==
  ASSUME NEW n \in Nat \ {0}, NEW w \in 1 .. n, NEW v \in 1 .. n,
         NEW k \in Nat \ {0}, NEW j \in Nat \ {0}, (k - 1) * n + w = (j - 1) * n + v
  PROVE  k = j /\ w = v
<1>1. ASSUME k < j PROVE FALSE
  <2>1. k <= j - 1
    BY <1>1
  <2>2. k * n <= (j - 1) * n
    BY <2>1
  <2> QED
    BY <2>2
<1>2. ASSUME j < k PROVE FALSE
  <2>1. j <= k - 1
    BY <1>2
  <2>2. j * n <= (k - 1) * n
    BY <2>1
  <2> QED
    BY <2>2
<1> QED
  BY <1>1, <1>2

\* Every place of the list is dealt out.
LEMMA DealtOut ==
  ASSUME NEW n \in Nat \ {0}, NEW m \in Nat, NEW i \in 1 .. m
  PROVE  \E w \in 1 .. n : \E k \in 1 .. (m + n - w) \div n : i = (k - 1) * n + w
<1>1. PICK w \in 1 .. n, k \in Nat \ {0} : i = (k - 1) * n + w
  <2>1. ((i - 1) % n) + 1 \in 1 .. n /\ ((i - 1) \div n) + 1 \in Nat \ {0}
    OBVIOUS
  <2>2. i = ((((i - 1) \div n) + 1) - 1) * n + (((i - 1) % n) + 1)
    OBVIOUS
  <2> QED
    BY <2>1, <2>2
<1>2. k * n <= m + n - w
  BY <1>1
<1>3. k \in 1 .. (m + n - w) \div n
  BY <1>1, <1>2
<1> QED
  BY <1>1, <1>3

\* Dealing out a list without repetitions: the shares have none, are parts of the
\* list, have nothing in common, and leave nothing out.
LEMMA DealtShares ==
  ASSUME NEW S, NEW l \in Listings(S), NEW n \in Nat \ {0}
  PROVE  /\ \A w \in 1 .. n : /\ Dealt(l, n, w) \in Seq(S) /\ NoRepetition(Dealt(l, n, w))
                              /\ Elements(Dealt(l, n, w)) \subseteq S
         /\ \A w, v \in 1 .. n : \A t : t \in Elements(Dealt(l, n, w)) /\ t \in Elements(Dealt(l, n, v)) => w = v
         /\ \A t \in S : \E w \in 1 .. n : t \in Elements(Dealt(l, n, w))
<1>0. l \in Seq(S) /\ NoRepetition(l) /\ Elements(l) = S /\ Len(l) \in Nat
  BY DEF Listings
<1>1. ASSUME NEW w \in 1 .. n
      PROVE  /\ Dealt(l, n, w) \in Seq(S) /\ Len(Dealt(l, n, w)) = (Len(l) + n - w) \div n
             /\ \A k \in 1 .. (Len(l) + n - w) \div n :
                  /\ Dealt(l, n, w)[k] = l[(k - 1) * n + w]
                  /\ (k - 1) * n + w \in 1 .. Len(l) /\ k \in Nat \ {0}
  <2>1. (Len(l) + n - w) \div n \in Nat
    BY <1>0
  <2>2. \A k \in 1 .. (Len(l) + n - w) \div n : (k - 1) * n + w \in 1 .. Len(l)
    BY <1>0, DealtWithin
  <2>3. \A k \in 1 .. (Len(l) + n - w) \div n : l[(k - 1) * n + w] \in S
    BY <1>0, <2>2
  <2> DEFINE c == (Len(l) + n - w) \div n
             e(k) == l[(k - 1) * n + w]
  <2>4. c \in Nat /\ Dealt(l, n, w) = [k \in 1 .. c |-> e(k)] /\ \A k \in 1 .. c : e(k) \in S
    BY <2>1, <2>3 DEF Dealt
  <2> HIDE DEF c, e
  <2>5. Dealt(l, n, w) \in Seq(S) /\ Len(Dealt(l, n, w)) = c
    BY <2>4
  <2> QED
    BY <2>2, <2>4, <2>5 DEF c, e
<1>2. ASSUME NEW w \in 1 .. n PROVE NoRepetition(Dealt(l, n, w))
  <2> SUFFICES ASSUME NEW i \in 1 .. Len(Dealt(l, n, w)), NEW j \in 1 .. Len(Dealt(l, n, w)),
                      Dealt(l, n, w)[i] = Dealt(l, n, w)[j]
               PROVE  i = j
    BY DEF NoRepetition
  <2>1. /\ l[(i - 1) * n + w] = l[(j - 1) * n + w] /\ i \in Nat \ {0} /\ j \in Nat \ {0}
        /\ (i - 1) * n + w \in 1 .. Len(l) /\ (j - 1) * n + w \in 1 .. Len(l)
    BY <1>1
  <2>2. (i - 1) * n + w = (j - 1) * n + w
    BY <1>0, <2>1 DEF NoRepetition
  <2> QED
    BY <2>1, <2>2, DealtApart
<1>3. ASSUME NEW w \in 1 .. n, NEW t \in Elements(Dealt(l, n, w))
      PROVE  \E k \in Nat \ {0} : (k - 1) * n + w \in 1 .. Len(l) /\ t = l[(k - 1) * n + w]
  BY <1>1, <1>3 DEF Elements
<1>4. ASSUME NEW w \in 1 .. n PROVE Elements(Dealt(l, n, w)) \subseteq S
  BY <1>0, <1>3, <1>4
<1>5. ASSUME NEW w \in 1 .. n, NEW v \in 1 .. n, NEW t \in Elements(Dealt(l, n, w)),
             t \in Elements(Dealt(l, n, v))
      PROVE  w = v
  <2>1. PICK k \in Nat \ {0} : (k - 1) * n + w \in 1 .. Len(l) /\ t = l[(k - 1) * n + w]
    BY <1>3, <1>5
  <2>2. PICK j \in Nat \ {0} : (j - 1) * n + v \in 1 .. Len(l) /\ t = l[(j - 1) * n + v]
    BY <1>3, <1>5
  <2>3. (k - 1) * n + w = (j - 1) * n + v
    BY <1>0, <2>1, <2>2 DEF NoRepetition
  <2> QED
    BY <2>1, <2>2, <2>3, DealtApart
<1>6. ASSUME NEW t \in S PROVE \E w \in 1 .. n : t \in Elements(Dealt(l, n, w))
  <2>1. PICK i \in 1 .. Len(l) : t = l[i]
    BY <1>0, <1>6 DEF Elements
  <2>2. PICK w \in 1 .. n : \E k \in 1 .. (Len(l) + n - w) \div n : i = (k - 1) * n + w
    BY <1>0, <2>1, DealtOut
  <2>3. PICK k \in 1 .. (Len(l) + n - w) \div n : i = (k - 1) * n + w
    BY <2>2
  <2>4. k \in 1 .. Len(Dealt(l, n, w)) /\ Dealt(l, n, w)[k] = t
    BY <1>1, <2>1, <2>2, <2>3
  <2> QED
    BY <2>2, <2>4 DEF Elements
<1> QED
  BY <1>1, <1>2, <1>4, <1>5, <1>6

\* An instance of Streaming that may follow: A are the tables of which rows were
\* read, s and l list the tables reserved in vain and those of the workers W.
Handed(A, s, l, W, n, turn) ==
  INSTANCE Ownership WITH
    Tables <- ((ExcludedSet \cup A) \cup FalsePositives) \cup DefiniteFull,
    Excluded <- ExcludedSet, Aggregate <- A, Spare <- s, Full <- l,
    Workers <- W, Crew <- n, Turn <- turn

\* Of whichever touched tables rows were read (of an excluded one none are, unless it is
\* a root), and in whatever order the tables come, each has one owner.
SharedOut(W, n, turn) ==
  pc \in {"spare", "done"} =>
    \A A \in SUBSET (touched \ (plan.excluded \ Roots)) :
      \A s \in Listings(FalsePositives), l \in Listings(DefiniteFull) :
        Handed(A, s, l, W, n, turn)!EachOnce

\* When the traversal is through, excluded tables, tables it read, tables reserved in
\* vain and the shares of the workers are disjoint, and each is listed once.
LEMMA HandedOnce ==
  ASSUME TypeInv, DataInv, pc \notin Planning, NEW W, NEW n \in Nat \ {0},
         NEW turn \in [W -> 1 .. n], "bfs" \notin W,
         \A w, v \in W : turn[w] = turn[v] => w = v,
         \A i \in 1 .. n : \E w \in W : turn[w] = i,
         NEW A \in SUBSET (touched \ plan.excluded), NEW s \in Listings(FalsePositives),
         NEW l \in Listings(DefiniteFull)
  PROVE  Handed(A, s, l, W, n, turn)!EachOnce
<1> DEFINE T == ((ExcludedSet \cup A) \cup FalsePositives) \cup DefiniteFull
           D(w) == Handed(A, s, l, W, n, turn)!Duty(w)
           M(w) == Handed(A, s, l, W, n, turn)!Mine(w)
<1>1. /\ FalsePositives \cap DefiniteFull = {} /\ A \cap ExcludedSet = {}
      /\ (FalsePositives \cup DefiniteFull) \cap (A \cup ExcludedSet) = {}
  BY Disjoint DEF ExcludedSet
<1>2. /\ s \in Seq(FalsePositives) /\ NoRepetition(s) /\ Elements(s) = FalsePositives
  BY DEF Listings
<1>3. /\ \A w \in W : D(w) = Dealt(l, n, turn[w]) /\ M(w) = Elements(Dealt(l, n, turn[w]))
      /\ D("bfs") = s /\ M("bfs") = Elements(s)
  <2>1. ASSUME NEW w \in W PROVE D(w) = Dealt(l, n, turn[w])
    <3>1. w # "bfs"
      BY <2>1
    <3> QED
      BY <3>1 DEF Handed!Duty, Handed!Bfs, Handed!Assigned, Dealt
  <2>2. D("bfs") = s
    BY DEF Handed!Duty, Handed!Bfs
  <2>3. \A w : M(w) = Elements(D(w))
    BY DEF Handed!Mine, Elements
  <2> QED
    BY <2>1, <2>2, <2>3
<1>4. Handed(A, s, l, W, n, turn)!Threads = W \cup {"bfs"} /\ Handed(A, s, l, W, n, turn)!Bfs = "bfs"
  BY DEF Handed!Threads, Handed!Bfs
<1> HIDE DEF D, M, T
<1>5. /\ \A w \in W : /\ D(w) \in Seq(DefiniteFull) /\ NoRepetition(D(w))
                      /\ M(w) \subseteq DefiniteFull
      /\ \A w, v \in W : w # v => M(w) \cap M(v) = {}
      /\ \A t \in DefiniteFull : \E w \in W : t \in M(w)
  BY <1>3, DealtShares
<1>6. ASSUME NEW w \in W \cup {"bfs"}
      PROVE  /\ D(w) \in Seq(T) /\ NoRepetition(D(w))
             /\ M(w) \cap (A \cup ExcludedSet) = {}
             /\ \A v \in W \cup {"bfs"} : v # w => M(v) \cap M(w) = {}
  <2>1. \A S : S \subseteq T => \A q \in Seq(S) : q \in Seq(T)
    OBVIOUS
  <2>2. CASE w = "bfs"
    BY <1>1, <1>2, <1>3, <1>5, <2>1, <2>2 DEF T
  <2>3. CASE w \in W
    BY <1>1, <1>2, <1>3, <1>5, <2>1, <2>3 DEF T
  <2> QED
    BY <2>2, <2>3
<1>7. \A t \in T : t \in A \cup ExcludedSet \/ \E w \in W \cup {"bfs"} : t \in M(w)
  BY <1>2, <1>3, <1>5 DEF T
<1> QED
  BY <1>1, <1>4, <1>6, <1>7 DEF Handed!EachOnce, D, M, T, NoRepetition

\* What stream_all_tables hands to its threads is what Streaming begins with, for
\* any number of workers the full tables are dealt out to: each table has one
\* owner, which streams it once, if no aggregate's root is excluded.
THEOREM PlansShareOut ==
  ASSUME \A p \in Plans : \A i \in 1 .. Len(p.aggregates) : p.aggregates[i].root \notin p.excluded,
         NEW W, NEW n \in Nat \ {0}, NEW turn \in [W -> 1 .. n], "bfs" \notin W,
         \A w, v \in W : turn[w] = turn[v] => w = v,
         \A i \in 1 .. n : \E w \in W : turn[w] = i
  PROVE  Spec => []SharedOut(W, n, turn)
<1>1. IInv => SharedOut(W, n, turn)
  <2> SUFFICES ASSUME IInv, pc \in {"spare", "done"},
                      NEW A \in SUBSET (touched \ (plan.excluded \ Roots)),
                      NEW s \in Listings(FalsePositives), NEW l \in Listings(DefiniteFull)
               PROVE  Handed(A, s, l, W, n, turn)!EachOnce
    BY DEF SharedOut
  <2>1. Roots \cap plan.excluded = {}
    BY PlanType DEF IInv, TypeInv, ConfigInv, Roots, Aggs
  <2>2. TypeInv /\ DataInv /\ pc \notin Planning /\ A \in SUBSET (touched \ plan.excluded)
    BY <2>1 DEF IInv, Planning
  <2> QED
    BY <2>2, HandedOnce
<1> QED
  BY <1>1, Invariant, PTL
=============================================================================
