----------------------------- MODULE Traversal -----------------------------
(***************************************************************************)
(* Which rows the server sends (server/src/traversal.rs): the static walk  *)
(* over the relations that reserves tables for the aggregates, the         *)
(* breadth-first traversal of the data of run_aggregate_bfs, the tables it *)
(* turns out not to touch, and the workers that stream the other tables.   *)
(*                                                                         *)
(* The plan and the data are chosen in the initial state.  A row has one   *)
(* value per column; two rows are related where a relation's columns hold  *)
(* the same value.  Chunks and messages are left to the other modules:     *)
(* here a row is sent when it is written to a chunk.                       *)
(***************************************************************************)
EXTENDS Naturals, Sequences, FiniteSets

CONSTANTS
  Tables,     \* the tables of the source database
  Columns,
  Values,     \* values of a column, other than NULL
  Null,
  Constraints,\* foreign keys of the source: sets of column pairs
  Rows,
  TableOf,    \* the table of each row
  Typed,      \* rows whose key the two MySQL protocols render differently
  Plans,      \* execution plans to choose from
  Data        \* contents to choose from

Contents == [Rows -> [Columns -> Values \cup {Null}]]

Relation == [from : Tables, fromCol : Columns, to : Tables, toCol : Columns]

ResolvedAggregate == [root : Tables, rootOnly : BOOLEAN, exclude : SUBSET Tables]

ExecutionPlan ==
  [aggregates : Seq(ResolvedAggregate), full : SUBSET Tables,
   excluded : SUBSET Tables, ignored : SUBSET Tables, aggregatesOnly : BOOLEAN,
   relations : SUBSET Relation, ignoredRelations : SUBSET Relation]

ASSUME TraversalAssumption ==
  /\ Null \notin Values
  /\ Constraints \subseteq SUBSET Relation /\ \A k \in Constraints : IsFiniteSet(k)
  /\ IsFiniteSet(Rows)
  /\ TableOf \in [Rows -> Tables]
  /\ Typed \subseteq Rows
  /\ Plans \subseteq ExecutionPlan
  /\ Data \subseteq Contents

VARIABLES
  plan, val,
  matched,     \* the rows each aggregate's root query returns
  pc,
  a,           \* the aggregate being worked on
  \* compute_potential_aggregate_tables
  queue, explored, potential,
  \* run_aggregate_bfs
  rootTodo,    \* root rows not read yet
  pending,     \* FK values to look up in the next level
  current,     \* FK values of this level not looked up yet
  visited,     \* keys of rows already sent
  expandedFwd, expandedBwd,
  touched,     \* aggregate_tables
  spare,       \* false positives still to stream
  \* The full-table workers.
  tasks,       \* tables still to stream
  \* What has been sent.
  sent         \* how often each row was sent

config == <<plan, val, matched>>
walk   == <<queue, explored, potential>>
bfs    == <<rootTodo, pending, current, visited, expandedFwd, expandedBwd, touched>>
vars   == <<config, pc, a, walk, bfs, spare, tasks, sent>>

Importable == Tables \ plan.ignored
Agg        == plan.aggregates[a]
LastAgg    == a > Len(plan.aggregates)
RowsOf(t)  == {r \in Rows : TableOf[r] = t}

\* discover_foreign_keys: constraints over several columns are left out.
Discovered == UNION {k \in Constraints : Cardinality(k) = 1}

\* The server adds what it discovers to the relations of the plan, then
\* filters.
Relations == (plan.relations \cup Discovered) \ plan.ignoredRelations

-----------------------------------------------------------------------------
(* compute_potential_aggregate_tables *)

\* Dead ends of the static walk.
WalkExclude == Agg.exclude \cup plan.excluded \cup plan.full

\* Variant: a table is explored once, however it is reached.
ShouldVisitOnce(ex, t, back) == ex[t] = "no"

\* A table first explored forward only is explored again if it is reached
\* with backward capability.
ShouldVisit(ex, t, back) == ex[t] = "no" \/ (back /\ ex[t] = "fwd")

StaticBegin ==
  /\ pc = "plan" /\ ~LastAgg
  /\ IF Agg.rootOnly \/ Agg.root \notin Importable
     THEN /\ potential' = potential
               \cup (IF Agg.rootOnly THEN {Agg.root} \cap Importable ELSE {})
          /\ a' = a + 1
          /\ UNCHANGED <<pc, queue, explored>>
     ELSE /\ queue' = {<<Agg.root, TRUE>>}
          /\ explored' = [t \in Tables |-> IF t = Agg.root THEN "both" ELSE "no"]
          /\ pc' = "walk"
          /\ UNCHANGED <<a, potential>>
  /\ UNCHANGED <<config, bfs, spare, tasks, sent>>

StaticPop(t, back) ==
  /\ pc = "walk" /\ <<t, back>> \in queue
  /\ potential' = potential \cup {t}
  /\ LET Walkable == Importable \ WalkExclude
         F == {u \in Walkable : /\ ShouldVisit(explored, u, FALSE)
                                /\ \E rel \in Relations : rel.from = t /\ rel.to = u}
         ex == [u \in Tables |-> IF u \in F THEN "fwd" ELSE explored[u]]
         B == {u \in Walkable : /\ back /\ ShouldVisit(ex, u, TRUE)
                                /\ \E rel \in Relations : rel.to = t /\ rel.from = u}
     IN /\ queue' = (queue \ {<<t, back>>}) \cup (F \X {FALSE}) \cup (B \X {TRUE})
        /\ explored' = [u \in Tables |-> IF u \in B THEN "both" ELSE ex[u]]
  /\ UNCHANGED <<config, pc, a, bfs, spare, tasks, sent>>

StaticEnd ==
  /\ pc = "walk" /\ queue = {}
  /\ a' = a + 1
  /\ pc' = "plan"
  /\ UNCHANGED <<config, walk, bfs, spare, tasks, sent>>

\* stream_all_tables: the tables of which the main thread sends the structure.
ExcludedSet == {t \in Importable \cap plan.excluded : plan.aggregatesOnly => t \in potential}

\* Variant: the workers get the reserved tables too.
DefiniteFullAll == IF plan.aggregatesOnly THEN {} ELSE Importable \ plan.excluded

\* Which tables the workers get; then all threads start.
DefiniteFull ==
  IF plan.aggregatesOnly THEN {} ELSE Importable \ (plan.excluded \cup potential)

SpawnThreads ==
  /\ pc = "plan" /\ LastAgg
  /\ tasks' = DefiniteFull
  /\ a' = 1
  /\ pc' = "next"
  /\ UNCHANGED <<config, walk, bfs, spare, sent>>

-----------------------------------------------------------------------------
(* run_aggregate_bfs *)

Forward(t) ==
  {rel \in Relations : rel.from = t /\ t \in Importable
                         /\ rel.to \in Importable \ Agg.exclude}
Backward(t) ==
  {rel \in Relations : rel.to = t /\ t \in Importable
                         /\ rel.from \in Importable \ Agg.exclude}

\* row_pk_key of a row read over the text or the binary protocol.
Key(r, protocol) == <<r, IF r \in Typed THEN protocol ELSE "any">>

\* The look-ups that following relations from a row asks for.
ForwardValues(r) ==
  {[table |-> rel.to, column |-> rel.toCol, back |-> FALSE,
    value |-> val[r][rel.fromCol]] :
     rel \in {x \in Forward(TableOf[r]) : val[r][x.fromCol] # Null}}
BackwardValues(r) ==
  {[table |-> rel.from, column |-> rel.fromCol, back |-> TRUE,
    value |-> val[r][rel.toCol]] :
     rel \in {x \in Backward(TableOf[r]) : val[r][x.toCol] # Null}}

\* Variant: a row that was sent before is not expanded again.
ExpandsIfNew(r, protocol, done) == Key(r, protocol) \notin visited

\* Variant: a row is expanded whenever it is met.
ExpandsAlways(r, protocol, done) == TRUE

\* The row has not been expanded in this direction for this aggregate.
Expands(r, protocol, done) == Key(r, protocol) \notin done

\* The rows R come back from a query; backward relations are followed if back.
Receive(R, protocol, back, rest) ==
  LET F == {r \in R : Forward(TableOf[r]) # {} /\ Expands(r, protocol, expandedFwd)}
      B == {r \in R : back /\ Backward(TableOf[r]) # {}
                       /\ Expands(r, protocol, expandedBwd)}
      new == {r \in R : Key(r, protocol) \notin visited}
  IN /\ expandedFwd' = expandedFwd \cup {Key(r, protocol) : r \in F}
     /\ expandedBwd' = expandedBwd \cup {Key(r, protocol) : r \in B}
     /\ visited' = visited \cup {Key(r, protocol) : r \in new}
     /\ sent' = [r \in Rows |-> IF r \in new THEN sent[r] + 1 ELSE sent[r]]
     /\ pending' = rest \cup (UNION {ForwardValues(r) : r \in F})
                        \cup (UNION {BackwardValues(r) : r \in B})

\* Variant: what earlier aggregates expanded stays expanded.
FreshExpansionKept == UNCHANGED <<expandedFwd, expandedBwd>>

FreshExpansion == expandedFwd' = {} /\ expandedBwd' = {}

BeginAggregate ==
  /\ pc = "next" /\ ~LastAgg
  /\ IF Agg.root \notin Importable
     THEN pc' = "failed" /\ UNCHANGED bfs
     ELSE /\ pc' = "root"
          /\ touched' = touched \cup {Agg.root}
          /\ rootTodo' = matched[a]
          /\ FreshExpansion
          /\ pending' = {} /\ current' = {}
          /\ UNCHANGED visited
  /\ UNCHANGED <<config, a, walk, spare, tasks, sent>>

\* The root query is read row by row, over the text protocol.
RootRow(r) ==
  /\ pc = "root" /\ r \in rootTodo
  /\ rootTodo' = rootTodo \ {r}
  /\ IF Agg.rootOnly
     THEN /\ sent' = [sent EXCEPT ![r] =
                        IF Key(r, "text") \in visited THEN @ ELSE @ + 1]
          /\ visited' = visited \cup {Key(r, "text")}
          /\ UNCHANGED <<pending, expandedFwd, expandedBwd>>
     ELSE Receive({r}, "text", TRUE, pending)
  /\ UNCHANGED <<config, pc, a, walk, current, touched, spare, tasks>>

RootEnd ==
  /\ pc = "root" /\ rootTodo = {}
  /\ pc' = "level"
  /\ UNCHANGED <<config, a, walk, bfs, spare, tasks, sent>>

NextLevel ==
  /\ pc = "level" /\ current = {} /\ pending # {}
  /\ current' = pending /\ pending' = {}
  /\ UNCHANGED <<config, pc, a, walk, rootTodo, visited, expandedFwd,
                 expandedBwd, touched, spare, tasks, sent>>

\* One look-up of the level, over the binary protocol.
Lookup(t, c, back) ==
  LET here == {e \in current : e.table = t /\ e.column = c /\ e.back = back}
      found == {r \in RowsOf(t) : \E e \in here : val[r][c] = e.value}
  IN /\ pc = "level" /\ here # {}
     /\ current' = current \ here
     /\ IF t \in plan.full \cup Agg.exclude \/ t \notin Importable
        THEN UNCHANGED <<pending, visited, expandedFwd, expandedBwd, touched, sent>>
        ELSE /\ touched' = touched \cup {t}
             /\ IF t \in plan.excluded
                THEN UNCHANGED <<pending, visited, expandedFwd, expandedBwd, sent>>
                ELSE Receive(found, "binary", back, pending)
     /\ UNCHANGED <<config, pc, a, walk, rootTodo, spare, tasks>>

EndAggregate ==
  /\ pc = "level" /\ current = {} /\ pending = {}
  /\ a' = a + 1
  /\ pc' = "next"
  /\ UNCHANGED <<config, walk, bfs, spare, tasks, sent>>

\* Variant: what was reserved in vain is forgotten.
FalsePositivesForgotten == {}

\* Tables reserved for the aggregates that none of them touched.
FalsePositives ==
  IF plan.aggregatesOnly THEN {}
  ELSE potential \ (touched \cup plan.excluded \cup plan.ignored)

EndBfs ==
  /\ pc = "next" /\ LastAgg
  /\ spare' = FalsePositives
  /\ pc' = "spare"
  /\ UNCHANGED <<config, a, walk, bfs, tasks, sent>>

\* stream_full_table_to_channel
SendTable(t) == sent' = [r \in Rows |-> IF TableOf[r] = t THEN sent[r] + 1 ELSE sent[r]]

SpareTable(t) ==
  /\ pc = "spare" /\ t \in spare
  /\ spare' = spare \ {t}
  /\ SendTable(t)
  /\ UNCHANGED <<config, pc, a, walk, bfs, tasks>>

WorkerTable(t) ==
  /\ t \in tasks
  /\ tasks' = tasks \ {t}
  /\ SendTable(t)
  /\ UNCHANGED <<config, pc, a, walk, bfs, spare>>

\* The writer has joined all threads: Done, or Error if the BFS failed.
AllJoined ==
  /\ tasks = {}
  /\ \/ pc = "spare" /\ spare = {} /\ pc' = "done"
     \/ pc = "failed" /\ pc' = "error"
  /\ UNCHANGED <<config, a, walk, bfs, spare, tasks, sent>>

-----------------------------------------------------------------------------
(* What the user is told of a table *)

\* The Done message, from the state in which all threads were joined.
Disposition(t) ==
  IF t \in ExcludedSet THEN "Excluded"
  ELSE IF t \in touched THEN "Aggregate"
  ELSE IF \E r \in RowsOf(t) : sent[r] > 0 THEN "Full" ELSE "Empty"

\* Variant: the dry run forgets that --get imports aggregates only.
DryRunAll(t) ==
  IF t \in plan.excluded THEN "Excluded"
  ELSE IF t \in potential THEN "Aggregate" ELSE "Full"

\* compute_dry_run_report, which runs the same static walk and no more.
DryRun(t) ==
  IF plan.aggregatesOnly /\ t \notin potential THEN "unlisted"
  ELSE IF t \in plan.excluded THEN "Excluded"
  ELSE IF t \in potential THEN "Aggregate" ELSE "Full"

-----------------------------------------------------------------------------
Init ==
  /\ plan \in Plans /\ val \in Data
  /\ matched \in [1 .. Len(plan.aggregates) -> SUBSET Rows]
  /\ \A i \in 1 .. Len(plan.aggregates) :
       matched[i] \subseteq RowsOf(plan.aggregates[i].root)
  /\ pc = "plan" /\ a = 1
  /\ queue = {} /\ explored = [t \in Tables |-> "no"] /\ potential = {}
  /\ rootTodo = {} /\ pending = {} /\ current = {} /\ visited = {}
  /\ expandedFwd = {} /\ expandedBwd = {} /\ touched = {}
  /\ spare = {} /\ tasks = {}
  /\ sent = [r \in Rows |-> 0]

Finished == pc \in {"done", "error"} /\ UNCHANGED vars

Bfs ==
  \/ StaticBegin \/ StaticEnd \/ SpawnThreads
  \/ \E t \in Tables, back \in BOOLEAN : StaticPop(t, back)
  \/ BeginAggregate \/ RootEnd \/ NextLevel \/ EndAggregate \/ EndBfs
  \/ \E r \in Rows : RootRow(r)
  \/ \E t \in Tables, c \in Columns, back \in BOOLEAN : Lookup(t, c, back)
  \/ \E t \in Tables : SpareTable(t)
  \/ AllJoined

Next == Bfs \/ (\E t \in Tables : WorkerTable(t)) \/ Finished

Spec == Init /\ [][Next]_vars

\* The threads of the server run.
FairSpec ==
  Spec /\ WF_vars(Bfs) /\ WF_vars(\E t \in Tables : WorkerTable(t))

-----------------------------------------------------------------------------
(* What SPEC.md says of the traversal, without its order *)

\* Rows an aggregate may reach through a relation.
Reachable(i) ==
  LET agg == plan.aggregates[i]
  IN Importable \ (agg.exclude \cup plan.full \cup plan.excluded)

Joined(rel, r, s) ==
  /\ TableOf[r] = rel.from /\ TableOf[s] = rel.to
  /\ val[r][rel.fromCol] # Null /\ val[r][rel.fromCol] = val[s][rel.toCol]

\* Relations the configuration declares and constraints over one column,
\* except those it ignores.
Followed ==
  {rel \in plan.relations \cup UNION Constraints :
     /\ rel \in plan.relations \/ {rel} \in Constraints
     /\ rel \notin plan.ignoredRelations}

\* One step from the pair of a row and whether its children are followed.
Follow(i, n) ==
  {m \in Rows \X BOOLEAN :
     /\ ~plan.aggregates[i].rootOnly /\ TableOf[m[1]] \in Reachable(i)
     /\ \E rel \in Followed :
          \/ ~m[2] /\ Joined(rel, n[1], m[1])
          \/ m[2] /\ n[2] /\ Joined(rel, m[1], n[1])}

\* Pairs reached in at most n steps.
Reach(i) ==
  LET R[n \in 0 .. 2 * Cardinality(Rows)] ==
        IF n = 0 THEN matched[i] \X {TRUE}
        ELSE LET before == R[n - 1]
             IN before \cup UNION {Follow(i, m) : m \in before}
  IN R[2 * Cardinality(Rows)]

Wanted == UNION {{m[1] : m \in Reach(i)} : i \in 1 .. Len(plan.aggregates)}

-----------------------------------------------------------------------------
(* Properties *)

\* Each row is sent at most once, whatever aggregates, paths and threads
\* reach it (traversal.rs:376, SPEC.md:537).
SentOnce == \A r \in Rows : sent[r] <= 1

\* The static walk foresees every table the data leads to: otherwise a worker
\* streams a table that the traversal streams too (traversal.rs:175).
PotentialCovers ==
  pc \notin {"plan", "walk"} => touched \subseteq potential \cup plan.excluded

\* When the aggregates are through, exactly the rows the relations lead to
\* have been sent of the tables they touch: parents always, children only
\* from the root and along children (SPEC.md:525-541), over the relations the
\* plan declares or the source has and the plan does not ignore (SPEC.md:321-357).
AggregatesExact ==
  pc = "spare" /\ spare = FalsePositives =>
    {r \in Rows : TableOf[r] \in potential /\ sent[r] > 0} = Wanted

\* Tables named in full statements, and all tables no aggregate reaches, are
\* imported completely (SPEC.md:539, 543).
FullTablesComplete ==
  pc = "done" /\ ~plan.aggregatesOnly =>
    \A t \in Importable \ plan.excluded :
      t \in plan.full \/ t \notin touched => \A r \in RowsOf(t) : sent[r] > 0

\* The report of the import is true of the rows that were sent, and the dry run
\* promised it: what it lists as Full is streamed completely and as Excluded not
\* at all (traversal.rs:269-275, SPEC.md:885).
ReportsHonest ==
  pc = "done" =>
    \A t \in Importable :
      /\ Disposition(t) = "Full" => \A r \in RowsOf(t) : sent[r] > 0
      /\ Disposition(t) \in {"Empty", "Excluded"} => \A r \in RowsOf(t) : sent[r] = 0
      /\ Disposition(t) = "Empty" /\ ~plan.aggregatesOnly => RowsOf(t) = {}
      /\ DryRun(t) = "Full" => Disposition(t) = IF RowsOf(t) = {} THEN "Empty" ELSE "Full"
      /\ DryRun(t) = "Excluded" <=> Disposition(t) = "Excluded"

\* The traversal ends, also where the rows refer to each other in a circle.
TraversalEnds == <>(pc \in {"done", "error"})
=============================================================================
