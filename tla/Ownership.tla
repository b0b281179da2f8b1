----------------------------- MODULE Ownership -----------------------------
(***************************************************************************)
(* Which thread of the server streams which table (server/src/traversal.rs, *)
(* stream_all_tables): what Traversal settles and Streaming begins with.    *)
(***************************************************************************)
EXTENDS Naturals, Sequences

CONSTANTS
  Tables,
  Excluded,   \* tables whose structure the main thread sends itself
  Aggregate,  \* tables the traversal thread reads row by row
  Spare,      \* a sequence: tables it streams in full at the end
  Full,       \* a sequence: tables the workers stream in full
  Workers,
  Crew,       \* their number
  Turn        \* the place of each worker, 1 .. Crew

Bfs == "bfs"
Threads == Workers \cup {Bfs}

\* The full tables are dealt out in turn.
Assigned(w) ==
  [k \in 1 .. (Len(Full) + Crew - Turn[w]) \div Crew |-> Full[(k - 1) * Crew + Turn[w]]]

\* The tables a thread streams in full.
Duty(w) == IF w = Bfs THEN Spare ELSE Assigned(w)
Mine(w) == {Duty(w)[i] : i \in 1 .. Len(Duty(w))}

\* Each table is streamed by one thread, once: Traversal shows it of its plans
\* (TraversalProofs, PlansShareOut), but for those that exclude an aggregate's root.
EachOnce ==
  /\ Bfs \notin Workers /\ Excluded \subseteq Tables
  /\ \A w \in Threads :
       /\ Duty(w) \in Seq(Tables)
       /\ \A i, j \in 1 .. Len(Duty(w)) : Duty(w)[i] = Duty(w)[j] => i = j
       /\ Mine(w) \cap (Aggregate \cup Excluded) = {}
       /\ \A v \in Threads : v # w => Mine(v) \cap Mine(w) = {}
  /\ Aggregate \cap Excluded = {}
  /\ \A t \in Tables : t \in Aggregate \cup Excluded \/ \E w \in Threads : t \in Mine(w)
=============================================================================
