--------------------------- MODULE DumpLoadProofs ---------------------------
(***************************************************************************)
(* The safety theorems of DumpLoad, for any tables, chunks and bounds.     *)
(***************************************************************************)
EXTENDS DumpLoad, FiniteSetTheorems, TLAPS

-----------------------------------------------------------------------------
(* The inductive invariant *)

DdlJobs == {Ddl(t) : t \in Tables}
LoadJobs == {Chunk(p[1], p[2]) : p \in Pieces}
Jobs == DdlJobs \cup LoadJobs

TypeInv ==
  /\ exists \subseteq Tables /\ backups \subseteq Preserved /\ mine \subseteq exists
  /\ mine \subseteq Preserved /\ saved \subseteq backups
  /\ rows \in [Pieces -> Nat] /\ ckpt \in BOOLEAN
  /\ pc \in {"idle", "clean", "read", "backup", "drain", "oldest", "waitAll", "restore",
             "closing", "done", "failed"}
  /\ read \in [Tables -> Nat] /\ \A t \in Tables : read[t] <= Length(t)
  /\ cur \subseteq Tables /\ pendingDdls \subseteq Tables
  /\ pendingLoads \in Seq(LoadJobs) /\ visit \in Seq(LoadJobs)
  /\ queue \in Seq(Jobs) /\ held \subseteq Jobs \cup {Create(t) : t \in Tables}
  /\ okays \subseteq Jobs /\ fails \subseteq Jobs
  /\ hadLocal = Preserved

\* The loads that are waited for fit into the bound, also while some have been
\* looked at and others not.
BoundInv ==
  /\ IsFiniteSet(held) /\ Cardinality(held) <= NumWorkers
  /\ Len(pendingLoads) + Len(visit) <= MaxPending + 1
  /\ pc \in {"read", "backup", "waitAll"} => Len(pendingLoads) <= MaxPending /\ visit = << >>
  /\ pc = "oldest" => pendingLoads # << >> /\ visit = << >>

Queued(j) == \E n \in 1 .. Len(queue) : queue[n] = j
Flying(j) == Queued(j) \/ j \in held
DdlFlies(t) == Flying(Ddl(t)) \/ Create(t) \in held

\* No job is in two places.
OnceInv ==
  /\ \A m, n \in 1 .. Len(queue) : queue[m] = queue[n] => m = n
  /\ \A j \in held : ~Queued(j)
  /\ \A j \in okays \cup fails : ~Flying(j)
  /\ okays \cap fails = {}
  /\ \A t \in Tables : Create(t) \in held => ~Flying(Ddl(t)) /\ Ddl(t) \notin okays \cup fails

\* The pool rests before a run, while rows are restored, and after it.
RestInv ==
  pc \in {"idle", "clean", "restore", "done", "failed"} => queue = << >> /\ held = {}

\* A chunk is submitted when its table's job has been waited for.
ChunkInv ==
  \A t \in Tables : \A c \in 1 .. Chunks[t] :
    Flying(Chunk(t, c)) => t \in exists /\ ~DdlFlies(t) /\ c < read[t]

Active == pc \in {"read", "backup", "drain", "oldest", "waitAll"}

\* What the loop knows of a table's DDL job; who waits for it.
DdlInv(t) ==
  /\ DdlFlies(t) \/ Ddl(t) \in okays \cup fails => read[t] = 1 /\ t \notin cur
  /\ DdlFlies(t) \/ Ddl(t) \in fails => t \in pendingDdls
  /\ t \in cur => /\ cur = {t} /\ pc = "backup" /\ read[t] = 1 /\ t \notin Silent
                  /\ t \in mine => t \in saved
  /\ t \in backups => read[t] >= 1
  /\ t \notin Silent /\ read[t] >= 1 /\ t \notin cur /\ ~DdlFlies(t) /\ Ddl(t) \notin fails =>
       t \in exists

Pending(j) ==
  \/ \E n \in 1 .. Len(pendingLoads) : pendingLoads[n] = j
  \/ \E n \in 1 .. Len(visit) : visit[n] = j

\* Once the table is dropped, a chunk is in if it was submitted and has ended
\* well, and may be in if it has failed; the others are waited for.
LoadInv(t, c) ==
  /\ Flying(Chunk(t, c)) \/ Chunk(t, c) \in okays \cup fails => c < read[t]
  /\ Flying(Chunk(t, c)) \/ Chunk(t, c) \in fails => Pending(Chunk(t, c))
  /\ /\ read[t] >= 1 /\ t \notin cur /\ ~Flying(Ddl(t)) /\ Ddl(t) \notin fails
     /\ Chunk(t, c) \notin fails
     => rows[<<t, c>>] = IF c < read[t] /\ ~Flying(Chunk(t, c)) THEN 1 ELSE 0

ActiveInv ==
  Active =>
    /\ ~ckpt
    /\ \A t \in Tables : DdlInv(t) /\ \A c \in 1 .. Chunks[t] : LoadInv(t, c)
    /\ pc = "waitAll" => \A t \in Tables : read[t] = Length(t)

\* The preserved rows: a table that will be dropped has them in its backup, a
\* backup that will be dropped has given them back.
KeepInv ==
  /\ KeptRowsSurvive
  /\ \A t \in Tables : Flying(Ddl(t)) /\ t \in mine => t \in saved
  /\ pc = "restore" => \A t \in cur : t \in saved => t \in mine

DoneInv ==
  /\ pc \in {"restore", "done"} =>
       ~ckpt /\ (\A p \in Pieces : rows[p] = 1) /\ Tables \ Silent \subseteq exists
  /\ pc = "done" => backups = {}

IInv ==
  /\ TypeInv /\ BoundInv /\ OnceInv /\ RestInv /\ ChunkInv /\ ActiveInv /\ KeepInv
  /\ DoneInv

-----------------------------------------------------------------------------
(* Jobs *)

\* A piece is a table with the number of one of its chunks.
LEMMA PieceType ==
  /\ \A t \in Tables : \A c \in 1 .. Chunks[t] : <<t, c>> \in Pieces
  /\ \A p \in Pieces : \E t \in Tables : \E c \in 1 .. Chunks[t] : p = <<t, c>>
BY DEF Pieces

\* The fields of the three kinds of jobs.
LEMMA JobFields ==
  ASSUME NEW t, NEW c
  PROVE  /\ Ddl(t).op = "ddl" /\ Ddl(t).table = t
         /\ Create(t).op = "create" /\ Create(t).table = t
         /\ Chunk(t, c).op = "load" /\ Chunk(t, c).table = t /\ Chunk(t, c).chunk = c
BY DEF Ddl, Create, Chunk

\* Jobs of different kinds, tables or chunks are different jobs.
LEMMA JobsDiffer ==
  /\ \A t, u : Ddl(t) = Ddl(u) => t = u
  /\ \A t, u : Create(t) = Create(u) => t = u
  /\ \A t, u, c, d : Chunk(t, c) = Chunk(u, d) => t = u /\ c = d
  /\ \A t, u, c : Ddl(t) # Chunk(u, c) /\ Create(t) # Chunk(u, c) /\ Ddl(t) # Create(u)
<1>1. /\ \A t, u : Ddl(t) = Ddl(u) => t = u
      /\ \A t, u : Create(t) = Create(u) => t = u
  BY JobFields
<1>2. \A t, u, c, d : Chunk(t, c) = Chunk(u, d) => t = u /\ c = d
  BY JobFields
<1>3. \A t, u, c : Ddl(t) # Chunk(u, c) /\ Create(t) # Chunk(u, c) /\ Ddl(t) # Create(u)
  BY JobFields
<1> QED
  BY <1>1, <1>2, <1>3

\* A job of the queue is the DDL of a table or the load of a chunk.
LEMMA JobCases ==
  ASSUME NEW j \in Jobs
  PROVE  \/ \E t \in Tables : j = Ddl(t)
         \/ \E t \in Tables : \E c \in 1 .. Chunks[t] : j = Chunk(t, c)
<1>1. CASE j \in DdlJobs
  BY <1>1 DEF DdlJobs
<1>2. CASE j \in LoadJobs
  <2>1. PICK p \in Pieces : j = Chunk(p[1], p[2])
    BY <1>2 DEF LoadJobs
  <2>2. PICK t \in Tables : \E c \in 1 .. Chunks[t] : p = <<t, c>>
    BY PieceType
  <2>3. PICK c \in 1 .. Chunks[t] : p = <<t, c>>
    BY <2>2
  <2>4. j = Chunk(t, c)
    BY <2>1, <2>3
  <2> QED
    BY <2>4
<1> QED
  BY <1>1, <1>2 DEF Jobs

\* What the reader submits is a job; the second half of a DDL never goes through the queue.
LEMMA JobType ==
  /\ \A t \in Tables : Ddl(t) \in Jobs /\ Create(t) \notin Jobs
  /\ \A t \in Tables : \A c \in 1 .. Chunks[t] : Chunk(t, c) \in LoadJobs /\ Chunk(t, c) \in Jobs
<1>1. \A t \in Tables : Ddl(t) \in Jobs
  BY DEF Jobs, DdlJobs
<1>2. \A t \in Tables : Create(t) \notin Jobs
  BY JobCases, JobsDiffer
<1>3. ASSUME NEW t \in Tables, NEW c \in 1 .. Chunks[t] PROVE Chunk(t, c) \in LoadJobs
  <2>1. <<t, c>> \in Pieces /\ <<t, c>>[1] = t /\ <<t, c>>[2] = c
    BY PieceType
  <2> QED
    BY <2>1 DEF LoadJobs
<1> QED
  BY <1>1, <1>2, <1>3 DEF Jobs

\* What a worker holds.
LEMMA HeldCases ==
  ASSUME TypeInv, NEW i \in held
  PROVE  \/ \E t \in Tables : i = Ddl(t)
         \/ \E t \in Tables : i = Create(t)
         \/ \E t \in Tables : \E c \in 1 .. Chunks[t] : i = Chunk(t, c)
<1>1. i \in Jobs \/ \E t \in Tables : i = Create(t)
  BY DEF TypeInv
<1> QED
  BY <1>1, JobCases

\* A table in the dump has a header, its chunks and an end; a silent one its header alone.
LEMMA LengthType ==
  \A t \in Tables : /\ Chunks[t] \in Nat /\ Length(t) \in Nat /\ Length(t) >= 1
                    /\ t \notin Silent => Length(t) = Chunks[t] + 2
                    /\ t \in Silent => Chunks[t] = 0 /\ Length(t) = 1
BY LoadAssumption DEF Length

\* Submitting a job: it is queued, and a job that was not queued keeps the queue without repetition.
LEMMA QueuedAppend ==
  ASSUME NEW j \in Jobs, queue \in Seq(Jobs), queue' = Append(queue, j)
  PROVE  /\ queue' \in Seq(Jobs)
         /\ \A k : Queued(k)' <=> Queued(k) \/ k = j
         /\ ~Queued(j) /\ (\A m, n \in 1 .. Len(queue) : queue[m] = queue[n] => m = n)
              => \A m, n \in 1 .. Len(queue') : queue'[m] = queue'[n] => m = n
<1>1. /\ queue' \in Seq(Jobs) /\ Len(queue') = Len(queue) + 1 /\ Len(queue) \in Nat
      /\ \A n \in 1 .. Len(queue) : queue'[n] = queue[n] /\ n \in 1 .. Len(queue')
      /\ queue'[Len(queue) + 1] = j
  OBVIOUS
<1>2. \A n \in 1 .. Len(queue') : n \in 1 .. Len(queue) \/ n = Len(queue) + 1
  BY <1>1
<1>3. Len(queue) + 1 \in 1 .. Len(queue')
  BY <1>1
<1>4. \A k : Queued(k)' <=> Queued(k) \/ k = j
  BY <1>1, <1>2, <1>3 DEF Queued
<1>5. ASSUME ~Queued(j), \A m, n \in 1 .. Len(queue) : queue[m] = queue[n] => m = n,
             NEW m \in 1 .. Len(queue'), NEW n \in 1 .. Len(queue'), queue'[m] = queue'[n]
      PROVE  m = n
  BY <1>1, <1>2, <1>5 DEF Queued
<1> QED
  BY <1>1, <1>4, <1>5

\* A worker taking a job: only that job leaves the queue.
LEMMA QueuedTail ==
  ASSUME queue \in Seq(Jobs), queue # << >>, queue' = Tail(queue),
         \A m, n \in 1 .. Len(queue) : queue[m] = queue[n] => m = n
  PROVE  /\ queue' \in Seq(Jobs) /\ Head(queue) \in Jobs /\ Queued(Head(queue))
         /\ \A k : Queued(k)' <=> Queued(k) /\ k # Head(queue)
         /\ \A m, n \in 1 .. Len(queue') : queue'[m] = queue'[n] => m = n
<1>1. /\ queue' \in Seq(Jobs) /\ Len(queue') = Len(queue) - 1 /\ Len(queue) \in Nat \ {0}
      /\ \A n \in 1 .. Len(queue') : queue'[n] = queue[n + 1] /\ n + 1 \in 1 .. Len(queue)
      /\ Head(queue) = queue[1] /\ Head(queue) \in Jobs /\ 1 \in 1 .. Len(queue)
  OBVIOUS
<1>2. \A m, n \in 1 .. Len(queue') : queue'[m] = queue'[n] => m = n
  <2> TAKE m, n \in 1 .. Len(queue')
  <2> HAVE queue'[m] = queue'[n]
  <2>1. m + 1 = n + 1
    BY <1>1
  <2> QED
    BY <2>1
<1>3. ASSUME NEW k, Queued(k)' PROVE Queued(k) /\ k # Head(queue)
  <2>1. PICK n \in 1 .. Len(queue') : queue'[n] = k
    BY <1>3 DEF Queued
  <2>2. PICK m \in 1 .. Len(queue) : m = n + 1 /\ queue[m] = k
    BY <1>1, <2>1
  <2>3. m # 1
    BY <2>2
  <2>4. k # queue[1]
    BY <1>1, <2>2, <2>3
  <2> QED
    BY <1>1, <2>2, <2>4 DEF Queued
<1>4. ASSUME NEW k, Queued(k), k # Head(queue) PROVE Queued(k)'
  <2>1. PICK m \in 1 .. Len(queue) : queue[m] = k
    BY <1>4 DEF Queued
  <2>2. m # 1
    BY <1>1, <1>4, <2>1
  <2>3. m - 1 \in 1 .. Len(queue') /\ (m - 1) + 1 = m
    BY <1>1, <2>2
  <2>4. queue'[m - 1] = k
    BY <1>1, <2>1, <2>3
  <2> QED
    BY <2>3, <2>4 DEF Queued
<1> QED
  BY <1>1, <1>2, <1>3, <1>4 DEF Queued

-----------------------------------------------------------------------------
(* Before and after the records *)

\* With nothing queued or held no job is under way.
LEMMA EmptyPool ==
  ASSUME queue = << >>, held = {}
  PROVE  /\ \A j : ~Flying(j)
         /\ \A t : ~DdlFlies(t)
         /\ IsFiniteSet(held) /\ Cardinality(held) <= NumWorkers
<1>1. \A j : ~Flying(j)
  BY DEF Flying, Queued
<1>2. IsFiniteSet(held) /\ Cardinality(held) = 0
  BY FS_EmptySet
<1> QED
  BY <1>1, <1>2, LoadAssumption DEF DdlFlies

\* The invariant holds of a load that has not begun.
LEMMA InitInv == Init => IInv
<1> SUFFICES ASSUME Init PROVE IInv
  OBVIOUS
<1>1. \A j : ~Flying(j) /\ ~Queued(j)
  BY DEF Init, Flying, Queued
<1>2. \A t : ~DdlFlies(t)
  BY <1>1 DEF DdlFlies, Init
<1>3. TypeInv
  BY LengthType, LoadAssumption DEF Init, TypeInv
<1>4. BoundInv
  BY EmptyPool, LoadAssumption DEF Init, BoundInv
<1>5. OnceInv /\ RestInv /\ ChunkInv
  BY <1>1, <1>2 DEF Init, OnceInv, RestInv, ChunkInv
<1>6. ActiveInv /\ DoneInv
  BY DEF Init, ActiveInv, DoneInv, Active
<1>7. KeepInv
  BY <1>1 DEF Init, KeepInv, KeptRowsSurvive
<1> QED
  BY <1>3, <1>4, <1>5, <1>6, <1>7 DEF IInv

\* A run begins with nothing left behind.
LEMMA BeginStep ==
  ASSUME IInv, BeginRecords, backups = {}, backups' = {}, ckpt' = FALSE,
         UNCHANGED <<exists, mine, rows, saved, hadLocal, discarded>>
  PROVE  IInv'
<1> USE DEF IInv
<1>1. \A j : ~Flying(j)' /\ ~Queued(j)'
  BY DEF BeginRecords, Flying, Queued
<1>2. \A t : ~DdlFlies(t)'
  BY <1>1 DEF DdlFlies, BeginRecords
<1>3. TypeInv'
  <2>1. read' \in [Tables -> Nat] /\ \A t \in Tables : read'[t] <= Length(t)
    BY LengthType DEF BeginRecords
  <2>2. << >> \in Seq(LoadJobs) /\ << >> \in Seq(Jobs)
    OBVIOUS
  <2> QED
    BY <2>1, <2>2 DEF TypeInv, BeginRecords
<1>4. BoundInv'
  <2>1. IsFiniteSet({}) /\ Cardinality({}) = 0
    BY FS_EmptySet
  <2> QED
    BY <2>1, LoadAssumption DEF BoundInv, BeginRecords
<1>5. OnceInv' /\ RestInv' /\ ChunkInv'
  BY <1>1, <1>2 DEF BeginRecords, OnceInv, RestInv, ChunkInv
<1>6. ActiveInv'
  <2>1. ASSUME NEW t \in Tables PROVE DdlInv(t)'
    BY <1>2 DEF DdlInv, BeginRecords
  <2>2. ASSUME NEW t \in Tables, NEW c \in 1 .. Chunks[t] PROVE LoadInv(t, c)'
    BY <1>1 DEF LoadInv, BeginRecords
  <2> QED
    BY <2>1, <2>2 DEF ActiveInv, BeginRecords
<1>7. KeepInv'
  BY <1>1 DEF KeepInv, KeptRowsSurvive, BeginRecords
<1>8. DoneInv'
  BY DEF DoneInv, BeginRecords
<1> QED
  BY <1>3, <1>4, <1>5, <1>6, <1>7, <1>8

\* Beginning a load and dropping a checkpoint keep the invariant.
LEMMA Starts ==
  ASSUME IInv, StartLoad \/ CleanCheckpoint
  PROVE  IInv'
<1>1. CASE StartLoad
  <2>1. backups = {} /\ ~ckpt /\ UNCHANGED <<exists, mine, rows, backups, saved, ckpt, hadLocal, discarded>>
    BY <1>1 DEF StartLoad, PreviousState, db, hist
  <2> QED
    BY <1>1, <2>1, BeginStep DEF StartLoad, IInv, TypeInv
<1>2. CASE CleanCheckpoint
  BY <1>2, BeginStep DEF CleanCheckpoint, hist
<1> QED
  BY <1>1, <1>2

\* Steps that only change what the loop does next.
Aside ==
  /\ UNCHANGED <<db, loop, pool, hadLocal, discarded>>
  /\ \/ pc = "idle" /\ pc' = "clean"
     \/ pc \in {"done", "failed"} /\ pc' = "idle"
     \/ pc = "clean" /\ pc' = "failed"
     \/ pc \in {"read", "backup", "drain", "oldest", "waitAll", "restore"} /\ pc' = "closing"
     \/ pc = "closing" /\ pc' = "failed" /\ queue = << >> /\ held = {}
     \/ pc = "restore" /\ pc' = "done" /\ cur = {} /\ backups = {}
     \/ pc = "read" /\ pc' = "waitAll" /\ \A t \in Tables : read[t] = Length(t)
     \/ /\ pc = "drain" /\ visit = << >>
        /\ pc' = IF Len(pendingLoads) > MaxPending THEN "oldest" ELSE "read"

\* The steps that move the program counter and touch neither jobs nor tables.
LEMMA IsAside ==
  ASSUME TypeInv, StartClean \/ DrainEnd \/ ReadEnd \/ Succeed \/ JobFailed \/ Close \/ ReadEof
                  \/ StatementFails \/ Again
  PROVE  Aside
<1>1. CASE JobFailed
  <2>1. pc \in {"read", "drain", "oldest", "waitAll"}
    BY <1>1 DEF JobFailed, Awaited
  <2> QED
    BY <1>1, <2>1 DEF JobFailed, Aside, hist
<1>2. CASE StartClean \/ DrainEnd \/ ReadEnd \/ Succeed \/ Close \/ ReadEof \/ Again
  BY <1>2 DEF StartClean, DrainEnd, ReadEnd, Succeed, Close, ReadEof, Again, Aside, hist
<1>3. CASE StatementFails
  BY <1>3 DEF StatementFails, Aside
<1> QED
  BY <1>1, <1>2, <1>3

\* Such a step keeps the invariant.
LEMMA AsideStep ==
  ASSUME IInv, Aside
  PROVE  IInv'
<1> USE DEF IInv
<1>0. /\ UNCHANGED <<exists, mine, rows, backups, saved, ckpt>>
      /\ UNCHANGED <<read, cur, pendingDdls, pendingLoads, visit>>
      /\ UNCHANGED <<queue, held, okays, fails, hadLocal, discarded>>
  BY DEF Aside, db, loop, pool
<1>1. TypeInv'
  BY <1>0 DEF TypeInv, Aside
<1>2. BoundInv'
  BY <1>0, LoadAssumption DEF BoundInv, Aside, TypeInv
<1>3. OnceInv' /\ ChunkInv'
  BY <1>0 DEF OnceInv, ChunkInv, Flying, Queued, DdlFlies
<1>4. RestInv'
  BY <1>0 DEF RestInv, Aside
<1>5. ActiveInv'
  <2>1. CASE ~Active'
    BY <2>1 DEF ActiveInv
  <2>2. CASE Active'
    <3>1. Active /\ pc' # "backup" /\ pc # "backup"
      BY <2>2 DEF Active, Aside
    <3>2. \A t \in Tables : DdlInv(t) /\ \A c \in 1 .. Chunks[t] : LoadInv(t, c)
      BY <3>1 DEF ActiveInv
    <3>3. ASSUME NEW t \in Tables PROVE DdlInv(t)'
      BY <1>0, <3>1, <3>2 DEF DdlInv, Flying, Queued, DdlFlies
    <3>4. ASSUME NEW t \in Tables, NEW c \in 1 .. Chunks[t] PROVE LoadInv(t, c)'
      <4>1. LoadInv(t, c)
        BY <3>2
      <4> QED
        BY <1>0, <4>1 DEF LoadInv, Flying, Queued, Pending
    <3>5. pc' = "waitAll" => \A t \in Tables : read[t] = Length(t)
      BY DEF Aside
    <3> QED
      BY <1>0, <3>1, <3>3, <3>4, <3>5 DEF ActiveInv
  <2> QED
    BY <2>1, <2>2
<1>6. KeepInv'
  BY <1>0 DEF KeepInv, KeptRowsSurvive, Flying, Queued, Aside
<1>7. DoneInv'
  BY <1>0 DEF DoneInv, Aside
<1> QED
  BY <1>1, <1>2, <1>3, <1>4, <1>5, <1>6, <1>7

\* While the pool rests, only the preserved rows move.
LEMMA RestStep ==
  ASSUME IInv, pc \in {"clean", "restore"}, UNCHANGED <<exists, rows, ckpt, pc, read>>,
         UNCHANGED <<pendingDdls, pendingLoads, visit, queue, held, okays, fails, hadLocal>>,
         backups' \subseteq backups, saved' \subseteq backups', cur' \subseteq Tables,
         mine' \subseteq exists \cap Preserved, KeptRowsSurvive',
         pc = "restore" => \A t \in cur' : t \in saved' => t \in mine'
  PROVE  IInv'
<1> USE DEF IInv
<1>0. queue = << >> /\ held = {} /\ queue' = << >> /\ held' = {}
  BY DEF RestInv
<1>1. TypeInv'
  BY DEF TypeInv
<1>2. BoundInv'
  BY DEF BoundInv
<1>3. \A j : ~Flying(j)' /\ ~Queued(j)'
  BY <1>0 DEF Flying, Queued
<1>4. OnceInv' /\ ChunkInv' /\ RestInv'
  BY <1>0, <1>3 DEF OnceInv, ChunkInv, RestInv
<1>5. ActiveInv'
  BY DEF ActiveInv, Active
<1>6. KeepInv'
  BY <1>3 DEF KeepInv
<1>7. DoneInv'
  BY DEF DoneInv
<1> QED
  BY <1>1, <1>2, <1>4, <1>5, <1>6, <1>7

\* Removing old backups, restoring rows and dropping backups keep the invariant.
LEMMA RestSteps ==
  ASSUME IInv, NEW t \in Tables, CleanBackup(t) \/ RestoreRows(t) \/ DropBackup(t)
  PROVE  IInv'
<1> USE DEF IInv
<1>0. /\ hadLocal = Preserved /\ saved \subseteq backups /\ backups \subseteq Preserved
      /\ mine \subseteq exists /\ mine \subseteq Preserved /\ cur \subseteq Tables
      /\ hadLocal \ discarded \subseteq mine \cup saved
  BY DEF TypeInv, KeepInv, KeptRowsSurvive
<1>1. CASE CleanBackup(t)
  <2>1. KeptRowsSurvive'
    BY <1>0, <1>1 DEF CleanBackup, KeptRowsSurvive
  <2> QED
    BY <1>0, <1>1, <2>1, RestStep DEF CleanBackup, loop, pool
<1>2. CASE RestoreRows(t)
  <2>1. KeptRowsSurvive'
    BY <1>0, <1>2 DEF RestoreRows, KeptRowsSurvive, hist
  <2>2. mine' \subseteq exists \cap Preserved
    BY <1>0, <1>2 DEF RestoreRows
  <2> QED
    BY <1>0, <1>2, <2>1, <2>2, RestStep DEF RestoreRows, pool, hist
<1>3. CASE DropBackup(t)
  <2>1. t \in saved => t \in mine
    BY <1>3 DEF DropBackup, KeepInv
  <2>2. KeptRowsSurvive'
    BY <1>0, <1>3, <2>1 DEF DropBackup, KeptRowsSurvive, hist
  <2> QED
    BY <1>0, <1>3, <2>2, RestStep DEF DropBackup, pool, hist
<1> QED
  BY <1>1, <1>2, <1>3

\* The process is killed, and its workers with it.
LEMMA KillStep ==
  ASSUME IInv, Kill
  PROVE  IInv'
<1> USE DEF IInv
<1>0. /\ queue' = << >> /\ held' = {} /\ pc' = "failed"
      /\ UNCHANGED <<exists, mine, rows, backups, saved, ckpt, read, cur, pendingDdls>>
      /\ UNCHANGED <<pendingLoads, visit, okays, fails, hadLocal, discarded>>
  BY DEF Kill, db, loop
<1>1. \A j : ~Flying(j)' /\ ~Queued(j)'
  BY <1>0 DEF Flying, Queued
<1>2. TypeInv'
  BY <1>0 DEF TypeInv
<1>3. BoundInv'
  <2>1. IsFiniteSet({}) /\ Cardinality({}) = 0
    BY FS_EmptySet
  <2> QED
    BY <1>0, <2>1, LoadAssumption DEF BoundInv
<1>4. OnceInv' /\ ChunkInv' /\ RestInv'
  BY <1>0, <1>1 DEF OnceInv, ChunkInv, RestInv
<1>5. ActiveInv' /\ DoneInv'
  BY <1>0 DEF ActiveInv, Active, DoneInv
<1>6. KeepInv'
  BY <1>0, <1>1 DEF KeepInv, KeptRowsSurvive
<1> QED
  BY <1>2, <1>3, <1>4, <1>5, <1>6

-----------------------------------------------------------------------------
(* The loader pool *)

\* A step of the pool concerns neither the loop nor the backups.
PoolFrame ==
  /\ UNCHANGED <<backups, saved, ckpt, pc, read, cur, pendingDdls, pendingLoads, visit>>
  /\ UNCHANGED <<hadLocal, discarded>>

\* Jobs are under way only while the dump is being read and drained.
LEMMA Working ==
  ASSUME RestInv, queue # << >> \/ held # {}
  PROVE  pc \notin {"idle", "clean", "restore", "done", "failed"}
BY DEF RestInv

\* A worker that goes on to its next step, or ends, leaves the pool within its bound.
LEMMA HeldLess ==
  ASSUME BoundInv, NEW i \in held, NEW k
  PROVE  /\ IsFiniteSet(held \ {i}) /\ Cardinality(held \ {i}) <= NumWorkers
         /\ IsFiniteSet((held \ {i}) \cup {k}) /\ Cardinality((held \ {i}) \cup {k}) <= NumWorkers
<1>1. IsFiniteSet(held) /\ Cardinality(held) <= NumWorkers /\ Cardinality(held) \in Nat
  BY FS_CardinalityType DEF BoundInv
<1>2. IsFiniteSet(held \ {i}) /\ Cardinality(held \ {i}) = Cardinality(held) - 1
  BY <1>1, FS_RemoveElement
<1>3. /\ IsFiniteSet((held \ {i}) \cup {k})
      /\ \/ Cardinality((held \ {i}) \cup {k}) = Cardinality(held \ {i})
         \/ Cardinality((held \ {i}) \cup {k}) = Cardinality(held \ {i}) + 1
  BY <1>2, FS_AddElement
<1> QED
  BY <1>1, <1>2, <1>3, LoadAssumption

\* A worker taking a job keeps the invariant.
LEMMA TakeStep ==
  ASSUME IInv, TakeWork
  PROVE  IInv'
<1> USE DEF IInv
<1> DEFINE j == Head(queue)
<1>1. /\ queue # << >> /\ queue' = Tail(queue) /\ held' = held \cup {j}
      /\ Cardinality(held) < NumWorkers /\ PoolFrame
      /\ UNCHANGED <<exists, mine, rows, okays, fails>>
  BY DEF TakeWork, PoolFrame, db, loop, hist
<1>2. /\ queue' \in Seq(Jobs) /\ j \in Jobs /\ Queued(j)
      /\ \A k : Queued(k)' <=> Queued(k) /\ k # j
      /\ \A m, n \in 1 .. Len(queue') : queue'[m] = queue'[n] => m = n
  BY <1>1, QueuedTail DEF TypeInv, OnceInv
<1> HIDE DEF j
<1>3. \A k : Flying(k)' <=> Flying(k)
  BY <1>1, <1>2 DEF Flying
<1>4. \A t \in Tables : /\ Create(t) \in held' <=> Create(t) \in held
                        /\ DdlFlies(t)' <=> DdlFlies(t)
  BY <1>1, <1>2, <1>3, JobType DEF DdlFlies
<1>5. TypeInv'
  BY <1>1, <1>2 DEF TypeInv, PoolFrame
<1>6. BoundInv'
  <2>1. IsFiniteSet(held) /\ Cardinality(held) \in Nat
    BY FS_CardinalityType DEF BoundInv
  <2>2. /\ IsFiniteSet(held')
        /\ Cardinality(held') = Cardinality(held) \/ Cardinality(held') = Cardinality(held) + 1
    BY <1>1, <2>1, FS_AddElement
  <2>3. Cardinality(held') <= NumWorkers
    BY <1>1, <2>1, <2>2, LoadAssumption
  <2> QED
    BY <1>1, <2>2, <2>3 DEF BoundInv, PoolFrame
<1>7. OnceInv'
  <2>1. \A k \in held' : ~Queued(k)'
    BY <1>1, <1>2 DEF OnceInv
  <2>2. \A k \in okays \cup fails : ~Flying(k)'
    BY <1>3 DEF OnceInv
  <2>3. \A t \in Tables : Create(t) \in held' => ~Flying(Ddl(t))'
    BY <1>3, <1>4 DEF OnceInv
  <2> QED
    BY <1>1, <1>2, <1>4, <2>1, <2>2, <2>3 DEF OnceInv
<1>8. RestInv' /\ DoneInv'
  BY <1>1, Working DEF RestInv, DoneInv, PoolFrame
<1>9. ChunkInv'
  BY <1>1, <1>3, <1>4 DEF ChunkInv, PoolFrame
<1>10. ActiveInv'
  <2> SUFFICES ASSUME Active' PROVE ActiveInv'
    BY DEF ActiveInv
  <2>1. /\ Active /\ \A t \in Tables : DdlInv(t) /\ \A c \in 1 .. Chunks[t] : LoadInv(t, c)
    BY <1>1 DEF ActiveInv, Active, PoolFrame
  <2>2. ASSUME NEW t \in Tables PROVE DdlInv(t)'
    <3>1. DdlInv(t) /\ (DdlFlies(t)' <=> DdlFlies(t))
      BY <1>4, <2>1
    <3> QED
      BY <1>1, <3>1 DEF DdlInv, PoolFrame
  <2>3. ASSUME NEW t \in Tables, NEW c \in 1 .. Chunks[t] PROVE LoadInv(t, c)'
    <3>1. LoadInv(t, c) /\ (Pending(Chunk(t, c))' <=> Pending(Chunk(t, c)))
      BY <1>1, <2>1 DEF Pending, PoolFrame
    <3>2. (Flying(Chunk(t, c))' <=> Flying(Chunk(t, c))) /\ (Flying(Ddl(t))' <=> Flying(Ddl(t)))
      BY <1>3
    <3> QED
      BY <1>1, <3>1, <3>2 DEF LoadInv, PoolFrame
  <2> QED
    BY <1>1, <2>1, <2>2, <2>3 DEF ActiveInv, PoolFrame
<1>11. KeepInv'
  BY <1>1, <1>3 DEF KeepInv, KeptRowsSurvive, PoolFrame
<1> QED
  BY <1>5, <1>6, <1>7, <1>8, <1>9, <1>10, <1>11

\* Dropping the old table of a DDL job keeps the invariant.
LEMMA DropStep ==
  ASSUME IInv, NEW i \in held, DropTable(i)
  PROVE  IInv'
<1> USE DEF IInv
<1>0. PICK u \in Tables : i = Ddl(u) /\ i.table = u
  BY HeldCases, JobFields DEF DropTable
<1>1. /\ exists' = exists \ {u} /\ mine' = mine \ {u}
      /\ rows' = [p \in Pieces |-> IF p[1] = u THEN 0 ELSE rows[p]]
      /\ held' = (held \ {Ddl(u)}) \cup {Create(u)} /\ PoolFrame
      /\ UNCHANGED <<queue, okays, fails>>
  BY <1>0 DEF DropTable, Drop, PoolFrame, loop, hist
<1>2. \A k : Queued(k)' <=> Queued(k)
  BY <1>1 DEF Queued
<1>3. Ddl(u) \in held /\ Flying(Ddl(u)) /\ ~Queued(Ddl(u))
  BY <1>0 DEF Flying, OnceInv
<1>4. \A k \in Jobs : Flying(k)' <=> Flying(k) /\ k # Ddl(u)
  BY <1>1, <1>2, <1>3, JobType DEF Flying
<1>5. \A t \in Tables : /\ Create(t) \in held' <=> Create(t) \in held \/ t = u
                        /\ DdlFlies(t)' <=> DdlFlies(t)
  <2> TAKE t \in Tables
  <2>1. Create(t) \in held' <=> Create(t) \in held \/ t = u
    BY <1>1, JobsDiffer
  <2>2. Flying(Ddl(t))' <=> Flying(Ddl(t)) /\ t # u
    BY <1>4, JobType, JobsDiffer
  <2> QED
    BY <1>3, <2>1, <2>2 DEF DdlFlies
<1>6. TypeInv'
  <2>1. rows' \in [Pieces -> Nat]
    BY <1>1 DEF TypeInv
  <2> QED
    BY <1>1, <2>1 DEF TypeInv, PoolFrame
<1>7. BoundInv'
  BY <1>0, <1>1, HeldLess DEF BoundInv, PoolFrame
<1>8. OnceInv'
  <2>1. \A k \in held' : ~Queued(k)'
    <3>1. ~Queued(Create(u))
      BY JobType DEF Queued, TypeInv
    <3> QED
      BY <1>1, <1>2, <3>1 DEF OnceInv
  <2>2. \A k \in okays \cup fails : ~Flying(k)'
    BY <1>4 DEF OnceInv, TypeInv
  <2>3. \A t \in Tables : Create(t) \in held' =>
          ~Flying(Ddl(t))' /\ Ddl(t) \notin okays \cup fails
    BY <1>3, <1>4, <1>5, JobType DEF OnceInv
  <2> QED
    BY <1>1, <2>1, <2>2, <2>3 DEF OnceInv
<1>9. RestInv' /\ DoneInv'
  BY <1>1, Working DEF RestInv, DoneInv, PoolFrame
<1>10. ASSUME NEW t \in Tables, NEW c \in 1 .. Chunks[t]
       PROVE  /\ Flying(Chunk(t, c))' <=> Flying(Chunk(t, c))
              /\ Flying(Chunk(t, c)) => t # u
  <2>1. Flying(Chunk(t, c))' <=> Flying(Chunk(t, c))
    BY <1>4, JobType, JobsDiffer
  <2>2. Flying(Chunk(t, c)) => t # u
    BY <1>3 DEF ChunkInv, DdlFlies
  <2> QED
    BY <2>1, <2>2
<1>11. ChunkInv'
  BY <1>1, <1>5, <1>10 DEF ChunkInv, PoolFrame
<1>12. ActiveInv'
  <2> SUFFICES ASSUME Active' PROVE ActiveInv'
    BY DEF ActiveInv
  <2>1. /\ Active /\ \A t \in Tables : DdlInv(t) /\ \A c \in 1 .. Chunks[t] : LoadInv(t, c)
    BY <1>1 DEF ActiveInv, Active, PoolFrame
  <2>2. ASSUME NEW t \in Tables PROVE DdlInv(t)'
    <3>1. DdlInv(t) /\ (DdlFlies(t)' <=> DdlFlies(t)) /\ (t = u => DdlFlies(t))
      BY <1>3, <1>5, <2>1 DEF DdlFlies
    <3> QED
      BY <1>1, <3>1 DEF DdlInv, PoolFrame
  <2>3. ASSUME NEW t \in Tables, NEW c \in 1 .. Chunks[t] PROVE LoadInv(t, c)'
    <3>1. LoadInv(t, c) /\ DdlInv(t) /\ (Pending(Chunk(t, c))' <=> Pending(Chunk(t, c)))
      BY <1>1, <2>1 DEF Pending, PoolFrame
    <3>2. Flying(Chunk(t, c))' <=> Flying(Chunk(t, c))
      BY <1>10
    <3>3. rows'[<<t, c>>] = IF t = u THEN 0 ELSE rows[<<t, c>>]
      BY <1>1, PieceType
    <3>4. CASE t # u
      <4>1. Flying(Ddl(t))' <=> Flying(Ddl(t))
        BY <1>4, <3>4, JobType, JobsDiffer
      <4> QED
        BY <1>1, <3>1, <3>2, <3>3, <3>4, <4>1 DEF LoadInv, PoolFrame
    <3>5. CASE t = u
      <4>1. read[t] = 1 /\ ~(c < 1)
        BY <1>3, <3>1, <3>5 DEF DdlInv, DdlFlies
      <4> QED
        BY <1>1, <3>1, <3>2, <3>3, <3>5, <4>1 DEF LoadInv, PoolFrame
    <3> QED
      BY <3>4, <3>5
  <2> QED
    BY <1>1, <2>1, <2>2, <2>3 DEF ActiveInv, PoolFrame
<1>13. KeepInv'
  <2>1. u \in mine => u \in saved
    BY <1>3 DEF KeepInv
  <2>2. \A t \in Tables : Flying(Ddl(t))' => Flying(Ddl(t))
    BY <1>4, JobType
  <2> QED
    BY <1>1, <1>9, <2>1, <2>2, Working DEF KeepInv, KeptRowsSurvive, PoolFrame
<1> QED
  BY <1>6, <1>7, <1>8, <1>9, <1>11, <1>12, <1>13

\* A job leaves its worker.
LEMMA Leaves ==
  ASSUME OnceInv, NEW i \in held, held' = held \ {i}, queue' = queue
  PROVE  /\ \A k : Queued(k)' <=> Queued(k)
         /\ \A k : Flying(k)' <=> Flying(k) /\ k # i
         /\ \A k \in held' : ~Queued(k)'
<1>1. \A k : Queued(k)' <=> Queued(k)
  BY DEF Queued
<1>2. ~Queued(i)
  BY DEF OnceInv
<1> QED
  BY <1>1, <1>2 DEF Flying, OnceInv

\* Creating the table of a DDL job keeps the invariant.
LEMMA CreateStep ==
  ASSUME IInv, NEW i \in held, CreateTable(i)
  PROVE  IInv'
<1> USE DEF IInv
<1>0. PICK u \in Tables : i = Create(u) /\ i.table = u
  BY HeldCases, JobFields DEF CreateTable
<1>1. /\ exists' = exists \cup {u} /\ held' = held \ {Create(u)} /\ okays' = okays \cup {Ddl(u)}
      /\ PoolFrame /\ UNCHANGED <<mine, rows, queue, fails>> /\ Create(u) \in held
  BY <1>0 DEF CreateTable, PoolFrame, loop, hist
<1>2. /\ \A k \in held' : ~Queued(k)'
      /\ \A k \in Jobs : Flying(k)' <=> Flying(k)
  BY <1>1, Leaves, JobType
<1>3. DdlFlies(u) /\ ~Flying(Ddl(u)) /\ Ddl(u) \notin okays \cup fails
  BY <1>1 DEF DdlFlies, OnceInv
<1>4. \A t \in Tables : /\ Create(t) \in held' <=> Create(t) \in held /\ t # u
                        /\ Flying(Ddl(t))' <=> Flying(Ddl(t))
                        /\ DdlFlies(t)' <=> DdlFlies(t) /\ t # u
  <2> TAKE t \in Tables
  <2>1. Create(t) \in held' <=> Create(t) \in held /\ t # u
    BY <1>1, JobsDiffer
  <2>2. Flying(Ddl(t))' <=> Flying(Ddl(t))
    BY <1>2, JobType
  <2> QED
    BY <1>3, <2>1, <2>2 DEF DdlFlies
<1>5. TypeInv'
  BY <1>1, JobType DEF TypeInv, PoolFrame
<1>6. BoundInv'
  BY <1>0, <1>1, HeldLess DEF BoundInv, PoolFrame
<1>7. OnceInv'
  <2>1. \A k \in okays' \cup fails' : ~Flying(k)'
    BY <1>1, <1>2, <1>3, JobType DEF OnceInv, TypeInv
  <2>2. okays' \cap fails' = {}
    BY <1>1, <1>3 DEF OnceInv
  <2>3. \A t \in Tables : Create(t) \in held' =>
          ~Flying(Ddl(t))' /\ Ddl(t) \notin okays' \cup fails'
    <3> TAKE t \in Tables
    <3>1. Create(t) \in held' => Create(t) \in held /\ Ddl(t) # Ddl(u)
      BY <1>4, JobsDiffer
    <3> QED
      BY <1>1, <1>4, <3>1 DEF OnceInv
  <2> QED
    BY <1>1, <1>2, <2>1, <2>2, <2>3 DEF OnceInv
<1>8. RestInv' /\ DoneInv'
  BY <1>1, Working DEF RestInv, DoneInv, PoolFrame
<1>9. \A t \in Tables : \A c \in 1 .. Chunks[t] : Flying(Chunk(t, c))' <=> Flying(Chunk(t, c))
  BY <1>2, JobType
<1>10. ChunkInv'
  BY <1>1, <1>4, <1>9 DEF ChunkInv, PoolFrame
<1>11. ActiveInv'
  <2> SUFFICES ASSUME Active' PROVE ActiveInv'
    BY DEF ActiveInv
  <2>1. /\ Active /\ \A t \in Tables : DdlInv(t) /\ \A c \in 1 .. Chunks[t] : LoadInv(t, c)
    BY <1>1 DEF ActiveInv, Active, PoolFrame
  <2>2. ASSUME NEW t \in Tables PROVE DdlInv(t)'
    <3>1. /\ DdlInv(t) /\ (DdlFlies(t)' <=> DdlFlies(t) /\ t # u) /\ (t = u => DdlFlies(t))
          /\ Ddl(t) \in okays' <=> Ddl(t) \in okays \/ t = u
      BY <1>1, <1>3, <1>4, <2>1, JobsDiffer
    <3> QED
      BY <1>1, <3>1 DEF DdlInv, PoolFrame
  <2>3. ASSUME NEW t \in Tables, NEW c \in 1 .. Chunks[t] PROVE LoadInv(t, c)'
    <3>1. LoadInv(t, c) /\ (Pending(Chunk(t, c))' <=> Pending(Chunk(t, c)))
      BY <1>1, <2>1 DEF Pending, PoolFrame
    <3>2. /\ Flying(Chunk(t, c))' <=> Flying(Chunk(t, c))
          /\ Flying(Ddl(t))' <=> Flying(Ddl(t))
          /\ Chunk(t, c) \in okays' <=> Chunk(t, c) \in okays
      BY <1>1, <1>4, <1>9, JobsDiffer
    <3> QED
      BY <1>1, <3>1, <3>2 DEF LoadInv, PoolFrame
  <2> QED
    BY <1>1, <2>1, <2>2, <2>3 DEF ActiveInv, PoolFrame
<1>12. KeepInv'
  BY <1>1, <1>4 DEF KeepInv, KeptRowsSurvive, PoolFrame
<1> QED
  BY <1>5, <1>6, <1>7, <1>8, <1>10, <1>11, <1>12

\* Loading a chunk keeps the invariant.
LEMMA LoadStep ==
  ASSUME IInv, NEW i \in held, LoadData(i)
  PROVE  IInv'
<1> USE DEF IInv
<1>0. PICK u \in Tables : \E d \in 1 .. Chunks[u] : i = Chunk(u, d)
  BY HeldCases, JobFields DEF LoadData
<1>0a. PICK d \in 1 .. Chunks[u] : i = Chunk(u, d)
  BY <1>0
<1>0b. i.table = u /\ i.chunk = d
  BY <1>0a, JobFields
<1>1. Flying(Chunk(u, d)) /\ u \in exists /\ ~DdlFlies(u) /\ d < read[u] /\ Chunk(u, d) \in held
  BY <1>0a DEF Flying, ChunkInv
<1>2. /\ rows' = [rows EXCEPT ![<<u, d>>] = @ + 1]
      /\ held' = held \ {Chunk(u, d)} /\ okays' = okays \cup {Chunk(u, d)}
      /\ PoolFrame /\ UNCHANGED <<exists, mine, queue, fails>>
  BY <1>0a, <1>0b, <1>1 DEF LoadData, Load, PoolFrame, loop, hist
<1>3. /\ \A k \in held' : ~Queued(k)'
      /\ \A k : Flying(k)' <=> Flying(k) /\ k # Chunk(u, d)
  BY <1>0a, <1>2, Leaves
<1>4. \A t \in Tables : /\ Create(t) \in held' <=> Create(t) \in held
                        /\ Flying(Ddl(t))' <=> Flying(Ddl(t))
                        /\ DdlFlies(t)' <=> DdlFlies(t)
                        /\ Ddl(t) \in okays' <=> Ddl(t) \in okays
  <2> TAKE t \in Tables
  <2>1. Create(t) # Chunk(u, d) /\ Ddl(t) # Chunk(u, d)
    BY JobsDiffer
  <2> QED
    BY <1>2, <1>3, <2>1 DEF DdlFlies
<1>5. <<u, d>> \in Pieces /\ rows[<<u, d>>] \in Nat
  BY PieceType DEF TypeInv
<1>6. TypeInv'
  <2>1. rows' \in [Pieces -> Nat]
    BY <1>2, <1>5 DEF TypeInv
  <2> QED
    BY <1>2, <2>1, JobType DEF TypeInv, PoolFrame
<1>7. BoundInv'
  BY <1>0a, <1>2, HeldLess DEF BoundInv, PoolFrame
<1>8. OnceInv'
  <2>1. Chunk(u, d) \notin okays \cup fails
    BY <1>1 DEF OnceInv
  <2>2. \A k \in okays' \cup fails' : ~Flying(k)'
    BY <1>2, <1>3 DEF OnceInv
  <2>3. okays' \cap fails' = {}
    BY <1>2, <2>1 DEF OnceInv
  <2>4. \A t \in Tables : Create(t) \in held' =>
          ~Flying(Ddl(t))' /\ Ddl(t) \notin okays' \cup fails'
    BY <1>2, <1>4 DEF OnceInv
  <2> QED
    BY <1>2, <1>3, <2>2, <2>3, <2>4 DEF OnceInv
<1>9. RestInv' /\ DoneInv'
  BY <1>2, Working DEF RestInv, DoneInv, PoolFrame
<1>10. \A t \in Tables : \A c \in 1 .. Chunks[t] : Flying(Chunk(t, c))' => Flying(Chunk(t, c))
  BY <1>3
<1>11. ChunkInv'
  BY <1>2, <1>4, <1>10 DEF ChunkInv, PoolFrame
<1>12. ActiveInv'
  <2> SUFFICES ASSUME Active' PROVE ActiveInv'
    BY DEF ActiveInv
  <2>1. /\ Active /\ \A t \in Tables : DdlInv(t) /\ \A c \in 1 .. Chunks[t] : LoadInv(t, c)
    BY <1>2 DEF ActiveInv, Active, PoolFrame
  <2>2. ASSUME NEW t \in Tables PROVE DdlInv(t)'
    <3>1. /\ DdlInv(t) /\ (DdlFlies(t)' <=> DdlFlies(t))
          /\ Ddl(t) \in okays' <=> Ddl(t) \in okays
      BY <1>4, <2>1
    <3> QED
      BY <1>2, <3>1 DEF DdlInv, PoolFrame
  <2>3. ASSUME NEW t \in Tables, NEW c \in 1 .. Chunks[t] PROVE LoadInv(t, c)'
    <3>1. LoadInv(t, c) /\ (Pending(Chunk(t, c))' <=> Pending(Chunk(t, c)))
      BY <1>2, <2>1 DEF Pending, PoolFrame
    <3>2. Flying(Ddl(t))' <=> Flying(Ddl(t))
      BY <1>4
    <3>3. CASE <<t, c>> # <<u, d>>
      <4>1. Chunk(t, c) # Chunk(u, d)
        BY <3>3, JobsDiffer
      <4>2. /\ Flying(Chunk(t, c))' <=> Flying(Chunk(t, c))
            /\ Chunk(t, c) \in okays' <=> Chunk(t, c) \in okays
        BY <1>2, <1>3, <4>1
      <4>3. rows'[<<t, c>>] = rows[<<t, c>>]
        BY <1>2, <3>3, PieceType DEF TypeInv
      <4> QED
        BY <1>2, <3>1, <3>2, <4>2, <4>3 DEF LoadInv, PoolFrame
    <3>4. CASE <<t, c>> = <<u, d>>
      <4>1. t = u /\ c = d
        BY <3>4
      <4>2. ~Flying(Chunk(t, c))' /\ Flying(Chunk(t, c)) /\ Chunk(t, c) \notin fails
        BY <1>1, <1>3, <4>1 DEF OnceInv
      <4>3. rows'[<<t, c>>] = rows[<<t, c>>] + 1
        BY <1>2, <1>5, <4>1 DEF TypeInv
      <4> QED
        BY <1>1, <1>2, <3>1, <3>2, <4>1, <4>2, <4>3 DEF LoadInv, PoolFrame
    <3> QED
      BY <3>3, <3>4
  <2> QED
    BY <1>2, <2>1, <2>2, <2>3 DEF ActiveInv, PoolFrame
<1>13. KeepInv'
  BY <1>2, <1>4 DEF KeepInv, KeptRowsSurvive, PoolFrame
<1> QED
  BY <1>6, <1>7, <1>8, <1>9, <1>11, <1>12, <1>13

\* A statement of a worker fails, before or after it took effect; of a table's
\* job, before or after the drop.
LEMMA WorkFailsStep ==
  ASSUME IInv, NEW i \in held, WorkFails(i)
  PROVE  IInv'
<1> USE DEF IInv
<1> DEFINE j == IF i.op = "load" THEN i ELSE Ddl(i.table)
<1>0. /\ held' = held \ {i} /\ fails' = fails \cup {j} /\ PoolFrame
      /\ UNCHANGED <<queue, okays>>
  BY DEF WorkFails, PoolFrame, loop, hist
<1>1. \/ \E u \in Tables : j = Ddl(u) /\ (i = Ddl(u) \/ i = Create(u))
      \/ \E u \in Tables : \E d \in 1 .. Chunks[u] : j = i /\ i = Chunk(u, d)
  <2>1. ASSUME NEW t \in Tables, i = Ddl(t) \/ i = Create(t)
        PROVE  j = Ddl(t) /\ (i = Ddl(t) \/ i = Create(t))
    <3>1. i.op # "load" /\ i.table = t
      BY <2>1, JobFields
    <3> QED
      BY <2>1, <3>1
  <2>2. CASE \E t \in Tables : \E c \in 1 .. Chunks[t] : i = Chunk(t, c)
    BY <2>2, JobFields
  <2> QED
    BY <2>1, <2>2, HeldCases
<1>2. /\ \A k \in held' : ~Queued(k)'
      /\ \A k : Flying(k)' <=> Flying(k) /\ k # i
  BY <1>0, Leaves
<1> HIDE DEF j
<1>3. j \in Jobs /\ ~Flying(j)' /\ j \notin okays \cup fails /\ Flying(i)
  <2>1. Flying(i)
    BY DEF Flying
  <2>2. j \in Jobs /\ ~Flying(j)'
    BY <1>1, <1>2, JobType DEF OnceInv
  <2>3. j \notin okays \cup fails
    BY <1>1, <2>1 DEF OnceInv
  <2> QED
    BY <2>1, <2>2, <2>3
<1>E. /\ rows' \in [Pieces -> Nat] /\ exists' \subseteq Tables
      /\ mine' \subseteq mine /\ mine' \subseteq exists'
      /\ \A t \in mine \ mine' : Flying(Ddl(t))
      /\ \A t \in Tables : Ddl(t) # j => (t \in exists' <=> t \in exists)
      /\ \A t \in Tables : \A c \in 1 .. Chunks[t] :
           Ddl(t) # j /\ Chunk(t, c) # j => rows'[<<t, c>>] = rows[<<t, c>>]
  <2>1. CASE UNCHANGED <<exists, mine, rows>>
    BY <2>1 DEF TypeInv
  <2>2. CASE i.op = "ddl" /\ Drop(i.table)
    <3>a. i.op = "ddl"
      BY <2>2
    <3>1. PICK u \in Tables : i = Ddl(u) /\ i.table = u
      BY <3>a, HeldCases, JobFields
    <3>2. /\ exists' = exists \ {u} /\ mine' = mine \ {u} /\ j = Ddl(u)
          /\ rows' = [p \in Pieces |-> IF p[1] = u THEN 0 ELSE rows[p]]
      BY <1>1, <2>2, <3>1, JobsDiffer DEF Drop
    <3>3. \A t \in Tables : \A c \in 1 .. Chunks[t] : t # u => rows'[<<t, c>>] = rows[<<t, c>>]
      BY <3>2, PieceType
    <3>4. rows' \in [Pieces -> Nat]
      BY <3>2 DEF TypeInv
    <3> QED
      BY <1>3, <3>1, <3>2, <3>3, <3>4 DEF TypeInv
  <2>3. CASE i.op = "create" /\ exists' = exists \cup {i.table} /\ UNCHANGED <<mine, rows>>
    <3>1. PICK u \in Tables : i = Create(u) /\ i.table = u
      BY <2>3, HeldCases, JobFields
    <3>2. j = Ddl(u)
      BY <1>1, <3>1, JobsDiffer
    <3> QED
      BY <2>3, <3>1, <3>2 DEF TypeInv
  <2>4. CASE i.op = "load" /\ Load(i.table, i.chunk)
    <3>1. PICK u \in Tables : \E d \in 1 .. Chunks[u] : i = Chunk(u, d)
      BY <2>4, HeldCases, JobFields
    <3>2. PICK d \in 1 .. Chunks[u] : i = Chunk(u, d)
      BY <3>1
    <3>3. i.table = u /\ i.chunk = d /\ j = Chunk(u, d)
      BY <1>1, <3>2, JobFields, JobsDiffer
    <3>4. <<u, d>> \in Pieces
      BY PieceType
    <3>5. /\ rows' = [rows EXCEPT ![<<u, d>>] = @ + 1] \/ rows' = rows
          /\ UNCHANGED <<exists, mine>>
      BY <2>4, <3>3 DEF Load
    <3>6. rows' \in [Pieces -> Nat]
      <4>1. rows \in [Pieces -> Nat] /\ rows[<<u, d>>] \in Nat
        BY <3>4 DEF TypeInv
      <4> QED
        BY <3>4, <3>5, <4>1
    <3>7. \A t \in Tables : \A c \in 1 .. Chunks[t] :
            Chunk(t, c) # j => rows'[<<t, c>>] = rows[<<t, c>>]
      <4> TAKE t \in Tables
      <4> TAKE c \in 1 .. Chunks[t]
      <4> HAVE Chunk(t, c) # j
      <4>1. <<t, c>> # <<u, d>> /\ <<t, c>> \in Pieces
        BY <3>3, PieceType
      <4> QED
        BY <3>5, <4>1 DEF TypeInv
    <3> QED
      BY <3>5, <3>6, <3>7 DEF TypeInv
  <2> QED
    BY <2>1, <2>2, <2>3, <2>4 DEF WorkFails
<1>4. \A t \in Tables : /\ Create(t) \in held' => Create(t) \in held /\ Ddl(t) # j
                        /\ Flying(Ddl(t))' => Flying(Ddl(t)) /\ Ddl(t) # j
                        /\ DdlFlies(t)' => DdlFlies(t) /\ Ddl(t) # j
                        /\ DdlFlies(t) => DdlFlies(t)' \/ Ddl(t) = j
                        /\ Flying(Ddl(t)) => Flying(Ddl(t))' \/ Ddl(t) = j
                        /\ Ddl(t) = j => DdlFlies(t)
  <2> TAKE t \in Tables
  <2>1. Ddl(t) = j => i = Ddl(t) \/ i = Create(t)
    BY <1>1, JobsDiffer
  <2>2. i = Ddl(t) \/ i = Create(t) => Ddl(t) = j
    BY <1>1, JobsDiffer
  <2>3. Create(t) \in held' => Create(t) \in held /\ Ddl(t) # j
    BY <1>0, <1>3, <2>1 DEF OnceInv
  <2>4. Flying(Ddl(t))' => Flying(Ddl(t)) /\ Ddl(t) # j
    BY <1>2, <1>3
  <2>5. Ddl(t) = j => DdlFlies(t)
    BY <2>1 DEF DdlFlies, Flying
  <2>6. Flying(Ddl(t)) => Flying(Ddl(t))' \/ Ddl(t) = j
    BY <1>2, <2>2
  <2>7. Create(t) \in held => Create(t) \in held' \/ Ddl(t) = j
    BY <1>0, <2>2
  <2> QED
    BY <2>3, <2>4, <2>5, <2>6, <2>7 DEF DdlFlies
<1>5. TypeInv'
  BY <1>0, <1>3, <1>E DEF TypeInv, PoolFrame
<1>6. BoundInv'
  BY <1>0, HeldLess DEF BoundInv, PoolFrame
<1>7. OnceInv'
  <2>1. \A k \in okays' \cup fails' : ~Flying(k)'
    BY <1>0, <1>2, <1>3 DEF OnceInv
  <2>2. okays' \cap fails' = {}
    BY <1>0, <1>3 DEF OnceInv
  <2>3. \A t \in Tables : Create(t) \in held' =>
          ~Flying(Ddl(t))' /\ Ddl(t) \notin okays' \cup fails'
    BY <1>0, <1>4 DEF OnceInv
  <2> QED
    BY <1>0, <1>2, <2>1, <2>2, <2>3 DEF OnceInv
<1>8. RestInv' /\ DoneInv'
  BY <1>0, Working DEF RestInv, DoneInv, PoolFrame
<1>9. \A t \in Tables : \A c \in 1 .. Chunks[t] :
        /\ Flying(Chunk(t, c))' <=> Flying(Chunk(t, c)) /\ Chunk(t, c) # j
        /\ Chunk(t, c) = j => Flying(Chunk(t, c))
  <2> TAKE t \in Tables
  <2> TAKE c \in 1 .. Chunks[t]
  <2>1. Chunk(t, c) = j <=> Chunk(t, c) = i
    BY <1>1, JobsDiffer
  <2> QED
    BY <1>2, <1>3, <2>1
<1>10. ChunkInv'
  <2>1. \A t \in Tables : ~DdlFlies(t) => Ddl(t) # j
    BY <1>4
  <2> QED
    BY <1>0, <1>4, <1>9, <1>E, <2>1 DEF ChunkInv, PoolFrame
<1>11. ActiveInv'
  <2> SUFFICES ASSUME Active' PROVE ActiveInv'
    BY DEF ActiveInv
  <2>1. /\ Active /\ \A t \in Tables : DdlInv(t) /\ \A c \in 1 .. Chunks[t] : LoadInv(t, c)
    BY <1>0 DEF ActiveInv, Active, PoolFrame
  <2>2. ASSUME NEW t \in Tables PROVE DdlInv(t)'
    <3>1. /\ DdlInv(t) /\ (DdlFlies(t)' => DdlFlies(t) /\ Ddl(t) # j)
          /\ (DdlFlies(t) => DdlFlies(t)' \/ Ddl(t) = j)
          /\ (Ddl(t) = j => DdlFlies(t))
          /\ (Ddl(t) # j => (t \in exists' <=> t \in exists)) /\ (t \in mine' => t \in mine)
      BY <1>4, <1>E, <2>1
    <3> QED
      BY <1>0, <3>1 DEF DdlInv, PoolFrame
  <2>3. ASSUME NEW t \in Tables, NEW c \in 1 .. Chunks[t] PROVE LoadInv(t, c)'
    <3>1. LoadInv(t, c) /\ (Pending(Chunk(t, c))' <=> Pending(Chunk(t, c)))
      BY <1>0, <2>1 DEF Pending, PoolFrame
    <3>2. /\ Flying(Chunk(t, c))' <=> Flying(Chunk(t, c)) /\ Chunk(t, c) # j
          /\ Chunk(t, c) = j => Flying(Chunk(t, c))
          /\ Flying(Ddl(t)) => Flying(Ddl(t))' \/ Ddl(t) = j
          /\ Ddl(t) # j /\ Chunk(t, c) # j => rows'[<<t, c>>] = rows[<<t, c>>]
      BY <1>4, <1>9, <1>E
    <3> QED
      BY <1>0, <3>1, <3>2 DEF LoadInv, PoolFrame
  <2> QED
    BY <1>0, <2>1, <2>2, <2>3 DEF ActiveInv, PoolFrame
<1>12. KeepInv'
  BY <1>0, <1>4, <1>E, Working DEF KeepInv, KeptRowsSurvive, PoolFrame, TypeInv
<1> QED
  BY <1>5, <1>6, <1>7, <1>8, <1>10, <1>11, <1>12

-----------------------------------------------------------------------------
(* The records *)

\* The table under way in the reader is being backed up, after its header was read.
LEMMA BackupFacts ==
  ASSUME NEW t \in cur, DdlInv(t)
  PROVE  /\ cur = {t} /\ pc = "backup" /\ read[t] = 1 /\ t \notin Silent
         /\ t \in mine => t \in saved
BY Zenon DEF DdlInv

\* Between two records the reader has nothing under way, and the checkpoint is gone.
LEMMA ReadingFacts ==
  ASSUME IInv, pc = "read"
  PROVE  /\ cur = {} /\ visit = << >> /\ ~ckpt /\ Active
         /\ \A t \in Tables : DdlInv(t) /\ \A c \in 1 .. Chunks[t] : LoadInv(t, c)
<1>1. Active
  BY DEF Active
<1>2. /\ \A t \in Tables : DdlInv(t) /\ \A c \in 1 .. Chunks[t] : LoadInv(t, c)
      /\ ~ckpt
  BY <1>1 DEF IInv, ActiveInv
<1>3. cur = {}
  <2> SUFFICES ASSUME NEW t \in cur PROVE FALSE
    OBVIOUS
  <2>1. DdlInv(t)
    BY <1>2 DEF IInv, TypeInv
  <2>2. pc = "backup"
    BY <2>1, BackupFacts
  <2> QED
    BY <2>2
<1> QED
  BY <1>1, <1>2, <1>3 DEF IInv, BoundInv

\* A table's job enters the queue: the first thing that happens to the table,
\* but for its backup.
LEMMA SubmitStep ==
  ASSUME IInv, pc \in {"read", "backup"}, pc' = "read", NEW u \in Tables, u \notin Silent,
         read' = [read EXCEPT ![u] = 1], read[u] = 0 \/ u \in cur, cur \subseteq {u}, cur' = {},
         SubmitDdl(u), backups' \subseteq backups, saved \subseteq backups', saved' = saved,
         u \in mine => u \in saved,
         UNCHANGED <<exists, mine, rows, ckpt, pendingLoads, visit, held, okays, fails>>,
         UNCHANGED <<hadLocal, discarded>>
  PROVE  IInv'
<1> USE DEF IInv
<1>0. /\ queue' = Append(queue, Ddl(u)) /\ pendingDdls' = pendingDdls \cup {u}
      /\ Ddl(u) \in Jobs
  BY JobType DEF SubmitDdl
<1>1. /\ Active /\ ~ckpt
      /\ \A t \in Tables : DdlInv(t) /\ \A c \in 1 .. Chunks[t] : LoadInv(t, c)
  BY DEF ActiveInv, Active
<1>2. \A t \in Tables : read'[t] = IF t = u THEN 1 ELSE read[t]
  BY DEF TypeInv
<1>3. ~DdlFlies(u) /\ Ddl(u) \notin okays \cup fails /\ ~Queued(Ddl(u))
  <2>1. DdlInv(u)
    BY <1>1
  <2> QED
    BY <2>1 DEF DdlInv, DdlFlies, Flying
<1>4. /\ queue' \in Seq(Jobs)
      /\ \A k : Queued(k)' <=> Queued(k) \/ k = Ddl(u)
      /\ \A m, n \in 1 .. Len(queue') : queue'[m] = queue'[n] => m = n
  BY <1>0, <1>3, QueuedAppend DEF TypeInv, OnceInv
<1>5. \A k : Flying(k)' <=> Flying(k) \/ k = Ddl(u)
  BY <1>4 DEF Flying
<1>6. \A t \in Tables : /\ Flying(Ddl(t))' <=> Flying(Ddl(t)) \/ t = u
                        /\ DdlFlies(t)' <=> DdlFlies(t) \/ t = u
  BY <1>5, JobsDiffer DEF DdlFlies
<1>7. \A c \in 1 .. Chunks[u] : ~Flying(Chunk(u, c)) /\ Chunk(u, c) \notin okays \cup fails
  <2> TAKE c \in 1 .. Chunks[u]
  <2>1. LoadInv(u, c) /\ DdlInv(u) /\ Chunks[u] \in Nat
    BY <1>1, LengthType
  <2>2. read[u] = 0 \/ read[u] = 1
    BY <2>1, BackupFacts
  <2>3. ~(c < read[u])
    BY <2>1, <2>2
  <2> QED
    BY <2>1, <2>3 DEF LoadInv
<1>8. \A t \in Tables : \A c \in 1 .. Chunks[t] : Flying(Chunk(t, c))' <=> Flying(Chunk(t, c))
  BY <1>5, JobsDiffer
<1>9. TypeInv'
  <2>1. read' \in [Tables -> Nat] /\ \A t \in Tables : read'[t] <= Length(t)
    BY <1>2, LengthType DEF TypeInv
  <2> QED
    BY <1>0, <1>4, <2>1 DEF TypeInv
<1>10. BoundInv'
  BY DEF BoundInv
<1>11. OnceInv'
  <2>1. Ddl(u) \notin held /\ Create(u) \notin held
    BY <1>3 DEF DdlFlies, Flying
  <2>2. \A k \in held' : ~Queued(k)'
    BY <1>4, <2>1 DEF OnceInv
  <2>3. \A k \in okays' \cup fails' : ~Flying(k)'
    BY <1>3, <1>5 DEF OnceInv
  <2>4. \A t \in Tables : Create(t) \in held' => ~Flying(Ddl(t))'
    BY <1>6, <2>1 DEF OnceInv
  <2> QED
    BY <1>4, <2>2, <2>3, <2>4 DEF OnceInv
<1>12. RestInv' /\ DoneInv'
  BY DEF RestInv, DoneInv
<1>13. ChunkInv'
  <2> SUFFICES ASSUME NEW t \in Tables, NEW c \in 1 .. Chunks[t], Flying(Chunk(t, c))'
               PROVE  t \in exists /\ ~DdlFlies(t)' /\ c < read'[t]
    BY DEF ChunkInv
  <2>1. Flying(Chunk(t, c))
    BY <1>8
  <2>2. t # u
    BY <1>7, <2>1
  <2>3. t \in exists /\ ~DdlFlies(t) /\ c < read[t]
    BY <2>1 DEF ChunkInv
  <2> QED
    BY <1>2, <1>6, <2>2, <2>3
<1>14. ActiveInv'
  <2>1. ASSUME NEW t \in Tables PROVE DdlInv(t)'
    <3>1. DdlInv(t) /\ (DdlFlies(t)' <=> DdlFlies(t) \/ t = u)
      BY <1>1, <1>6
    <3>2. CASE t = u
      BY <1>0, <1>2, <1>3, <3>1, <3>2 DEF DdlInv
    <3>3. CASE t # u
      <4>1. t \notin cur /\ read'[t] = read[t]
        BY <1>2, <3>3
      <4> QED
        BY <1>0, <3>1, <3>3, <4>1 DEF DdlInv
    <3> QED
      BY <3>2, <3>3
  <2>2. ASSUME NEW t \in Tables, NEW c \in 1 .. Chunks[t] PROVE LoadInv(t, c)'
    <3>1. /\ LoadInv(t, c) /\ (Pending(Chunk(t, c))' <=> Pending(Chunk(t, c)))
          /\ Flying(Chunk(t, c))' <=> Flying(Chunk(t, c))
          /\ Flying(Ddl(t))' <=> Flying(Ddl(t)) \/ t = u
      BY <1>1, <1>6, <1>8 DEF Pending
    <3>2. CASE t = u
      BY <1>7, <3>1, <3>2 DEF LoadInv
    <3>3. CASE t # u
      <4>1. t \notin cur /\ read'[t] = read[t]
        BY <1>2, <3>3
      <4> QED
        BY <3>1, <3>3, <4>1 DEF LoadInv
    <3> QED
      BY <3>2, <3>3
  <2> QED
    BY <1>1, <2>1, <2>2 DEF ActiveInv
<1>15. KeepInv'
  BY <1>6 DEF KeepInv, KeptRowsSurvive
<1> QED
  BY <1>9, <1>10, <1>11, <1>12, <1>13, <1>14, <1>15

\* The backup is made first.
LEMMA BackupStep ==
  ASSUME IInv, pc = "read", pc' = "backup", NEW u \in Tables, TableDue(u), Advance(u),
         u \in Preserved, backups' = backups \cup {u},
         saved' = IF u \in mine THEN saved \cup {u} ELSE saved, cur' = {u},
         UNCHANGED <<exists, mine, rows, ckpt, pendingLoads, visit, held, okays, fails>>,
         UNCHANGED <<queue, pendingDdls, hadLocal, discarded>>
  PROVE  IInv'
<1> USE DEF IInv
<1>1. /\ cur = {} /\ visit = << >> /\ ~ckpt /\ read[u] = 0 /\ u \notin Silent
      /\ \A t \in Tables : DdlInv(t) /\ \A c \in 1 .. Chunks[t] : LoadInv(t, c)
  BY ReadingFacts DEF TableDue
<1>2. \A t \in Tables : read'[t] = IF t = u THEN 1 ELSE read[t]
  BY <1>1 DEF TypeInv, Advance
<1>3. /\ \A k : (Queued(k)' <=> Queued(k)) /\ (Flying(k)' <=> Flying(k))
      /\ \A k : Pending(k)' <=> Pending(k)
      /\ \A t : DdlFlies(t)' <=> DdlFlies(t)
  BY DEF Queued, Flying, DdlFlies, Pending
<1>4. ~DdlFlies(u) /\ ~Flying(Ddl(u)) /\ Ddl(u) \notin okays \cup fails
  <2>1. DdlInv(u)
    BY <1>1
  <2> QED
    BY <1>1, <2>1 DEF DdlInv, DdlFlies
<1>5. \A c \in 1 .. Chunks[u] : ~Flying(Chunk(u, c)) /\ Chunk(u, c) \notin okays \cup fails
  <2> TAKE c \in 1 .. Chunks[u]
  <2>1. LoadInv(u, c) /\ Chunks[u] \in Nat
    BY <1>1, LengthType
  <2> QED
    BY <1>1, <2>1 DEF LoadInv
<1>6. TypeInv'
  <2>1. read' \in [Tables -> Nat] /\ \A t \in Tables : read'[t] <= Length(t)
    BY <1>1, <1>2, LengthType DEF TypeInv, Advance
  <2> QED
    BY <2>1 DEF TypeInv
<1>7. BoundInv'
  BY DEF BoundInv
<1>8. OnceInv' /\ RestInv' /\ DoneInv'
  BY <1>3 DEF OnceInv, RestInv, DoneInv
<1>9. ChunkInv'
  BY <1>2, <1>3, <1>5 DEF ChunkInv
<1>10. ActiveInv'
  <2>1. ASSUME NEW t \in Tables PROVE DdlInv(t)'
    <3>1. DdlInv(t) /\ (DdlFlies(t)' <=> DdlFlies(t)) /\ read'[t] = IF t = u THEN 1 ELSE read[t]
      BY <1>1, <1>2, <1>3
    <3> QED
      BY <1>1, <1>4, <3>1 DEF DdlInv
  <2>2. ASSUME NEW t \in Tables, NEW c \in 1 .. Chunks[t] PROVE LoadInv(t, c)'
    <3>1. /\ LoadInv(t, c) /\ (Pending(Chunk(t, c))' <=> Pending(Chunk(t, c)))
          /\ Flying(Chunk(t, c))' <=> Flying(Chunk(t, c))
          /\ Flying(Ddl(t))' <=> Flying(Ddl(t))
          /\ read'[t] = IF t = u THEN 1 ELSE read[t]
      BY <1>1, <1>2, <1>3
    <3>2. CASE t = u
      BY <1>5, <3>1, <3>2 DEF LoadInv
    <3>3. CASE t # u
      BY <1>1, <3>1, <3>3 DEF LoadInv
    <3> QED
      BY <3>2, <3>3
  <2> QED
    BY <1>1, <2>1, <2>2 DEF ActiveInv
<1>11. KeepInv'
  BY <1>3 DEF KeepInv, KeptRowsSurvive
<1> QED
  BY <1>6, <1>7, <1>8, <1>9, <1>10, <1>11

\* Reading a table header, with or without a backup, keeps the invariant.
LEMMA TableStep ==
  ASSUME IInv, NEW u \in Tables, ReadTable(u) \/ FinishBackup(u)
  PROVE  IInv'
<1> USE DEF IInv
<1>1. CASE ReadTable(u)
  <2>0. /\ pc = "read" /\ TableDue(u) /\ Advance(u) /\ BackupRows(u)
        /\ UNCHANGED <<exists, mine, rows, ckpt, pendingLoads, visit, held, okays, fails>>
        /\ UNCHANGED <<hadLocal, discarded>>
    BY <1>1 DEF ReadTable, hist
  <2>1. cur = {} /\ DdlInv(u) /\ u \notin Silent /\ read[u] = 0
    BY <2>0, ReadingFacts DEF TableDue
  <2>2. CASE u \in Preserved /\ u \notin backups /\ u \in exists
    BY <2>0, <2>2, BackupStep DEF BackupRows
  <2>3. CASE ~(u \in Preserved /\ u \notin backups /\ u \in exists)
    <3>1. SubmitDdl(u) /\ UNCHANGED <<backups, saved, cur, pc>>
      BY <2>0, <2>3 DEF BackupRows
    <3>2. u \notin mine
      BY <2>1, <2>3 DEF TypeInv, DdlInv
    <3>3. read' = [read EXCEPT ![u] = 1]
      BY <2>0, <2>1 DEF Advance
    <3> QED
      BY <2>0, <2>1, <3>1, <3>2, <3>3, SubmitStep DEF TypeInv
  <2> QED
    BY <2>2, <2>3
<1>2. CASE FinishBackup(u)
  <2>1. DdlInv(u) /\ pc = "backup" /\ u \in cur
    BY <1>2 DEF FinishBackup, ActiveInv, Active
  <2>2. cur = {u} /\ read[u] = 1 /\ u \notin Silent /\ (u \in mine => u \in saved)
    BY <2>1, BackupFacts
  <2>3. read' = [read EXCEPT ![u] = 1]
    BY <1>2, <2>2 DEF FinishBackup, TypeInv
  <2>4. backups' \subseteq backups /\ saved \subseteq backups'
    BY <1>2 DEF FinishBackup, TypeInv
  <2> QED
    BY <1>2, <2>1, <2>2, <2>3, <2>4, SubmitStep DEF FinishBackup, hist
<1> QED
  BY <1>1, <1>2

\* After wait_ddl the table is there and nothing is about to drop it.
LEMMA AwaitFacts ==
  ASSUME IInv, pc = "read", NEW u \in Tables, AwaitDdl(u)
  PROVE  ~DdlFlies(u) /\ ~Flying(Ddl(u)) /\ Ddl(u) \notin fails
<1> USE DEF IInv
<1>1. DdlInv(u)
  BY ReadingFacts
<1>2. CASE u \in pendingDdls
  <2>1. Ddl(u) \in okays
    BY <1>2 DEF AwaitDdl
  <2> QED
    BY <2>1 DEF OnceInv, DdlFlies
<1>3. CASE u \notin pendingDdls
  BY <1>1, <1>3 DEF DdlInv, DdlFlies
<1> QED
  BY <1>2, <1>3

\* A chunk goes to the pool, and to the loads that are waited for.
LEMMA ChunkStep ==
  ASSUME IInv, NEW u \in Tables, ReadChunk(u)
  PROVE  IInv'
<1> USE DEF IInv
<1> DEFINE d == read[u]
           j == Chunk(u, d)
           pending == Append(pendingLoads, j)
<1>0. /\ pc = "read" /\ u \notin Silent /\ d \in 1 .. Chunks[u] /\ AwaitDdl(u)
      /\ read' = [read EXCEPT ![u] = @ + 1] /\ queue' = Append(queue, j)
      /\ pendingDdls' = pendingDdls \ {u} /\ okays' = okays \ {Ddl(u)}
      /\ UNCHANGED <<exists, mine, rows, backups, saved, ckpt, cur, held, fails>>
      /\ UNCHANGED <<hadLocal, discarded>>
  BY DEF ReadChunk, ChunkDue, Advance, AwaitDdl, db, hist
<1>1. /\ cur = {} /\ visit = << >> /\ ~ckpt
      /\ \A t \in Tables : DdlInv(t) /\ \A c \in 1 .. Chunks[t] : LoadInv(t, c)
  BY <1>0, ReadingFacts
<1>2. ~DdlFlies(u) /\ ~Flying(Ddl(u)) /\ Ddl(u) \notin fails
  BY <1>0, AwaitFacts
<1>3. d \in Nat /\ d >= 1 /\ Chunks[u] \in Nat
  BY <1>0, LengthType
<1>4. \A t \in Tables : read'[t] = IF t = u THEN d + 1 ELSE read[t]
  BY <1>0 DEF TypeInv
<1>5. u \in exists
  BY <1>0, <1>1, <1>2, <1>3 DEF DdlInv
<1>6. /\ j \in Jobs /\ j \in LoadJobs /\ ~Flying(j) /\ j \notin okays \cup fails
  <2>1. j \in Jobs /\ j \in LoadJobs
    BY <1>0, JobType
  <2>2. LoadInv(u, d)
    BY <1>0, <1>1
  <2> QED
    BY <1>3, <2>1, <2>2 DEF LoadInv
<1>7. \/ pc' = "drain" /\ visit' = pending /\ pendingLoads' = << >>
      \/ pc' = "read" /\ visit' = << >> /\ pendingLoads' = pending /\ ~(Len(pending) > MaxPending)
  BY <1>0, <1>1 DEF ReadChunk
<1>8. /\ pending \in Seq(LoadJobs) /\ Len(pending) = Len(pendingLoads) + 1
      /\ Len(pendingLoads) \in Nat /\ pending[Len(pendingLoads) + 1] = j
      /\ \A n \in 1 .. Len(pendingLoads) : pending[n] = pendingLoads[n]
  <2> HIDE DEF j
  <2> QED
    BY <1>6 DEF TypeInv
<1> HIDE DEF d, j, pending
<1>9. /\ queue' \in Seq(Jobs)
      /\ \A k : Queued(k)' <=> Queued(k) \/ k = j
      /\ \A m, n \in 1 .. Len(queue') : queue'[m] = queue'[n] => m = n
  BY <1>0, <1>6, QueuedAppend DEF TypeInv, OnceInv, Flying
<1>10. \A k : Flying(k)' <=> Flying(k) \/ k = j
  BY <1>0, <1>9 DEF Flying
<1>11. \A t \in Tables : /\ Flying(Ddl(t))' <=> Flying(Ddl(t))
                         /\ DdlFlies(t)' <=> DdlFlies(t)
                         /\ Create(t) # j /\ Ddl(t) # j
  BY <1>0, <1>10, JobsDiffer DEF DdlFlies, j
<1>12. \A k : Pending(k) \/ k = j => Pending(k)'
  <2>1. ASSUME NEW k, Pending(k) \/ k = j PROVE \E n \in 1 .. Len(pending) : pending[n] = k
    <3>1. CASE k = j
      <4>1. Len(pendingLoads) + 1 \in 1 .. Len(pending)
        BY <1>8
      <4> QED
        BY <1>8, <3>1, <4>1
    <3>2. CASE k # j
      <4>1. PICK n \in 1 .. Len(pendingLoads) : pendingLoads[n] = k
        BY <1>1, <2>1, <3>2 DEF Pending
      <4> QED
        BY <1>8, <4>1
    <3> QED
      BY <3>1, <3>2
  <2> QED
    BY <1>7, <2>1 DEF Pending
<1>13. TypeInv'
  <2>1. read' \in [Tables -> Nat]
    BY <1>0, <1>3 DEF TypeInv, d
  <2>2. \A t \in Tables : read'[t] <= Length(t)
    BY <1>0, <1>3, <1>4, LengthType DEF TypeInv
  <2>3. << >> \in Seq(LoadJobs)
    OBVIOUS
  <2>4. pendingLoads' \in Seq(LoadJobs) /\ visit' \in Seq(LoadJobs)
    BY <1>7, <1>8, <2>3
  <2>5. pc' \in {"read", "drain"} /\ okays' \subseteq okays /\ pendingDdls' \subseteq pendingDdls
    BY <1>0, <1>7
  <2> QED
    BY <1>0, <1>9, <2>1, <2>2, <2>4, <2>5 DEF TypeInv
<1>14. BoundInv'
  <2>1. Len(pendingLoads) <= MaxPending /\ MaxPending \in Nat
    BY <1>0, LoadAssumption DEF BoundInv
  <2>2. Len(pending) <= MaxPending + 1
    BY <1>8, <2>1
  <2>3. Len(pendingLoads') + Len(visit') <= MaxPending + 1
    BY <1>7, <1>8, <2>1, <2>2
  <2>4. pc' = "read" => Len(pendingLoads') <= MaxPending /\ visit' = << >>
    BY <1>7, <1>8, <2>1
  <2> QED
    BY <1>0, <1>7, <2>3, <2>4 DEF BoundInv
<1>15. OnceInv'
  <2>1. \A k \in held' : ~Queued(k)'
    BY <1>0, <1>6, <1>9 DEF OnceInv, Flying
  <2>2. \A k \in okays' \cup fails' : ~Flying(k)'
    BY <1>0, <1>6, <1>10 DEF OnceInv
  <2>3. okays' \cap fails' = {}
    BY <1>0 DEF OnceInv
  <2>4. \A t \in Tables : Create(t) \in held' =>
          ~Flying(Ddl(t))' /\ Ddl(t) \notin okays' \cup fails'
    BY <1>0, <1>11 DEF OnceInv
  <2> QED
    BY <1>9, <2>1, <2>2, <2>3, <2>4 DEF OnceInv
<1>16. RestInv' /\ DoneInv'
  BY <1>7 DEF RestInv, DoneInv
<1>17. \A t \in Tables : \A c \in 1 .. Chunks[t] : Chunk(t, c) = j <=> t = u /\ c = d
  BY JobsDiffer DEF j
<1>18. ChunkInv'
  <2> SUFFICES ASSUME NEW t \in Tables, NEW c \in 1 .. Chunks[t], Flying(Chunk(t, c))'
               PROVE  t \in exists /\ ~DdlFlies(t)' /\ c < read'[t]
    BY <1>0 DEF ChunkInv
  <2>1. CASE Chunk(t, c) = j
    BY <1>2, <1>3, <1>4, <1>5, <1>11, <1>17, <2>1
  <2>2. CASE Chunk(t, c) # j
    <3>1. t \in exists /\ ~DdlFlies(t) /\ c < read[t] /\ read[t] \in Nat
      BY <1>10, <2>2 DEF ChunkInv, TypeInv
    <3> QED
      BY <1>4, <1>11, <3>1 DEF d
  <2> QED
    BY <2>1, <2>2
<1>19. ActiveInv'
  <2>1. ASSUME NEW t \in Tables PROVE DdlInv(t)'
    <3>1. DdlInv(t) /\ (DdlFlies(t)' <=> DdlFlies(t))
      BY <1>1, <1>11
    <3>2. CASE t = u
      <4>1. /\ ~DdlFlies(t)' /\ Ddl(t) \notin okays' \cup fails' /\ t \in exists' /\ t \notin cur'
            /\ read'[t] >= 1
        BY <1>0, <1>1, <1>2, <1>3, <1>4, <1>5, <1>11, <3>2
      <4> QED
        BY <4>1 DEF DdlInv
    <3>3. CASE t # u
      <4>1. /\ read'[t] = read[t] /\ (Ddl(t) \in okays' <=> Ddl(t) \in okays)
            /\ t \in pendingDdls' <=> t \in pendingDdls
        BY <1>0, <1>4, <3>3, JobsDiffer
      <4> QED
        BY <1>0, <1>1, <3>1, <4>1 DEF DdlInv
    <3> QED
      BY <3>2, <3>3
  <2>2. ASSUME NEW t \in Tables, NEW c \in 1 .. Chunks[t] PROVE LoadInv(t, c)'
    <3>1. /\ LoadInv(t, c) /\ (Pending(Chunk(t, c)) => Pending(Chunk(t, c))')
          /\ Flying(Chunk(t, c))' <=> Flying(Chunk(t, c)) \/ Chunk(t, c) = j
          /\ Flying(Ddl(t))' <=> Flying(Ddl(t))
          /\ Chunk(t, c) \in okays' <=> Chunk(t, c) \in okays
          /\ rows'[<<t, c>>] = rows[<<t, c>>]
      BY <1>0, <1>1, <1>10, <1>11, <1>12, JobsDiffer
    <3>2. CASE Chunk(t, c) = j
      <4>1. t = u /\ c = d /\ Pending(Chunk(t, c))' /\ Flying(Chunk(t, c))' /\ read[t] = d
        BY <1>12, <1>17, <3>1, <3>2 DEF d
      <4>2. rows[<<t, c>>] = 0
        BY <1>1, <1>2, <1>3, <3>1, <4>1 DEF LoadInv
      <4>3. c < read'[t]
        BY <1>3, <1>4, <4>1
      <4> QED
        BY <3>1, <4>1, <4>2, <4>3 DEF LoadInv
    <3>3. CASE Chunk(t, c) # j
      <4>1. (c < read'[t] <=> c < read[t]) /\ (read'[t] >= 1 <=> read[t] >= 1)
        <5>1. CASE t = u
          <6>1. c # d /\ read[t] = d /\ read'[t] = d + 1 /\ c \in Nat
            BY <1>4, <1>17, <3>3, <5>1, LengthType DEF d
          <6> QED
            BY <1>3, <6>1
        <5>2. CASE t # u
          BY <1>4, <5>2
        <5> QED
          BY <5>1, <5>2
      <4>2. Flying(Chunk(t, c))' <=> Flying(Chunk(t, c))
        BY <3>1, <3>3
      <4> QED
        BY <1>0, <3>1, <4>1, <4>2 DEF LoadInv
    <3> QED
      BY <3>2, <3>3
  <2> QED
    BY <1>0, <1>1, <1>7, <2>1, <2>2 DEF ActiveInv
<1>20. KeepInv'
  BY <1>0, <1>7, <1>11 DEF KeepInv, KeptRowsSurvive
<1> QED
  BY <1>13, <1>14, <1>15, <1>16, <1>18, <1>19, <1>20

\* Reading the end of a table keeps the invariant.
LEMMA TableEndStep ==
  ASSUME IInv, NEW u \in Tables, ReadTableEnd(u)
  PROVE  IInv'
<1> USE DEF IInv
<1>0. /\ pc = "read" /\ AwaitDdl(u) /\ read[u] = Length(u) - 1 /\ ~TableDue(u)
      /\ read' = [read EXCEPT ![u] = @ + 1]
      /\ pendingDdls' = pendingDdls \ {u} /\ okays' = okays \ {Ddl(u)}
      /\ UNCHANGED <<exists, mine, rows, backups, saved, ckpt, cur, held, fails, queue>>
      /\ UNCHANGED <<pc, pendingLoads, visit, hadLocal, discarded>>
  BY DEF ReadTableEnd, EndDue, Advance, AwaitDdl, db, hist
<1>1. /\ cur = {} /\ ~ckpt
      /\ \A t \in Tables : DdlInv(t) /\ \A c \in 1 .. Chunks[t] : LoadInv(t, c)
  BY <1>0, ReadingFacts
<1>2. ~DdlFlies(u) /\ ~Flying(Ddl(u)) /\ Ddl(u) \notin fails
  BY <1>0, AwaitFacts
<1>3. \A t \in Tables : read'[t] = IF t = u THEN Length(u) ELSE read[t]
  BY <1>0, LengthType DEF TypeInv
<1>4. /\ \A k : (Queued(k)' <=> Queued(k)) /\ (Flying(k)' <=> Flying(k))
      /\ \A k : Pending(k)' <=> Pending(k)
      /\ \A t : DdlFlies(t)' <=> DdlFlies(t)
  BY <1>0 DEF Queued, Flying, DdlFlies, Pending
<1>5. TypeInv'
  <2>1. read' \in [Tables -> Nat] /\ \A t \in Tables : read'[t] <= Length(t)
    BY <1>0, <1>3, LengthType DEF TypeInv
  <2>2. okays' \subseteq okays /\ pendingDdls' \subseteq pendingDdls
    BY <1>0
  <2> QED
    BY <1>0, <2>1, <2>2 DEF TypeInv
<1>6. BoundInv' /\ RestInv' /\ DoneInv'
  BY <1>0 DEF BoundInv, RestInv, DoneInv
<1>7. OnceInv'
  BY <1>0, <1>4 DEF OnceInv
<1>8. \A t \in Tables : \A c \in 1 .. Chunks[t] :
        (c < read'[t] <=> c < read[t]) /\ (read'[t] >= 1 <=> read[t] >= 1)
  <2> TAKE t \in Tables
  <2> TAKE c \in 1 .. Chunks[t]
  <2>1. CASE t = u
    <3>1. u \notin Silent /\ Length(u) = Chunks[u] + 2 /\ Chunks[u] \in Nat
      BY <2>1, LengthType
    <3> QED
      BY <1>0, <1>3, <2>1, <3>1
  <2>2. CASE t # u
    BY <1>3, <2>2
  <2> QED
    BY <2>1, <2>2
<1>9. ChunkInv'
  BY <1>0, <1>4, <1>8 DEF ChunkInv
<1>10. ActiveInv'
  <2>1. ASSUME NEW t \in Tables PROVE DdlInv(t)'
    <3>1. DdlInv(t) /\ (DdlFlies(t)' <=> DdlFlies(t))
      BY <1>1, <1>4
    <3>2. CASE t = u
      <4>1. t \notin Silent => read[t] >= 1
        BY <1>0, <3>2, LengthType
      <4>2. t \notin Silent => t \in exists
        BY <1>1, <1>2, <3>1, <3>2, <4>1 DEF DdlInv
      <4>3. /\ ~DdlFlies(t)' /\ Ddl(t) \notin okays' \cup fails' /\ t \notin cur'
            /\ read'[t] >= 1
        BY <1>0, <1>1, <1>2, <1>3, <1>4, <3>2, LengthType
      <4> QED
        BY <1>0, <4>2, <4>3 DEF DdlInv
    <3>3. CASE t # u
      <4>1. /\ read'[t] = read[t] /\ (Ddl(t) \in okays' <=> Ddl(t) \in okays)
            /\ t \in pendingDdls' <=> t \in pendingDdls
        BY <1>0, <1>3, <3>3, JobsDiffer
      <4> QED
        BY <1>0, <3>1, <4>1 DEF DdlInv
    <3> QED
      BY <3>2, <3>3
  <2>2. ASSUME NEW t \in Tables, NEW c \in 1 .. Chunks[t] PROVE LoadInv(t, c)'
    <3>1. /\ LoadInv(t, c) /\ (Pending(Chunk(t, c))' <=> Pending(Chunk(t, c)))
          /\ Flying(Chunk(t, c))' <=> Flying(Chunk(t, c))
          /\ Flying(Ddl(t))' <=> Flying(Ddl(t))
          /\ Chunk(t, c) \in okays' <=> Chunk(t, c) \in okays
          /\ (c < read'[t] <=> c < read[t]) /\ (read'[t] >= 1 <=> read[t] >= 1)
      BY <1>0, <1>1, <1>4, <1>8, JobsDiffer
    <3> QED
      BY <1>0, <3>1 DEF LoadInv
  <2> QED
    BY <1>0, <1>1, <2>1, <2>2 DEF ActiveInv
<1>11. KeepInv'
  BY <1>0, <1>4 DEF KeepInv, KeptRowsSurvive
<1> QED
  BY <1>5, <1>6, <1>7, <1>9, <1>10, <1>11

\* Results are received; a load that has none yet is not forgotten.
LEMMA ReceiveStep ==
  ASSUME IInv, pc \in {"drain", "oldest"}, pc' \in {"drain", "read"}, okays' \subseteq okays,
         pendingLoads' \in Seq(LoadJobs), visit' \in Seq(LoadJobs), BoundInv',
         \A k : Pending(k) /\ k \notin okays => Pending(k)',
         UNCHANGED <<exists, mine, rows, backups, saved, ckpt, read, cur, pendingDdls, queue>>,
         UNCHANGED <<held, fails, hadLocal, discarded>>
  PROVE  IInv'
<1> USE DEF IInv
<1>1. /\ Active /\ ~ckpt
      /\ \A t \in Tables : DdlInv(t) /\ \A c \in 1 .. Chunks[t] : LoadInv(t, c)
  BY DEF ActiveInv, Active
<1>2. /\ \A k : (Queued(k)' <=> Queued(k)) /\ (Flying(k)' <=> Flying(k))
      /\ \A t : DdlFlies(t)' <=> DdlFlies(t)
  BY DEF Queued, Flying, DdlFlies
<1>3. TypeInv'
  BY DEF TypeInv
<1>4. OnceInv'
  BY <1>2 DEF OnceInv
<1>5. RestInv' /\ DoneInv' /\ ChunkInv'
  BY <1>2 DEF RestInv, DoneInv, ChunkInv
<1>6. ActiveInv'
  <2>1. ASSUME NEW t \in Tables PROVE DdlInv(t)'
    <3>1. DdlInv(t) /\ (DdlFlies(t)' <=> DdlFlies(t))
      BY <1>1, <1>2
    <3>2. t \notin cur
      BY <3>1, BackupFacts
    <3> QED
      BY <3>1, <3>2 DEF DdlInv
  <2>2. ASSUME NEW t \in Tables, NEW c \in 1 .. Chunks[t] PROVE LoadInv(t, c)'
    <3>1. /\ LoadInv(t, c)
          /\ Flying(Chunk(t, c))' <=> Flying(Chunk(t, c))
          /\ Flying(Ddl(t))' <=> Flying(Ddl(t))
      BY <1>1, <1>2
    <3>2. Flying(Chunk(t, c)) \/ Chunk(t, c) \in fails => Chunk(t, c) \notin okays
      BY DEF OnceInv
    <3> QED
      BY <3>1, <3>2 DEF LoadInv
  <2> QED
    BY <1>1, <2>1, <2>2 DEF ActiveInv
<1>7. KeepInv'
  BY <1>2 DEF KeepInv, KeptRowsSurvive
<1> QED
  BY <1>3, <1>4, <1>5, <1>6, <1>7

\* One look at a pending DDL in drain_completed keeps the invariant.
LEMMA TryStep ==
  ASSUME IInv, TryRecv
  PROVE  IInv'
<1> USE DEF IInv
<1> DEFINE x == Head(visit)
<1>0. /\ pc = "drain" /\ pc' = pc /\ visit # << >> /\ visit' = Tail(visit)
      /\ pendingLoads' = IF x \in okays THEN pendingLoads ELSE Append(pendingLoads, x)
      /\ okays' = okays \ {x}
      /\ UNCHANGED <<exists, mine, rows, backups, saved, ckpt, read, cur, pendingDdls, queue>>
      /\ UNCHANGED <<held, fails, hadLocal, discarded>>
  BY DEF TryRecv, db, hist
<1>1. /\ visit \in Seq(LoadJobs) /\ pendingLoads \in Seq(LoadJobs)
  BY DEF TypeInv
<1>2. /\ x \in LoadJobs /\ x = visit[1] /\ visit' \in Seq(LoadJobs) /\ Len(visit) \in Nat \ {0}
      /\ Len(visit') = Len(visit) - 1 /\ \A n \in 1 .. Len(visit') : visit'[n] = visit[n + 1]
  BY <1>0, <1>1
<1> HIDE DEF x
<1>3. /\ Append(pendingLoads, x) \in Seq(LoadJobs) /\ Len(pendingLoads) \in Nat
      /\ Len(Append(pendingLoads, x)) = Len(pendingLoads) + 1
      /\ Append(pendingLoads, x)[Len(pendingLoads) + 1] = x
      /\ \A n \in 1 .. Len(pendingLoads) : Append(pendingLoads, x)[n] = pendingLoads[n]
  BY <1>1, <1>2
<1>4. pendingLoads' \in Seq(LoadJobs)
  BY <1>0, <1>1, <1>3
<1>5. BoundInv'
  <2>1. Len(pendingLoads) + Len(visit) <= MaxPending + 1 /\ MaxPending \in Nat
    BY LoadAssumption DEF BoundInv
  <2>2. Len(pendingLoads') + Len(visit') <= MaxPending + 1
    BY <1>0, <1>2, <1>3, <2>1
  <2> QED
    BY <1>0, <2>2 DEF BoundInv
<1>6. ASSUME NEW k, Pending(k), k \notin okays PROVE Pending(k)'
  <2>1. CASE \E n \in 1 .. Len(pendingLoads) : pendingLoads[n] = k
    <3>1. PICK n \in 1 .. Len(pendingLoads) : pendingLoads[n] = k
      BY <2>1
    <3>2. n \in 1 .. Len(pendingLoads') /\ pendingLoads'[n] = k
      BY <1>0, <1>3, <3>1
    <3> QED
      BY <3>2 DEF Pending
  <2>2. CASE k = x
    <3>1. pendingLoads' = Append(pendingLoads, x)
      BY <1>0, <1>6, <2>2
    <3>2. Len(pendingLoads) + 1 \in 1 .. Len(pendingLoads') /\ pendingLoads'[Len(pendingLoads) + 1] = k
      BY <1>3, <2>2, <3>1
    <3> QED
      BY <3>2 DEF Pending
  <2>3. CASE k # x /\ \E n \in 1 .. Len(visit) : visit[n] = k
    <3>1. PICK n \in 1 .. Len(visit) : visit[n] = k
      BY <2>3
    <3>2. n # 1
      BY <1>2, <2>3, <3>1
    <3>3. n - 1 \in 1 .. Len(visit') /\ (n - 1) + 1 = n
      BY <1>2, <3>1, <3>2
    <3>4. visit'[n - 1] = k
      BY <1>2, <3>1, <3>3
    <3> QED
      BY <3>3, <3>4 DEF Pending
  <2> QED
    BY <1>6, <2>1, <2>2, <2>3 DEF Pending
<1>7. okays' \subseteq okays /\ pc' \in {"drain", "read"} /\ pc \in {"drain", "oldest"}
  BY <1>0
<1> QED
  BY <1>0, <1>2, <1>4, <1>5, <1>6, <1>7, ReceiveStep

\* Waiting for the oldest pending DDL keeps the invariant.
LEMMA OldestStep ==
  ASSUME IInv, WaitOldest
  PROVE  IInv'
<1> USE DEF IInv
<1> DEFINE x == Head(pendingLoads)
<1>0. /\ pc = "oldest" /\ pc' = "read" /\ x \in okays /\ okays' = okays \ {x}
      /\ pendingLoads' = Tail(pendingLoads) /\ visit' = visit
      /\ UNCHANGED <<exists, mine, rows, backups, saved, ckpt, read, cur, pendingDdls, queue>>
      /\ UNCHANGED <<held, fails, hadLocal, discarded>>
  BY DEF WaitOldest, db, hist
<1>1. pendingLoads \in Seq(LoadJobs) /\ pendingLoads # << >> /\ visit = << >>
  BY <1>0 DEF TypeInv, BoundInv
<1>2. /\ x = pendingLoads[1] /\ pendingLoads' \in Seq(LoadJobs) /\ Len(pendingLoads) \in Nat \ {0}
      /\ Len(pendingLoads') = Len(pendingLoads) - 1
      /\ \A n \in 1 .. Len(pendingLoads') : pendingLoads'[n] = pendingLoads[n + 1]
  BY <1>0, <1>1
<1> HIDE DEF x
<1>3. BoundInv'
  <2>1. Len(pendingLoads) <= MaxPending + 1 /\ MaxPending \in Nat
    BY <1>1, <1>2, LoadAssumption DEF BoundInv
  <2>2. Len(pendingLoads') <= MaxPending /\ Len(pendingLoads') + Len(visit') <= MaxPending + 1
    BY <1>0, <1>1, <1>2, <2>1
  <2> QED
    BY <1>0, <1>1, <2>2 DEF BoundInv
<1>4. ASSUME NEW k, Pending(k), k \notin okays PROVE Pending(k)'
  <2>1. PICK n \in 1 .. Len(pendingLoads) : pendingLoads[n] = k
    BY <1>1, <1>4 DEF Pending
  <2>2. n # 1
    BY <1>0, <1>2, <1>4, <2>1
  <2>3. n - 1 \in 1 .. Len(pendingLoads') /\ (n - 1) + 1 = n
    BY <1>2, <2>1, <2>2
  <2>4. pendingLoads'[n - 1] = k
    BY <1>2, <2>1, <2>3
  <2> QED
    BY <2>3, <2>4 DEF Pending
<1>5. /\ okays' \subseteq okays /\ pc' \in {"drain", "read"} /\ pc \in {"drain", "oldest"}
      /\ visit' \in Seq(LoadJobs)
  BY <1>0 DEF TypeInv
<1> QED
  BY <1>0, <1>2, <1>3, <1>4, <1>5, ReceiveStep

\* All jobs have ended well: the pool rests and everything is in.
LEMMA WaitAllStep ==
  ASSUME IInv, WaitAll
  PROVE  IInv'
<1> USE DEF IInv
<1>0. /\ pc = "waitAll" /\ pc' = "restore" /\ okays' = {} /\ pendingDdls' = {}
      /\ pendingLoads' = << >> /\ visit' = visit
      /\ UNCHANGED <<exists, mine, rows, backups, saved, ckpt, read, cur, queue>>
      /\ UNCHANGED <<held, fails, hadLocal, discarded>>
  BY DEF WaitAll, db, hist
<1>1. /\ ~ckpt /\ \A t \in Tables : read[t] = Length(t)
      /\ \A t \in Tables : DdlInv(t) /\ \A c \in 1 .. Chunks[t] : LoadInv(t, c)
  BY <1>0 DEF ActiveInv, Active
<1>2. visit = << >> /\ pendingLoads \in Seq(LoadJobs)
  BY <1>0 DEF BoundInv, TypeInv
<1>3. \A t \in Tables : t \notin cur
  BY <1>0, <1>1, BackupFacts
<1>4. \A t \in pendingDdls : Ddl(t) \in okays
  BY DEF WaitAll
<1>5. \A n \in 1 .. Len(pendingLoads) : pendingLoads[n] \in okays
  <2>1. \A n \in 1 .. Len(pendingLoads) : pendingLoads[n] \in ToSet(pendingLoads)
    BY <1>2 DEF ToSet
  <2> QED
    BY <2>1 DEF WaitAll
<1>6. ASSUME NEW t \in Tables PROVE ~DdlFlies(t) /\ Ddl(t) \notin fails
  <2>1. DdlFlies(t) \/ Ddl(t) \in fails => Ddl(t) \in okays
    BY <1>1, <1>4 DEF DdlInv
  <2> QED
    BY <2>1 DEF OnceInv, DdlFlies
<1>7. ASSUME NEW t \in Tables, NEW c \in 1 .. Chunks[t]
      PROVE  ~Flying(Chunk(t, c)) /\ Chunk(t, c) \notin fails
  <2>1. ASSUME Flying(Chunk(t, c)) \/ Chunk(t, c) \in fails PROVE Chunk(t, c) \in okays
    <3>1. LoadInv(t, c)
      BY <1>1
    <3>2. Pending(Chunk(t, c))
      BY <2>1, <3>1 DEF LoadInv
    <3>3. PICK n \in 1 .. Len(pendingLoads) : pendingLoads[n] = Chunk(t, c)
      BY <1>2, <3>2 DEF Pending
    <3> QED
      BY <1>5, <3>3
  <2> QED
    BY <2>1 DEF OnceInv
<1>8. held = {}
  <2> SUFFICES ASSUME NEW i \in held PROVE FALSE
    OBVIOUS
  <2>1. Flying(i)
    BY DEF Flying
  <2> QED
    BY <1>6, <1>7, <2>1, HeldCases DEF DdlFlies
<1>9. queue = << >>
  <2> SUFFICES ASSUME queue # << >> PROVE FALSE
    OBVIOUS
  <2>1. queue[1] \in Jobs /\ 1 \in 1 .. Len(queue)
    BY DEF TypeInv
  <2>2. Flying(queue[1])
    BY <2>1 DEF Flying, Queued
  <2> QED
    BY <1>6, <1>7, <2>1, <2>2, JobCases DEF DdlFlies
<1>10. \A p \in Pieces : rows[p] = 1
  <2> SUFFICES ASSUME NEW t \in Tables, NEW c \in 1 .. Chunks[t] PROVE rows[<<t, c>>] = 1
    BY PieceType
  <2>1. t \notin Silent /\ Length(t) = Chunks[t] + 2 /\ Chunks[t] \in Nat
    BY LengthType
  <2>2. read[t] >= 1 /\ c < read[t]
    BY <1>1, <2>1
  <2>3. LoadInv(t, c) /\ ~Flying(Ddl(t)) /\ Ddl(t) \notin fails /\ t \notin cur
    BY <1>1, <1>3, <1>6 DEF DdlFlies
  <2> QED
    BY <1>7, <2>2, <2>3 DEF LoadInv
<1>11. Tables \ Silent \subseteq exists
  <2> SUFFICES ASSUME NEW t \in Tables, t \notin Silent PROVE t \in exists
    OBVIOUS
  <2>1. read[t] >= 1
    BY <1>1, LengthType
  <2> QED
    BY <1>1, <1>3, <1>6, <2>1 DEF DdlInv
<1>12. \A k : ~Flying(k)' /\ ~Queued(k)'
  BY <1>0, <1>8, <1>9 DEF Flying, Queued
<1>13. TypeInv'
  <2>1. << >> \in Seq(LoadJobs)
    OBVIOUS
  <2> QED
    BY <1>0, <2>1 DEF TypeInv
<1>14. BoundInv'
  BY <1>0, <1>2, LoadAssumption DEF BoundInv
<1>15. OnceInv' /\ ChunkInv' /\ RestInv'
  BY <1>0, <1>8, <1>9, <1>12 DEF OnceInv, ChunkInv, RestInv
<1>16. ActiveInv' /\ DoneInv'
  BY <1>0, <1>1, <1>10, <1>11 DEF ActiveInv, Active, DoneInv
<1>17. KeepInv'
  BY <1>0, <1>3, <1>12 DEF KeepInv, KeptRowsSurvive, TypeInv
<1> QED
  BY <1>13, <1>14, <1>15, <1>16, <1>17

-----------------------------------------------------------------------------
(* The theorems *)

\* The invariant holds in every state of every sequence of loads (load.rs),
\* whatever fails and whenever the process is killed.
THEOREM Invariant == Spec => []IInv
<1>1. IInv /\ [Next]_vars => IInv'
  <2> SUFFICES ASSUME IInv, [Next]_vars PROVE IInv'
    OBVIOUS
  <2>1. CASE StartClean \/ DrainEnd \/ ReadEnd \/ Succeed \/ JobFailed \/ Close \/ ReadEof
             \/ StatementFails \/ Again
    BY <2>1, IsAside, AsideStep DEF IInv
  <2>2. CASE StartLoad \/ CleanCheckpoint
    BY <2>2, Starts
  <2>3. CASE Kill
    BY <2>3, KillStep
  <2>4. CASE TryRecv \/ WaitOldest \/ WaitAll
    BY <2>4, TryStep, OldestStep, WaitAllStep
  <2>5. ASSUME NEW t \in Tables, CleanBackup(t) \/ RestoreRows(t) \/ DropBackup(t) PROVE IInv'
    BY <2>5, RestSteps
  <2>6. ASSUME NEW t \in Tables,
               ReadTable(t) \/ FinishBackup(t) \/ ReadChunk(t) \/ ReadTableEnd(t)
        PROVE  IInv'
    BY <2>6, TableStep, ChunkStep, TableEndStep
  <2>7. CASE TakeWork
    BY <2>7, TakeStep
  <2>8. ASSUME NEW i \in held, DropTable(i) \/ CreateTable(i) \/ LoadData(i) \/ WorkFails(i)
        PROVE  IInv'
    BY <2>8, DropStep, CreateStep, LoadStep, WorkFailsStep
  <2>9. CASE UNCHANGED vars
    <3>1. /\ UNCHANGED <<exists, mine, rows, backups, saved, ckpt, pc>>
          /\ UNCHANGED <<read, cur, pendingDdls, pendingLoads, visit>>
          /\ UNCHANGED <<queue, held, okays, fails, hadLocal, discarded>>
      BY <2>9 DEF vars, db, loop, pool, hist
    <3>2. /\ \A j : Flying(j)' <=> Flying(j)
          /\ \A t : DdlFlies(t)' <=> DdlFlies(t)
          /\ \A j : Pending(j)' <=> Pending(j)
      BY <3>1 DEF Flying, Queued, DdlFlies, Pending
    <3>3. TypeInv' /\ BoundInv' /\ RestInv'
      BY <3>1 DEF IInv, TypeInv, BoundInv, RestInv
    <3>4. OnceInv'
      BY <3>1 DEF IInv, OnceInv, Flying, Queued
    <3>5. ChunkInv' /\ KeepInv' /\ DoneInv'
      BY <3>1, <3>2 DEF IInv, ChunkInv, KeepInv, DoneInv, KeptRowsSurvive
    <3>6. \A t : DdlInv(t)' <=> DdlInv(t)
      BY <3>1, <3>2 DEF DdlInv
    <3>7. \A t, c : LoadInv(t, c)' <=> LoadInv(t, c)
      BY <3>1, <3>2 DEF LoadInv
    <3>8. ActiveInv'
      BY <3>1, <3>6, <3>7 DEF IInv, ActiveInv, Active
    <3> QED
      BY <3>3, <3>4, <3>5, <3>8 DEF IInv
  <2> QED
    BY <2>1, <2>2, <2>3, <2>4, <2>5, <2>6, <2>7, <2>8, <2>9 DEF Next, LoadLoop, Pool
<1> QED
  BY <1>1, InitInv, PTL DEF Spec

\* The sets and counters keep their ranges, and at most MAX_PENDING_CHUNKS
\* loads are outstanding whenever a record is read.
THEOREM TypeCorrect == Spec => []TypeOK
<1>1. IInv => TypeOK
  <2> SUFFICES ASSUME IInv PROVE TypeOK
    OBVIOUS
  <2>1. \A t \in Tables : read[t] \in 0 .. Length(t)
    BY LengthType DEF IInv, TypeInv
  <2> QED
    BY <2>1 DEF IInv, TypeInv, BoundInv, TypeOK
<1> QED
  BY <1>1, Invariant, PTL

\* No chunk reaches a worker before its table does, and no job drops the table
\* under it.
THEOREM ChunksAfterTables == Spec => []ChunksHaveTheirTable
<1>1. IInv => ChunksHaveTheirTable
  <2> SUFFICES ASSUME IInv, NEW i \in held, i.op = "load"
               PROVE  /\ i.table \in exists
                      /\ \A j \in held \cup ToSet(queue) : j.table = i.table => j.op = "load"
    BY DEF ChunksHaveTheirTable
  <2>1. PICK t \in Tables : \E c \in 1 .. Chunks[t] : i = Chunk(t, c)
    BY HeldCases, JobFields DEF IInv
  <2>2. PICK c \in 1 .. Chunks[t] : i = Chunk(t, c)
    BY <2>1
  <2>3. i.table = t /\ t \in exists /\ ~DdlFlies(t)
    BY <2>2, JobFields DEF IInv, ChunkInv, Flying
  <2>4. ASSUME NEW j \in held \cup ToSet(queue), j.table = t PROVE j.op = "load"
    <3>1. CASE j \in held
      BY <2>3, <2>4, <3>1, HeldCases, JobFields DEF IInv, DdlFlies, Flying
    <3>2. CASE j \in ToSet(queue)
      <4>1. PICK n \in 1 .. Len(queue) : queue[n] = j
        BY <3>2 DEF ToSet, IInv, TypeInv
      <4>2. j \in Jobs /\ Flying(j)
        BY <4>1 DEF IInv, TypeInv, Flying, Queued
      <4> QED
        BY <2>3, <2>4, <4>2, JobCases, JobFields DEF DdlFlies
    <3> QED
      BY <2>4, <3>1, <3>2
  <2> QED
    BY <2>3, <2>4
<1> QED
  BY <1>1, Invariant, PTL

\* The user's preserved rows are never lost, whatever fails.
THEOREM RowsSurvive == Spec => []KeptRowsSurvive
<1>1. IInv => KeptRowsSurvive
  BY DEF IInv, KeepInv
<1> QED
  BY <1>1, Invariant, PTL

\* A load that reports success has loaded every chunk once, whatever earlier
\* loads had left, and has given the preserved rows back.
THEOREM LoadedWhole == Spec => []SuccessIsWhole
<1>1. IInv => SuccessIsWhole
  BY DEF IInv, DoneInv, KeepInv, KeptRowsSurvive, TypeInv, SuccessIsWhole, PreviousState
<1> QED
  BY <1>1, Invariant, PTL

-----------------------------------------------------------------------------
(* No answer is lost *)

\* A job will answer, or has: it is queued, a worker has it, or its result is there.
Owed(j) == Flying(j) \/ j \in okays \cup fails
DdlOwed(t) == DdlFlies(t) \/ Ddl(t) \in okays \cup fails

\* What the loop is waiting for (wait_ddl, drain_completed, the oldest load,
\* the last wait) has answered, or some worker will answer it.
WaitsAreAnswered ==
  \A j \in Awaited : Owed(j) \/ \E t \in Tables : j = Ddl(t) /\ Create(t) \in held

\* A load is waited for in one place only: its result is received once.
Apart ==
  /\ \A m, n \in 1 .. Len(pendingLoads) : pendingLoads[m] = pendingLoads[n] => m = n
  /\ \A m, n \in 1 .. Len(visit) : visit[m] = visit[n] => m = n
  /\ \A m \in 1 .. Len(pendingLoads) : \A n \in 1 .. Len(visit) : pendingLoads[m] # visit[n]

AnswerInv ==
  Active =>
    /\ \A t \in pendingDdls : DdlOwed(t)
    /\ \A t \in Tables : \A c \in 1 .. Chunks[t] :
         Pending(Chunk(t, c)) => Owed(Chunk(t, c)) /\ c < read[t]
    /\ Apart

\* Nothing is received or submitted, and no job disappears.
LEMMA AnswersStay ==
  ASSUME AnswerInv, Active' => Active, UNCHANGED <<read, pendingDdls, pendingLoads, visit>>,
         pendingDdls \subseteq Tables,
         \A t \in Tables : DdlOwed(t) => DdlOwed(t)',
         \A t \in Tables : \A c \in 1 .. Chunks[t] : Owed(Chunk(t, c)) => Owed(Chunk(t, c))'
  PROVE  AnswerInv'
<1> SUFFICES ASSUME Active' PROVE AnswerInv'
  BY DEF AnswerInv
<1>1. /\ \A t \in pendingDdls : DdlOwed(t)
      /\ \A t \in Tables : \A c \in 1 .. Chunks[t] :
           Pending(Chunk(t, c)) => Owed(Chunk(t, c)) /\ c < read[t]
      /\ Apart
  BY DEF AnswerInv
<1>2. (\A j : Pending(j)' <=> Pending(j)) /\ Apart'
  BY <1>1 DEF Pending, Apart
<1>3. \A t \in pendingDdls' : DdlOwed(t)'
  BY <1>1
<1>4. \A t \in Tables : \A c \in 1 .. Chunks[t] :
        Pending(Chunk(t, c))' => Owed(Chunk(t, c))' /\ c < read'[t]
  BY <1>1, <1>2
<1> QED
  BY <1>2, <1>3, <1>4 DEF AnswerInv

\* A worker takes a job, or goes on to the next statement of one: no answer is lost.
LEMMA TakeAnswers ==
  ASSUME IInv, AnswerInv, TakeWork
  PROVE  AnswerInv'
<1> DEFINE j == Head(queue)
<1>1. /\ queue # << >> /\ queue' = Tail(queue) /\ held' = held \cup {j}
      /\ UNCHANGED <<pc, read, pendingDdls, pendingLoads, visit, okays, fails>>
  BY DEF TakeWork, loop
<1>2. \A k : Queued(k)' <=> Queued(k) /\ k # j
  BY <1>1, QueuedTail DEF IInv, TypeInv, OnceInv
<1> HIDE DEF j
<1>3. \A k : Flying(k) => Flying(k)'
  BY <1>1, <1>2 DEF Flying
<1>4. \A k : Owed(k) => Owed(k)'
  BY <1>1, <1>3 DEF Owed
<1>5. \A t \in Tables : DdlOwed(t) => DdlOwed(t)'
  BY <1>1, <1>3 DEF DdlOwed, DdlFlies
<1>6. (Active' => Active) /\ pendingDdls \subseteq Tables
  BY <1>1 DEF Active, IInv, TypeInv
<1> QED
  BY <1>1, <1>4, <1>5, <1>6, AnswersStay

\* A worker's statement ends, well or not: its job has an answer, or the
\* second statement of the same job is next.
LEMMA WorkAnswers ==
  ASSUME IInv, AnswerInv, NEW i \in held,
         DropTable(i) \/ CreateTable(i) \/ LoadData(i) \/ WorkFails(i)
  PROVE  AnswerInv'
<1>1. UNCHANGED <<pc, read, pendingDdls, pendingLoads, visit, queue>>
  BY DEF DropTable, CreateTable, LoadData, WorkFails, loop
<1>2. /\ \A k : Queued(k)' <=> Queued(k)
      /\ okays \subseteq okays' /\ fails \subseteq fails'
      /\ held \ {i} \subseteq held'
  BY <1>1 DEF Queued, DropTable, CreateTable, LoadData, WorkFails
<1>3. \A k : k # i /\ Flying(k) => Flying(k)'
  BY <1>2 DEF Flying
<1>4. \/ \E t \in Tables : i = Ddl(t) /\ DdlOwed(t)'
      \/ \E t \in Tables : i = Create(t) /\ DdlOwed(t)'
      \/ \E t \in Tables : \E c \in 1 .. Chunks[t] : i = Chunk(t, c) /\ Owed(i)'
  <2>1. ASSUME NEW t \in Tables, i = Ddl(t) PROVE DdlOwed(t)'
    <3>1. i.op = "ddl" /\ i.table = t
      BY <2>1, JobFields
    <3>2. Create(t) \in held' \/ Ddl(t) \in fails'
      BY <3>1 DEF DropTable, CreateTable, LoadData, WorkFails
    <3> QED
      BY <3>2 DEF DdlOwed, DdlFlies
  <2>2. ASSUME NEW t \in Tables, i = Create(t) PROVE DdlOwed(t)'
    <3>1. i.op = "create" /\ i.table = t
      BY <2>2, JobFields
    <3>2. Ddl(t) \in okays' \/ Ddl(t) \in fails'
      BY <3>1 DEF DropTable, CreateTable, LoadData, WorkFails
    <3> QED
      BY <3>2 DEF DdlOwed, DdlFlies
  <2>3. ASSUME NEW t \in Tables, NEW c \in 1 .. Chunks[t], i = Chunk(t, c) PROVE Owed(i)'
    <3>1. i.op = "load"
      BY <2>3, JobFields
    <3>2. i \in okays' \/ i \in fails'
      BY <3>1 DEF DropTable, CreateTable, LoadData, WorkFails
    <3> QED
      BY <3>2 DEF Owed
  <2> QED
    BY <2>1, <2>2, <2>3, HeldCases DEF IInv
<1>5. ASSUME NEW t \in Tables, DdlOwed(t) PROVE DdlOwed(t)'
  <2>1. CASE i = Ddl(t) \/ i = Create(t)
    BY <1>4, <2>1, JobsDiffer
  <2>2. CASE i # Ddl(t) /\ i # Create(t)
    <3>1. Flying(Ddl(t)) => Flying(Ddl(t))'
      BY <1>3, <2>2
    <3>2. Create(t) \in held => Create(t) \in held'
      BY <1>2, <2>2
    <3> QED
      BY <1>2, <1>5, <3>1, <3>2 DEF DdlOwed, DdlFlies
  <2> QED
    BY <2>1, <2>2
<1>6. ASSUME NEW t \in Tables, NEW c \in 1 .. Chunks[t], Owed(Chunk(t, c))
      PROVE  Owed(Chunk(t, c))'
  <2>1. CASE i = Chunk(t, c)
    BY <1>4, <2>1, JobsDiffer
  <2>2. CASE i # Chunk(t, c)
    <3>1. Flying(Chunk(t, c)) => Flying(Chunk(t, c))'
      BY <1>3, <2>2
    <3> QED
      BY <1>2, <1>6, <3>1 DEF Owed
  <2> QED
    BY <2>1, <2>2
<1>7. (Active' => Active) /\ pendingDdls \subseteq Tables
  BY <1>1 DEF Active, IInv, TypeInv
<1> QED
  BY <1>1, <1>5, <1>6, <1>7, AnswersStay

\* The loop turns to something else; a run that has not begun waits for nothing.
LEMMA AsideAnswers ==
  ASSUME IInv, AnswerInv, Active' => Active, UNCHANGED <<loop, pool>>
  PROVE  AnswerInv'
<1>1. UNCHANGED <<read, pendingDdls, pendingLoads, visit, queue, held, okays, fails>>
  BY DEF loop, pool
<1>2. \A k : Flying(k)' <=> Flying(k)
  BY <1>1 DEF Flying, Queued
<1>3. \A k : Owed(k) => Owed(k)'
  BY <1>1, <1>2 DEF Owed
<1>4. \A t \in Tables : DdlOwed(t) => DdlOwed(t)'
  BY <1>1, <1>2 DEF DdlOwed, DdlFlies
<1>5. pendingDdls \subseteq Tables
  BY DEF IInv, TypeInv
<1> QED
  BY <1>1, <1>3, <1>4, <1>5, AnswersStay

\* A table's job is submitted and waited for from then on.
LEMMA SubmitAnswers ==
  ASSUME IInv, AnswerInv, Active, NEW u \in Tables, SubmitDdl(u),
         \A t \in Tables : read'[t] \in Nat /\ read'[t] >= read[t],
         UNCHANGED <<pendingLoads, visit, held, okays, fails>>
  PROVE  AnswerInv'
<1>1. /\ \A t \in pendingDdls : DdlOwed(t)
      /\ \A t \in Tables : \A c \in 1 .. Chunks[t] :
           Pending(Chunk(t, c)) => Owed(Chunk(t, c)) /\ c < read[t]
      /\ Apart
  BY DEF AnswerInv
<1>2. queue' = Append(queue, Ddl(u)) /\ pendingDdls' = pendingDdls \cup {u}
  BY DEF SubmitDdl
<1>3. \A k : Queued(k)' <=> Queued(k) \/ k = Ddl(u)
  BY <1>2, JobType, QueuedAppend DEF IInv, TypeInv
<1>4. \A k : Flying(k) \/ k = Ddl(u) => Flying(k)'
  BY <1>3 DEF Flying
<1>5. \A t \in pendingDdls' : DdlOwed(t)'
  BY <1>1, <1>2, <1>4 DEF DdlOwed, DdlFlies
<1>6. (\A j : Pending(j)' <=> Pending(j)) /\ Apart'
  BY <1>1 DEF Pending, Apart
<1>7. ASSUME NEW t \in Tables, NEW c \in 1 .. Chunks[t], Pending(Chunk(t, c))'
      PROVE  Owed(Chunk(t, c))' /\ c < read'[t]
  <2>1. Owed(Chunk(t, c)) /\ c < read[t] /\ c \in Nat
    BY <1>1, <1>6, <1>7, LengthType
  <2>2. Owed(Chunk(t, c))'
    BY <1>4, <2>1 DEF Owed
  <2>3. read[t] \in Nat /\ read'[t] \in Nat /\ read'[t] >= read[t]
    BY DEF IInv, TypeInv
  <2> QED
    BY <2>1, <2>2, <2>3
<1> QED
  BY <1>5, <1>6, <1>7 DEF AnswerInv

\* A table's header is read, and its preserved rows are backed up before its job is submitted.
LEMMA TableAnswers ==
  ASSUME IInv, AnswerInv, NEW u \in Tables, ReadTable(u) \/ FinishBackup(u)
  PROVE  AnswerInv'
<1>1. Active /\ UNCHANGED <<pendingLoads, visit, held, okays, fails>>
  BY DEF ReadTable, FinishBackup, Active
<1>2. read' = read \/ read' = [read EXCEPT ![u] = @ + 1]
  BY DEF ReadTable, FinishBackup, Advance
<1>3. \A t \in Tables : read'[t] \in Nat /\ read'[t] >= read[t]
  BY <1>2 DEF IInv, TypeInv
<1>4. CASE SubmitDdl(u)
  BY <1>1, <1>3, <1>4, SubmitAnswers
<1>5. CASE UNCHANGED <<queue, pendingDdls>>
  <2>1. /\ \A t \in pendingDdls : DdlOwed(t)
        /\ \A t \in Tables : \A c \in 1 .. Chunks[t] :
             Pending(Chunk(t, c)) => Owed(Chunk(t, c)) /\ c < read[t]
        /\ Apart
    BY <1>1 DEF AnswerInv
  <2>2. \A k : Flying(k)' <=> Flying(k)
    BY <1>1, <1>5 DEF Flying, Queued
  <2>3. \A t \in pendingDdls' : DdlOwed(t)'
    BY <1>1, <1>5, <2>1, <2>2 DEF DdlOwed, DdlFlies
  <2>4. (\A j : Pending(j)' <=> Pending(j)) /\ Apart'
    BY <1>1, <2>1 DEF Pending, Apart
  <2>5. ASSUME NEW t \in Tables, NEW c \in 1 .. Chunks[t], Pending(Chunk(t, c))'
        PROVE  Owed(Chunk(t, c))' /\ c < read'[t]
    <3>1. Owed(Chunk(t, c)) /\ c < read[t] /\ c \in Nat
      BY <2>1, <2>4, <2>5, LengthType
    <3>2. Owed(Chunk(t, c))'
      BY <1>1, <2>2, <3>1 DEF Owed
    <3>3. read[t] \in Nat /\ read'[t] \in Nat /\ read'[t] >= read[t]
      BY <1>3 DEF IInv, TypeInv
    <3> QED
      BY <3>1, <3>2, <3>3
  <2> QED
    BY <2>3, <2>4, <2>5 DEF AnswerInv
<1>6. SubmitDdl(u) \/ UNCHANGED <<queue, pendingDdls>>
  BY DEF ReadTable, FinishBackup, BackupRows
<1> QED
  BY <1>4, <1>5, <1>6

\* wait_ddl consumes the table's result and forgets the table; the results of
\* other jobs stay.
LEMMA AwaitAnswers ==
  ASSUME AnswerInv, Active, NEW u \in Tables, AwaitDdl(u),
         UNCHANGED <<held, fails>>, \A k : Queued(k) => Queued(k)'
  PROVE  /\ \A t \in pendingDdls' : DdlOwed(t)'
         /\ \A t, c : Owed(Chunk(t, c)) => Owed(Chunk(t, c))'
<1>1. \A t \in pendingDdls : DdlOwed(t)
  BY DEF AnswerInv
<1>2. pendingDdls' = pendingDdls \ {u} /\ okays' = okays \ {Ddl(u)}
  BY DEF AwaitDdl
<1>3. \A k : Flying(k) => Flying(k)'
  BY DEF Flying
<1>4. ASSUME NEW t \in pendingDdls' PROVE DdlOwed(t)'
  <2>1. DdlOwed(t) /\ Ddl(t) # Ddl(u)
    BY <1>1, <1>2, JobsDiffer
  <2> QED
    BY <1>2, <1>3, <2>1 DEF DdlOwed, DdlFlies
<1>5. ASSUME NEW t, NEW c, Owed(Chunk(t, c)) PROVE Owed(Chunk(t, c))'
  <2>1. Chunk(t, c) # Ddl(u)
    BY JobsDiffer
  <2> QED
    BY <1>2, <1>3, <1>5, <2>1 DEF Owed
<1> QED
  BY <1>4, <1>5

\* The end of a table waits for its job if nothing else has.
LEMMA TableEndAnswers ==
  ASSUME IInv, AnswerInv, NEW u \in Tables, ReadTableEnd(u)
  PROVE  AnswerInv'
<1>1. /\ Active /\ AwaitDdl(u) /\ read' = [read EXCEPT ![u] = @ + 1]
      /\ UNCHANGED <<pendingLoads, visit, queue, held, fails>>
  BY DEF ReadTableEnd, Advance, Active
<1>2. /\ \A t \in Tables : \A c \in 1 .. Chunks[t] :
           Pending(Chunk(t, c)) => Owed(Chunk(t, c)) /\ c < read[t]
      /\ Apart
  BY <1>1 DEF AnswerInv
<1>3. \A k : Queued(k) => Queued(k)'
  BY <1>1 DEF Queued
<1>4. /\ \A t \in pendingDdls' : DdlOwed(t)'
      /\ \A t, c : Owed(Chunk(t, c)) => Owed(Chunk(t, c))'
  BY <1>1, <1>3, AwaitAnswers
<1>5. (\A j : Pending(j)' <=> Pending(j)) /\ Apart'
  BY <1>1, <1>2 DEF Pending, Apart
<1>6. ASSUME NEW t \in Tables, NEW c \in 1 .. Chunks[t], Pending(Chunk(t, c))'
      PROVE  Owed(Chunk(t, c))' /\ c < read'[t]
  <2>1. Owed(Chunk(t, c)) /\ c < read[t] /\ c \in Nat
    BY <1>2, <1>5, <1>6, LengthType
  <2>2. read[t] \in Nat /\ read'[t] \in Nat /\ read'[t] >= read[t]
    BY <1>1 DEF IInv, TypeInv
  <2> QED
    BY <1>4, <2>1, <2>2
<1> QED
  BY <1>4, <1>5, <1>6 DEF AnswerInv

\* A chunk is submitted and waited for; its number is new, so it is not waited for twice.
LEMMA ChunkAnswers ==
  ASSUME IInv, AnswerInv, NEW u \in Tables, ReadChunk(u)
  PROVE  AnswerInv'
<1> DEFINE d == read[u]
           j == Chunk(u, d)
           pending == Append(pendingLoads, j)
<1>0. /\ pc = "read" /\ d \in 1 .. Chunks[u] /\ AwaitDdl(u) /\ Active
      /\ read' = [read EXCEPT ![u] = @ + 1] /\ queue' = Append(queue, j)
      /\ UNCHANGED <<held, fails>>
  BY DEF ReadChunk, ChunkDue, Advance, Active
<1>1. visit = << >>
  BY <1>0, ReadingFacts
<1>2. \/ visit' = pending /\ pendingLoads' = << >>
      \/ visit' = << >> /\ pendingLoads' = pending
  BY <1>1 DEF ReadChunk
<1>3. /\ \A t \in Tables : \A c \in 1 .. Chunks[t] :
           Pending(Chunk(t, c)) => Owed(Chunk(t, c)) /\ c < read[t]
      /\ Apart
  BY <1>0 DEF AnswerInv
<1>4. j \in LoadJobs /\ j \in Jobs /\ d \in Nat
  BY <1>0, JobType, LengthType
<1>5. /\ Len(pending) = Len(pendingLoads) + 1 /\ Len(pendingLoads) \in Nat
      /\ pending[Len(pendingLoads) + 1] = j
      /\ \A n \in 1 .. Len(pendingLoads) : pending[n] = pendingLoads[n]
  <2> HIDE DEF j
  <2> QED
    BY <1>4 DEF IInv, TypeInv
<1>6. ~Pending(j)
  BY <1>0, <1>3, <1>4
<1> HIDE DEF d, j, pending
<1>7. \A k : Queued(k)' <=> Queued(k) \/ k = j
  BY <1>0, <1>4, QueuedAppend DEF IInv, TypeInv
<1>8. /\ \A t \in pendingDdls' : DdlOwed(t)'
      /\ \A t, c : Owed(Chunk(t, c)) => Owed(Chunk(t, c))'
  BY <1>0, <1>7, AwaitAnswers
<1>9. \A n \in 1 .. Len(pending) : n \in 1 .. Len(pendingLoads) \/ n = Len(pendingLoads) + 1
  BY <1>5
<1>10. \A n \in 1 .. Len(pendingLoads) : pendingLoads[n] # j
  BY <1>6 DEF Pending
<1>11. \A m, n \in 1 .. Len(pending) : pending[m] = pending[n] => m = n
  <2>1. \A m, n \in 1 .. Len(pendingLoads) : pendingLoads[m] = pendingLoads[n] => m = n
    BY <1>3 DEF Apart
  <2> QED
    BY <1>5, <1>9, <1>10, <2>1
<1>12. Apart'
  <2>1. CASE visit' = pending /\ pendingLoads' = << >>
    BY <1>11, <2>1 DEF Apart
  <2>2. CASE visit' = << >> /\ pendingLoads' = pending
    BY <1>11, <2>2 DEF Apart
  <2> QED
    BY <1>2, <2>1, <2>2
<1>13. \A k : Pending(k)' => Pending(k) \/ k = j
  <2>1. ASSUME NEW k, Pending(k)' PROVE \E n \in 1 .. Len(pending) : pending[n] = k
    <3>1. CASE visit' = pending /\ pendingLoads' = << >>
      BY <2>1, <3>1 DEF Pending
    <3>2. CASE visit' = << >> /\ pendingLoads' = pending
      BY <2>1, <3>2 DEF Pending
    <3> QED
      BY <1>2, <3>1, <3>2
  <2> QED
    BY <1>5, <1>9, <2>1 DEF Pending
<1>14. ASSUME NEW t \in Tables, NEW c \in 1 .. Chunks[t], Pending(Chunk(t, c))'
       PROVE  Owed(Chunk(t, c))' /\ c < read'[t]
  <2>1. read[t] \in Nat /\ read'[t] = IF t = u THEN d + 1 ELSE read[t]
    BY <1>0 DEF IInv, TypeInv, d
  <2>2. c \in Nat
    BY LengthType
  <2>3. CASE Chunk(t, c) = j
    <3>1. t = u /\ c = d
      BY <2>3, JobsDiffer DEF j
    <3>2. Queued(Chunk(t, c))'
      BY <1>7, <2>3
    <3>3. Owed(Chunk(t, c))'
      BY <3>2 DEF Owed, Flying
    <3>4. c < read'[t]
      BY <1>4, <2>1, <3>1
    <3> QED
      BY <3>3, <3>4
  <2>4. CASE Pending(Chunk(t, c))
    <3>1. Owed(Chunk(t, c)) /\ c < read[t]
      BY <1>3, <2>4
    <3>2. c < read'[t]
      BY <2>1, <2>2, <3>1 DEF d
    <3> QED
      BY <1>8, <3>1, <3>2
  <2> QED
    BY <1>13, <1>14, <2>3, <2>4
<1> QED
  BY <1>8, <1>12, <1>14 DEF AnswerInv

\* A result is received, and its load is no longer waited for anywhere.
LEMMA ReceiveAnswers ==
  ASSUME IInv, AnswerInv, Active, NEW x \in LoadJobs, Apart',
         okays' = okays \/ (okays' = okays \ {x} /\ ~Pending(x)'),
         \A k : Pending(k)' => Pending(k),
         UNCHANGED <<read, pendingDdls, queue, held, fails>>
  PROVE  AnswerInv'
<1>1. /\ \A t \in pendingDdls : DdlOwed(t)
      /\ \A t \in Tables : \A c \in 1 .. Chunks[t] :
           Pending(Chunk(t, c)) => Owed(Chunk(t, c)) /\ c < read[t]
  BY DEF AnswerInv
<1>2. \A k : Flying(k)' <=> Flying(k)
  BY DEF Flying, Queued
<1>3. \A t \in Tables : Ddl(t) # x
  <2>1. PICK p \in Pieces : x = Chunk(p[1], p[2])
    BY DEF LoadJobs
  <2> QED
    BY <2>1, JobsDiffer
<1>4. ASSUME NEW t \in pendingDdls PROVE DdlOwed(t)'
  <2>1. DdlOwed(t) /\ Ddl(t) # x
    BY <1>1, <1>3 DEF IInv, TypeInv
  <2> QED
    BY <1>2, <2>1 DEF DdlOwed, DdlFlies
<1>5. ASSUME NEW t \in Tables, NEW c \in 1 .. Chunks[t], Pending(Chunk(t, c))'
      PROVE  Owed(Chunk(t, c))' /\ c < read'[t]
  <2>1. Owed(Chunk(t, c)) /\ c < read[t]
    BY <1>1, <1>5
  <2>2. Chunk(t, c) \in okays => Chunk(t, c) \in okays'
    BY <1>5
  <2> QED
    BY <1>2, <2>1, <2>2 DEF Owed
<1> QED
  BY <1>4, <1>5 DEF AnswerInv

\* drain_completed looks at a load: its result is received, or it stays.
LEMMA TryAnswers ==
  ASSUME IInv, AnswerInv, TryRecv
  PROVE  AnswerInv'
<1>a. PICK x : x = Head(visit)
  OBVIOUS
<1>0. /\ pc = "drain" /\ visit # << >> /\ visit' = Tail(visit)
      /\ pendingLoads' = IF x \in okays THEN pendingLoads ELSE Append(pendingLoads, x)
      /\ okays' = okays \ {x}
      /\ UNCHANGED <<read, pendingDdls, queue, held, fails>>
  BY <1>a DEF TryRecv
<1>1. visit \in Seq(LoadJobs) /\ pendingLoads \in Seq(LoadJobs)
  BY DEF IInv, TypeInv
<1>2. /\ x \in LoadJobs /\ x = visit[1] /\ Len(visit) \in Nat \ {0} /\ 1 \in 1 .. Len(visit)
      /\ Len(visit') = Len(visit) - 1
      /\ \A n \in 1 .. Len(visit') :
           visit'[n] = visit[n + 1] /\ n + 1 \in 1 .. Len(visit) /\ n + 1 # 1
  BY <1>0, <1>1, <1>a
<1>3. /\ Len(pendingLoads) \in Nat
      /\ Len(Append(pendingLoads, x)) = Len(pendingLoads) + 1
      /\ Append(pendingLoads, x)[Len(pendingLoads) + 1] = x
      /\ \A n \in 1 .. Len(pendingLoads) : Append(pendingLoads, x)[n] = pendingLoads[n]
  BY <1>1, <1>2
<1>4. Active /\ Apart
  BY <1>0 DEF AnswerInv, Active
<1>5. /\ \A n \in 1 .. Len(pendingLoads) : pendingLoads[n] # x
      /\ \A n \in 1 .. Len(visit') : visit'[n] # x
  <2>1. \A n \in 1 .. Len(visit) : visit[n] = visit[1] => n = 1
    BY <1>2, <1>4 DEF Apart
  <2>2. \A n \in 1 .. Len(pendingLoads) : pendingLoads[n] # visit[1]
    BY <1>2, <1>4 DEF Apart
  <2> QED
    BY <1>2, <2>1, <2>2
<1>6. /\ \A m, n \in 1 .. Len(visit') : visit'[m] = visit'[n] => m = n
      /\ \A m \in 1 .. Len(pendingLoads) : \A n \in 1 .. Len(visit') : pendingLoads[m] # visit'[n]
  <2>1. ASSUME NEW m \in 1 .. Len(visit'), NEW n \in 1 .. Len(visit'), visit'[m] = visit'[n]
        PROVE  m = n
    <3>1. m + 1 = n + 1
      BY <1>2, <1>4, <2>1 DEF Apart
    <3> QED
      BY <3>1
  <2>2. ASSUME NEW m \in 1 .. Len(pendingLoads), NEW n \in 1 .. Len(visit')
        PROVE  pendingLoads[m] # visit'[n]
    BY <1>2, <1>4 DEF Apart
  <2> QED
    BY <2>1, <2>2
<1>7. CASE x \in okays
  <2>1. pendingLoads' = pendingLoads
    BY <1>0, <1>7
  <2>2. Apart'
    BY <1>4, <1>6, <2>1 DEF Apart
  <2>3. ~Pending(x)'
    BY <1>5, <2>1 DEF Pending
  <2>4. \A k : Pending(k)' => Pending(k)
    BY <1>2, <2>1 DEF Pending
  <2> QED
    BY <1>0, <1>2, <1>4, <2>2, <2>3, <2>4, ReceiveAnswers
<1>8. CASE x \notin okays
  <2>1. pendingLoads' = Append(pendingLoads, x) /\ okays' = okays
    BY <1>0, <1>8
  <2>2. \A n \in 1 .. Len(pendingLoads') : n \in 1 .. Len(pendingLoads) \/ n = Len(pendingLoads) + 1
    BY <1>3, <2>1
  <2>3. \A m, n \in 1 .. Len(pendingLoads) : pendingLoads[m] = pendingLoads[n] => m = n
    BY <1>4 DEF Apart
  <2>4. \A m, n \in 1 .. Len(pendingLoads') : pendingLoads'[m] = pendingLoads'[n] => m = n
    BY <1>3, <1>5, <2>1, <2>2, <2>3
  <2>5. \A m \in 1 .. Len(pendingLoads') : \A n \in 1 .. Len(visit') : pendingLoads'[m] # visit'[n]
    BY <1>3, <1>5, <1>6, <2>1, <2>2
  <2>6. Apart'
    BY <1>6, <2>4, <2>5 DEF Apart
  <2>7. \A k : Pending(k)' => Pending(k)
    BY <1>2, <1>3, <2>1, <2>2 DEF Pending
  <2> QED
    BY <1>0, <1>2, <1>4, <2>1, <2>6, <2>7, ReceiveAnswers
<1> QED
  BY <1>7, <1>8

\* The oldest load has ended.
LEMMA OldestAnswers ==
  ASSUME IInv, AnswerInv, WaitOldest
  PROVE  AnswerInv'
<1>a. PICK x : x = Head(pendingLoads)
  OBVIOUS
<1>0. /\ pc = "oldest" /\ okays' = okays \ {x}
      /\ pendingLoads' = Tail(pendingLoads) /\ visit' = visit
      /\ UNCHANGED <<read, pendingDdls, queue, held, fails>>
  BY <1>a DEF WaitOldest
<1>1. pendingLoads \in Seq(LoadJobs) /\ pendingLoads # << >> /\ visit = << >>
  BY <1>0 DEF IInv, TypeInv, BoundInv
<1>2. /\ x \in LoadJobs /\ x = pendingLoads[1] /\ 1 \in 1 .. Len(pendingLoads)
      /\ \A n \in 1 .. Len(pendingLoads') :
           /\ pendingLoads'[n] = pendingLoads[n + 1]
           /\ n + 1 \in 1 .. Len(pendingLoads) /\ n + 1 # 1
  BY <1>0, <1>1, <1>a
<1>3. Active /\ Apart
  BY <1>0 DEF AnswerInv, Active
<1>4. \A m, n \in 1 .. Len(pendingLoads') : pendingLoads'[m] = pendingLoads'[n] => m = n
  <2>1. ASSUME NEW m \in 1 .. Len(pendingLoads'), NEW n \in 1 .. Len(pendingLoads'),
               pendingLoads'[m] = pendingLoads'[n]
        PROVE  m = n
    <3>1. m + 1 = n + 1
      BY <1>2, <1>3, <2>1 DEF Apart
    <3> QED
      BY <3>1
  <2> QED
    BY <2>1
<1>5. Apart'
  BY <1>0, <1>1, <1>4 DEF Apart
<1>6. \A n \in 1 .. Len(pendingLoads') : pendingLoads'[n] # x
  BY <1>2, <1>3 DEF Apart
<1>7. \A k : Pending(k)' => Pending(k) /\ k # x
  BY <1>0, <1>1, <1>2, <1>6 DEF Pending
<1>8. ~Pending(x)'
  BY <1>7
<1> QED
  BY <1>0, <1>2, <1>3, <1>5, <1>7, <1>8, ReceiveAnswers

\* The loop of `jibs load` never waits for a job that nobody has any more:
\* whatever it blocks on (wait_ddl, the oldest load, the last wait) has its
\* result, is queued, or is in a worker's hands, for any number of workers,
\* tables and chunks, and whatever has failed before (load.rs).
THEOREM NoAnswerIsLost == Spec => []WaitsAreAnswered
<1>1. Init => AnswerInv
  BY DEF Init, AnswerInv, Active
<1>2. IInv /\ AnswerInv /\ [Next]_vars => AnswerInv'
  <2> SUFFICES ASSUME IInv, AnswerInv, [Next]_vars PROVE AnswerInv'
    OBVIOUS
  <2>1. CASE StartClean \/ DrainEnd \/ ReadEnd \/ Succeed \/ JobFailed \/ Close \/ ReadEof
             \/ StatementFails \/ Again \/ UNCHANGED vars
    <3>1. (Active' => Active) /\ UNCHANGED <<loop, pool>>
      BY <2>1 DEF StartClean, DrainEnd, ReadEnd, Succeed, JobFailed, Close, ReadEof,
                  StatementFails, Again, vars, Active
    <3> QED
      BY <3>1, AsideAnswers
  <2>2. CASE StartLoad \/ CleanCheckpoint
    <3>1. pendingDdls' = {} /\ pendingLoads' = << >> /\ visit' = << >>
      BY <2>2 DEF StartLoad, CleanCheckpoint, BeginRecords
    <3>2. (\A j : ~Pending(j)') /\ Apart'
      BY <3>1 DEF Pending, Apart
    <3> QED
      BY <3>1, <3>2 DEF AnswerInv
  <2>3. CASE Kill \/ WaitAll
    BY <2>3 DEF Kill, WaitAll, AnswerInv, Active
  <2>4. CASE TryRecv \/ WaitOldest
    BY <2>4, TryAnswers, OldestAnswers
  <2>5. ASSUME NEW t \in Tables, CleanBackup(t) \/ RestoreRows(t) \/ DropBackup(t)
        PROVE  AnswerInv'
    <3>1. pc \in {"clean", "restore"} /\ pc' = pc
      BY <2>5 DEF CleanBackup, RestoreRows, DropBackup
    <3> QED
      BY <3>1 DEF AnswerInv, Active
  <2>6. ASSUME NEW t \in Tables,
               ReadTable(t) \/ FinishBackup(t) \/ ReadChunk(t) \/ ReadTableEnd(t)
        PROVE  AnswerInv'
    BY <2>6, TableAnswers, ChunkAnswers, TableEndAnswers
  <2>7. CASE TakeWork
    BY <2>7, TakeAnswers
  <2>8. ASSUME NEW i \in held, DropTable(i) \/ CreateTable(i) \/ LoadData(i) \/ WorkFails(i)
        PROVE  AnswerInv'
    BY <2>8, WorkAnswers
  <2> QED
    BY <2>1, <2>2, <2>3, <2>4, <2>5, <2>6, <2>7, <2>8 DEF Next, LoadLoop, Pool
<1>3. IInv /\ AnswerInv => WaitsAreAnswered
  <2> SUFFICES ASSUME IInv, AnswerInv, NEW j \in Awaited
               PROVE  Owed(j) \/ \E t \in Tables : j = Ddl(t) /\ Create(t) \in held
    BY DEF WaitsAreAnswered
  <2>1. /\ Active
        /\ (\E t \in pendingDdls : j = Ddl(t)) \/ (j \in LoadJobs /\ Pending(j))
    <3>1. pc \in {"read", "drain", "oldest", "waitAll"} /\ Active
      BY DEF Awaited, Active
    <3>2. pendingLoads \in Seq(LoadJobs) /\ visit \in Seq(LoadJobs)
      BY DEF IInv, TypeInv
    <3>3. CASE pc = "read"
      BY <3>1, <3>3 DEF Awaited
    <3>4. CASE pc = "drain"
      <4>1. visit # << >> /\ j = Head(visit)
        BY <3>4 DEF Awaited
      <4>2. 1 \in 1 .. Len(visit) /\ visit[1] = j /\ j \in LoadJobs
        BY <3>2, <4>1
      <4> QED
        BY <3>1, <4>2 DEF Pending
    <3>5. CASE pc = "oldest"
      <4>1. pendingLoads # << >> /\ j = Head(pendingLoads)
        BY <3>5 DEF Awaited, IInv, BoundInv
      <4>2. 1 \in 1 .. Len(pendingLoads) /\ pendingLoads[1] = j /\ j \in LoadJobs
        BY <3>2, <4>1
      <4> QED
        BY <3>1, <4>2 DEF Pending
    <3>6. CASE pc = "waitAll"
      <4>1. (\E t \in pendingDdls : j = Ddl(t)) \/ j \in ToSet(pendingLoads)
        BY <3>6 DEF Awaited
      <4>2. ASSUME j \in ToSet(pendingLoads) PROVE j \in LoadJobs /\ Pending(j)
        <5>1. PICK n \in 1 .. Len(pendingLoads) : pendingLoads[n] = j
          BY <3>2, <4>2 DEF ToSet
        <5> QED
          BY <3>2, <5>1 DEF Pending
      <4> QED
        BY <3>1, <4>1, <4>2
    <3> QED
      BY <3>1, <3>3, <3>4, <3>5, <3>6
  <2>2. CASE \E t \in pendingDdls : j = Ddl(t)
    <3>1. PICK t \in pendingDdls : j = Ddl(t)
      BY <2>2
    <3>2. t \in Tables /\ DdlOwed(t)
      BY <2>1 DEF AnswerInv, IInv, TypeInv
    <3> QED
      BY <3>1, <3>2 DEF DdlOwed, DdlFlies, Owed
  <2>3. CASE j \in LoadJobs /\ Pending(j)
    <3>1. PICK p \in Pieces : j = Chunk(p[1], p[2])
      BY <2>3 DEF LoadJobs
    <3>2. PICK t \in Tables : \E c \in 1 .. Chunks[t] : p = <<t, c>>
      BY PieceType
    <3>3. PICK c \in 1 .. Chunks[t] : p = <<t, c>>
      BY <3>2
    <3>4. j = Chunk(t, c)
      BY <3>1, <3>3
    <3> QED
      BY <2>1, <2>3, <3>4 DEF AnswerInv
  <2> QED
    BY <2>1, <2>2, <2>3
<1> QED
  BY <1>1, <1>2, <1>3, Invariant, PTL DEF Spec
=============================================================================
