------------------------------ MODULE DumpLoad ------------------------------
(***************************************************************************)
(* `jibs load <dump>` (client/src/load.rs): the records of a dump go       *)
(* through the loader pool into the local database.  Loads follow each     *)
(* other and may fail, be killed, or read a dump that has lost its end.    *)
(*                                                                         *)
(* The dump is read record by record, the tables interleaved in any way; a *)
(* dump that has its terminator is whole (DumpExport, AcceptedIsWhole).    *)
(* Each table has one DDL job and one job per chunk in a run, so a job     *)
(* stands for its own result channel.                                      *)
(***************************************************************************)
EXTENDS Naturals, Sequences, FiniteSets, SequencesExt

CONSTANTS
  Tables,
  Chunks,      \* chunks of each table
  Silent,      \* tables with a TableEnd and no Table record
  Preserved,   \* tables with a preserve rule in the manifest
  NumWorkers,
  MaxPending,  \* MAX_PENDING_CHUNKS
  MaxFaults    \* bound: failing statements, lost ends and kills

ASSUME LoadAssumption ==
  /\ Chunks \in [Tables -> Nat]
  /\ Preserved \subseteq Tables
  /\ Silent \subseteq Tables /\ \A t \in Silent : Chunks[t] = 0
  /\ NumWorkers \in Nat \ {0} /\ MaxPending \in Nat \ {0} /\ MaxFaults \in Nat

VARIABLES
  \* The local database.
  exists, mine,    \* tables there are; those that hold the user's kept rows
  rows,            \* how often each chunk has been loaded
  backups, saved,  \* backup tables; those that hold the user's rows
  ckpt,            \* an interrupted import has left its checkpoint
  \* load_records.
  pc,
  read,            \* records read of each table
  cur,             \* the table whose backup is being made or dropped
  pendingDdls, pendingLoads,
  visit,           \* loads drain_completed has still to look at
  \* The loader pool.
  queue, held, okays, fails,
  \* History.
  hadLocal, discarded, faults

db    == <<exists, mine, rows, backups, saved, ckpt>>
loop  == <<read, cur, pendingDdls, pendingLoads, visit>>
pool  == <<queue, held, okays, fails>>
hist  == <<hadLocal, discarded, faults>>
vars  == <<db, pc, loop, pool, hist>>

Pieces == UNION {{t} \X (1 .. Chunks[t]) : t \in Tables}

Ddl(t) == [op |-> "ddl", table |-> t, chunk |-> 0]
Create(t) == [op |-> "create", table |-> t, chunk |-> 0]
Chunk(t, c) == [op |-> "load", table |-> t, chunk |-> c]

Fault == faults < MaxFaults /\ faults' = faults + 1

-----------------------------------------------------------------------------
(* A run starts *)

PreviousState == ckpt \/ backups # {}

BeginRecords ==
  /\ pc' = "read"
  /\ read' = [t \in Tables |-> 0]
  /\ cur' = {} /\ pendingDdls' = {} /\ pendingLoads' = << >> /\ visit' = << >>
  /\ queue' = << >> /\ held' = {} /\ okays' = {} /\ fails' = {}

\* handle_previous_state: nothing is left of an earlier run.
StartLoad ==
  /\ pc = "idle" /\ ~PreviousState
  /\ BeginRecords
  /\ UNCHANGED <<db, hist>>

\* --clean: the backups, one statement each, then the checkpoint.
StartClean ==
  /\ pc = "idle" /\ PreviousState
  /\ pc' = "clean"
  /\ UNCHANGED <<db, loop, pool, hist>>

CleanBackup(t) ==
  /\ pc = "clean" /\ t \in backups
  /\ backups' = backups \ {t} /\ saved' = saved \ {t}
  /\ discarded' = discarded \cup {t}
  /\ UNCHANGED <<exists, mine, rows, ckpt, pc, loop, pool, hadLocal, faults>>

CleanCheckpoint ==
  /\ pc = "clean" /\ backups = {}
  /\ ckpt' = FALSE
  /\ BeginRecords
  /\ UNCHANGED <<exists, mine, rows, backups, saved, hist>>

-----------------------------------------------------------------------------
(* The loader pool *)

TakeWork ==
  /\ queue # << >> /\ Cardinality(held) < NumWorkers
  /\ held' = held \cup {Head(queue)}
  /\ queue' = Tail(queue)
  /\ UNCHANGED <<db, pc, loop, okays, fails, hist>>

Drop(t) ==
  /\ exists' = exists \ {t} /\ mine' = mine \ {t}
  /\ rows' = [p \in Pieces |-> IF p[1] = t THEN 0 ELSE rows[p]]

\* LOAD DATA LOCAL INFILE of one chunk; without the table it does nothing.
Load(t, c) ==
  /\ rows' = IF t \in exists THEN [rows EXCEPT ![<<t, c>>] = @ + 1] ELSE rows
  /\ UNCHANGED <<exists, mine>>

\* DROP TABLE IF EXISTS ...
DropTable(i) ==
  /\ i \in held /\ i.op = "ddl"
  /\ Drop(i.table)
  /\ held' = (held \ {i}) \cup {Create(i.table)}
  /\ UNCHANGED <<backups, saved, ckpt, pc, loop, queue, okays, fails, hist>>

\* ... then CREATE TABLE.
CreateTable(i) ==
  /\ i \in held /\ i.op = "create"
  /\ exists' = exists \cup {i.table}
  /\ held' = held \ {i}
  /\ okays' = okays \cup {Ddl(i.table)}
  /\ UNCHANGED <<mine, rows, backups, saved, ckpt, pc, loop, queue, fails, hist>>

LoadData(i) ==
  /\ i \in held /\ i.op = "load"
  /\ Load(i.table, i.chunk)
  /\ held' = held \ {i}
  /\ \/ i.table \in exists /\ okays' = okays \cup {i} /\ UNCHANGED fails
     \/ i.table \notin exists /\ fails' = fails \cup {i} /\ UNCHANGED okays
  /\ UNCHANGED <<backups, saved, ckpt, pc, loop, queue, hist>>

\* The statement fails, before or after it took effect in the database.
WorkFails(i) ==
  /\ i \in held /\ Fault
  /\ \/ i.op = "ddl" /\ Drop(i.table)
     \/ i.op = "create" /\ exists' = exists \cup {i.table} /\ UNCHANGED <<mine, rows>>
     \/ i.op = "load" /\ Load(i.table, i.chunk)
     \/ UNCHANGED <<exists, mine, rows>>
  /\ held' = held \ {i}
  /\ fails' = fails \cup {IF i.op = "load" THEN i ELSE Ddl(i.table)}
  /\ UNCHANGED <<backups, saved, ckpt, pc, loop, queue, okays, hadLocal, discarded>>

Pool == TakeWork \/ \E i \in held : DropTable(i) \/ CreateTable(i) \/ LoadData(i)

-----------------------------------------------------------------------------
(* Records *)

Length(t) == IF t \in Silent THEN 1 ELSE Chunks[t] + 2

TableDue(t) == t \notin Silent /\ read[t] = 0
ChunkDue(t) == t \notin Silent /\ read[t] \in 1 .. Chunks[t]
EndDue(t)   == read[t] = Length(t) - 1 /\ ~TableDue(t)

Advance(t) == read' = [read EXCEPT ![t] = @ + 1]

SubmitDdl(t) ==
  /\ queue' = Append(queue, Ddl(t))
  /\ pendingDdls' = pendingDdls \cup {t}

\* backup_preserved_rows, unless there is a backup or no table; then the job.
BackupRows(t) ==
  IF t \in Preserved /\ t \notin backups /\ t \in exists
  THEN /\ backups' = backups \cup {t}
       /\ saved' = IF t \in mine THEN saved \cup {t} ELSE saved
       /\ cur' = {t} /\ pc' = "backup"
       /\ UNCHANGED <<queue, pendingDdls>>
  ELSE SubmitDdl(t) /\ UNCHANGED <<backups, saved, cur, pc>>

ReadTable(t) ==
  /\ pc = "read" /\ TableDue(t)
  /\ Advance(t)
  /\ BackupRows(t)
  /\ UNCHANGED <<exists, mine, rows, ckpt, pendingLoads, visit, held, okays,
                 fails, hist>>

\* An empty backup is dropped again.
FinishBackup(t) ==
  /\ pc = "backup" /\ t \in cur
  /\ backups' = IF t \in saved THEN backups ELSE backups \ {t}
  /\ SubmitDdl(t)
  /\ cur' = {} /\ pc' = "read"
  /\ UNCHANGED <<exists, mine, rows, saved, ckpt, read, pendingLoads, visit,
                 held, okays, fails, hist>>

\* Variant: nobody waits for the job.
AwaitDdlNever(t) == pendingDdls' = pendingDdls \ {t} /\ okays' = okays \ {Ddl(t)}

\* wait_ddl, if the table's job has not been waited for.
AwaitDdl(t) ==
  /\ t \in pendingDdls => Ddl(t) \in okays
  /\ pendingDdls' = pendingDdls \ {t}
  /\ okays' = okays \ {Ddl(t)}

ReadChunk(t) ==
  /\ pc = "read" /\ ChunkDue(t)
  /\ Advance(t)
  /\ AwaitDdl(t)
  /\ queue' = Append(queue, Chunk(t, read[t]))
  /\ LET pending == Append(pendingLoads, Chunk(t, read[t]))
     IN IF Len(pending) > MaxPending
        THEN pc' = "drain" /\ visit' = pending /\ pendingLoads' = << >>
        ELSE pendingLoads' = pending /\ UNCHANGED <<pc, visit>>
  /\ UNCHANGED <<db, cur, held, fails, hist>>

\* drain_completed: try_recv of one load after the other; those without a
\* result are kept.
TryRecv ==
  /\ pc = "drain" /\ visit # << >> /\ Head(visit) \notin fails
  /\ visit' = Tail(visit)
  /\ pendingLoads' = IF Head(visit) \in okays
                     THEN pendingLoads ELSE Append(pendingLoads, Head(visit))
  /\ okays' = okays \ {Head(visit)}
  /\ UNCHANGED <<db, pc, read, cur, pendingDdls, queue, held, fails, hist>>

\* Variant: the bound is not enforced.
DrainEndUnbounded ==
  /\ pc = "drain" /\ visit = << >>
  /\ pc' = "read"
  /\ UNCHANGED <<db, loop, pool, hist>>

DrainEnd ==
  /\ pc = "drain" /\ visit = << >>
  /\ pc' = IF Len(pendingLoads) > MaxPending THEN "oldest" ELSE "read"
  /\ UNCHANGED <<db, loop, pool, hist>>

WaitOldest ==
  /\ pc = "oldest" /\ Head(pendingLoads) \in okays
  /\ okays' = okays \ {Head(pendingLoads)}
  /\ pendingLoads' = Tail(pendingLoads)
  /\ pc' = "read"
  /\ UNCHANGED <<db, read, cur, pendingDdls, visit, queue, held, fails, hist>>

ReadTableEnd(t) ==
  /\ pc = "read" /\ EndDue(t)
  /\ Advance(t)
  /\ AwaitDdl(t)
  /\ UNCHANGED <<db, pc, cur, pendingLoads, visit, queue, held, fails, hist>>

\* PostProcess, ForeignKeys and End.
ReadEnd ==
  /\ pc = "read" /\ \A t \in Tables : read[t] = Length(t)
  /\ pc' = "waitAll"
  /\ UNCHANGED <<db, loop, pool, hist>>

\* Variant: the missing terminator goes unnoticed.
ReadEofAccepted ==
  /\ pc = "read" /\ Fault
  /\ pc' = "waitAll"
  /\ UNCHANGED <<db, loop, pool, hadLocal, discarded>>

\* The dump ends before its terminator.
ReadEof ==
  /\ pc = "read" /\ Fault
  /\ pc' = "closing"
  /\ UNCHANGED <<db, loop, pool, hadLocal, discarded>>

\* The jobs that remain are waited for.
WaitAll ==
  /\ pc = "waitAll"
  /\ {Ddl(t) : t \in pendingDdls} \cup ToSet(pendingLoads) \subseteq okays
  /\ okays' = {} /\ pendingDdls' = {} /\ pendingLoads' = << >>
  /\ pc' = "restore"
  /\ UNCHANGED <<db, read, cur, visit, queue, held, fails, hist>>

\* restore_preserved_rows: REPLACE INTO, then DROP of the backup.
RestoreRows(t) ==
  /\ pc = "restore" /\ cur = {} /\ t \in backups /\ t \in exists
  /\ mine' = IF t \in saved THEN mine \cup {t} ELSE mine
  /\ cur' = {t}
  /\ UNCHANGED <<exists, rows, backups, saved, ckpt, pc, read, pendingDdls,
                 pendingLoads, visit, pool, hist>>

\* Variant: all backups go with the first.
DropBackupsEarly(t) ==
  /\ pc = "restore" /\ t \in cur
  /\ backups' = {} /\ saved' = {}
  /\ cur' = {}
  /\ UNCHANGED <<exists, mine, rows, ckpt, pc, read, pendingDdls, pendingLoads,
                 visit, pool, hist>>

DropBackup(t) ==
  /\ pc = "restore" /\ t \in cur
  /\ backups' = backups \ {t} /\ saved' = saved \ {t}
  /\ cur' = {}
  /\ UNCHANGED <<exists, mine, rows, ckpt, pc, read, pendingDdls, pendingLoads,
                 visit, pool, hist>>

\* Set blocks and after statements, the shutdown of the pool, foreign keys.
Succeed ==
  /\ pc = "restore" /\ cur = {} /\ backups = {}
  /\ pc' = "done"
  /\ UNCHANGED <<db, loop, pool, hist>>

-----------------------------------------------------------------------------
(* Failure *)

Awaited ==
  CASE pc = "read"    -> {Ddl(t) : t \in {u \in pendingDdls : ChunkDue(u) \/ EndDue(u)}}
    [] pc = "drain"   -> IF visit = << >> THEN {} ELSE {Head(visit)}
    [] pc = "oldest"  -> {Head(pendingLoads)}
    [] pc = "waitAll" -> {Ddl(t) : t \in pendingDdls} \cup ToSet(pendingLoads)
    [] OTHER          -> {}

\* A job that is being waited for has failed.
JobFailed ==
  /\ Awaited \cap fails # {}
  /\ pc' = "closing"
  /\ UNCHANGED <<db, loop, pool, hist>>

\* A statement of the main connection, or its record, fails.
StatementFails ==
  /\ pc \in {"clean", "read", "backup", "restore"} /\ Fault
  /\ pc' = IF pc = "clean" THEN "failed" ELSE "closing"
  /\ UNCHANGED <<db, loop, pool, hadLocal, discarded>>

\* pool.shutdown(): the workers finish what is queued.
Close ==
  /\ pc = "closing" /\ queue = << >> /\ held = {}
  /\ pc' = "failed"
  /\ UNCHANGED <<db, loop, pool, hist>>

Kill ==
  /\ pc \notin {"idle", "done", "failed"} /\ Fault
  /\ pc' = "failed"
  /\ queue' = << >> /\ held' = {}
  /\ UNCHANGED <<db, loop, okays, fails, hadLocal, discarded>>

\* The user loads again.
Again ==
  /\ pc \in {"done", "failed"}
  /\ pc' = "idle"
  /\ UNCHANGED <<db, loop, pool, hist>>

-----------------------------------------------------------------------------
Init ==
  /\ exists = Tables \ (Silent \ Preserved)
  /\ \E left \in SUBSET Preserved :
       backups = left /\ saved = left /\ mine = Preserved \ left
  /\ rows = [p \in Pieces |-> 0]
  /\ ckpt \in BOOLEAN
  /\ pc = "idle" /\ read = [t \in Tables |-> 0] /\ cur = {}
  /\ pendingDdls = {} /\ pendingLoads = << >> /\ visit = << >>
  /\ queue = << >> /\ held = {} /\ okays = {} /\ fails = {}
  /\ hadLocal = Preserved /\ discarded = {} /\ faults = 0

LoadLoop ==
  \/ StartLoad \/ StartClean \/ CleanCheckpoint \/ TryRecv \/ DrainEnd
  \/ WaitOldest \/ ReadEnd \/ WaitAll \/ Succeed \/ JobFailed \/ Close
  \/ \E t \in Tables :
       \/ CleanBackup(t) \/ ReadTable(t) \/ FinishBackup(t) \/ ReadChunk(t)
       \/ ReadTableEnd(t) \/ RestoreRows(t) \/ DropBackup(t)

Next ==
  \/ LoadLoop \/ Pool \/ \E i \in held : WorkFails(i)
  \/ ReadEof \/ StatementFails \/ Kill \/ Again

Spec == Init /\ [][Next]_vars

\* The loop and the workers are threads that run when they can; the user whose
\* load failed loads again.
FairSpec == Spec /\ WF_vars(LoadLoop) /\ WF_vars(Pool) /\ WF_vars(Again)

-----------------------------------------------------------------------------
(* Properties *)

\* The types of the variables; at most MAX_PENDING_CHUNKS loads are
\* outstanding when a record is read, one more while they are drained.
TypeOK ==
  /\ exists \subseteq Tables /\ backups \subseteq Preserved
  /\ mine \subseteq exists /\ saved \subseteq backups
  /\ \A t \in Tables : read[t] \in 0 .. Length(t)
  /\ Cardinality(held) <= NumWorkers
  /\ Len(pendingLoads) + Len(visit) <= MaxPending + 1
  /\ pc = "read" => Len(pendingLoads) <= MaxPending

\* A chunk in the hands of a worker has its table, and no job that would drop
\* it is queued or half done (load.rs:310).
ChunksHaveTheirTable ==
  \A i \in held : i.op = "load" =>
    /\ i.table \in exists
    /\ \A j \in held \cup ToSet(queue) : j.table = i.table => j.op = "load"

\* The user's preserved rows are in the table or in its backup at every moment,
\* whatever fails, unless --clean gave the backup up (load.rs:172, 287).
KeptRowsSurvive == hadLocal \ discarded \subseteq mine \cup saved

\* After success every chunk of every table is in once, and the preserved rows
\* are back: also after earlier loads that failed half-way, and never from a
\* dump that had lost its end (load.rs:361).
SuccessIsWhole ==
  pc = "done" => /\ \A p \in Pieces : rows[p] = 1
                 /\ Tables \ Silent \subseteq exists
                 /\ hadLocal \ discarded \subseteq mine
                 /\ ~PreviousState

\* A user who loads again, with --clean when told to, succeeds once nothing
\* fails any more: loop and pool never wait for each other, and no failed load
\* leaves a state that stops the next.
LoadsConverge == <>(pc = "done")
=============================================================================
