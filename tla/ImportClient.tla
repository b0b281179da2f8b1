---------------------------- MODULE ImportClient ----------------------------
(***************************************************************************)
(* `jibs import`: the client's message loop (client/src/protocol.rs), the  *)
(* loader pool it feeds (client/src/loader.rs), the resume checkpoint and  *)
(* the preserve backups it keeps in the local database                     *)
(* (client/src/checkpoint.rs), and the start of a run, which looks for the *)
(* state an interrupted one left behind (client/src/import.rs).            *)
(*                                                                         *)
(* The process may be killed between any two steps; the local database     *)
(* survives.  Every unit of work given to the pool has a ticket: it stands *)
(* for the item's own result channel, and it orders the shared queue.      *)
(***************************************************************************)
EXTENDS Naturals, FiniteSets

CONSTANTS
  Tables,      \* the tables the server streams
  Chunks,      \* how many Data messages each of them takes
  Preserved,   \* tables with a preserve rule
  Matching,    \* preserved tables whose source rows match the rule too
  Silent,      \* aggregate tables whose look-ups find no row
  Doubled,     \* aggregate roots that are also exclude_data tables
  NumWorkers,  \* loader threads
  MaxPending,  \* MAX_PENDING_CHUNKS
  MaxFaults    \* bound: crashes, interruptions and failing statements

ASSUME ClientAssumption ==
  /\ Chunks \in [Tables -> Nat]
  /\ Preserved \subseteq Tables
  /\ Matching \subseteq Preserved
  /\ Silent \subseteq Tables
  /\ \A t \in Silent : Chunks[t] = 0
  /\ Doubled \subseteq Tables \ Silent
  /\ NumWorkers \in Nat \ {0, 1}
  /\ MaxPending \in Nat \ {0}
  /\ MaxFaults \in Nat

VARIABLES
  \* The local database.
  exists,      \* imported tables that exist
  mine,        \* tables that hold the user's rows a preserve rule matches
  rows,        \* how often each chunk of each table has been loaded
  backups,     \* tables that have a _jibs_preserve_ backup table
  saved,       \* what each backup holds: "local" rows, "source" rows
  ckptExists,  \* the _jibs_checkpoint table exists
  ckpt,        \* the tables it lists
  \* The server's stream, as far as the loop has read it.
  phase,       \* where each table's stream stands
  next,        \* Data messages read of each table
  \* The loop's own state.
  pc,
  completed,   \* completed_tables
  skipped,     \* skipped_tables
  schemas,     \* domain of table_schemas
  pendingDdl,  \* pending_ddls
  pendingLoads,\* pending_loads
  deferred,    \* deferred_table_dones
  visit,       \* loads drain_completed_loads has still to look at
  ready,       \* tables being finalized
  streamDone,  \* Done has been read
  cur,         \* the table whose backup is being made or dropped, if any
  \* The loader pool.
  ticket,      \* the next ticket
  queue,       \* work submitted and not taken
  held,        \* work in the hands of a worker
  okays,       \* tickets with an Ok result not yet read
  fails,       \* tickets with an Err result not yet read
  \* History.
  hadLocal,    \* tables that held preserved rows at first
  discarded,   \* tables whose backup --clean has dropped
  faults

dbVars   == <<exists, mine, rows, backups, saved, ckptExists, ckpt>>
wireVars == <<phase, next>>
loopVars == <<completed, skipped, schemas, pendingDdl, pendingLoads,
              deferred, visit, ready, streamDone, cur>>
poolVars == <<ticket, queue, held, okays, fails>>
histVars == <<hadLocal, discarded, faults>>
vars     == <<dbVars, wireVars, pc, loopVars, poolVars, histVars>>

-----------------------------------------------------------------------------
(* Values *)

Pieces == UNION {{t} \X (1 .. Chunks[t]) : t \in Tables}

Work == [op : {"ddl", "create", "load"}, table : Tables, chunk : Nat, n : Nat]

Running == {"loop", "backup", "drain", "finalize", "oldest", "drainAll",
            "restore", "dropBackup", "after", "cleanup", "shutdown"}

\* The first thing the server sends of a table: Schema, the Schema of an
\* excluded table, or, for an aggregate table without rows, only TableDone.
FirstPhase(t) ==
  IF t \in Silent THEN "tail" ELSE IF t \in Doubled THEN "excluded" ELSE "start"

\* Variant: an off-by-one in the number of Data messages.
DataDueOneMore(t) == phase[t] = "open" /\ next[t] <= Chunks[t]

SchemaDue(t) == phase[t] \in {"start", "excluded"}
DataDue(t)   == phase[t] = "open" /\ next[t] < Chunks[t]
DoneDue(t)   == \/ phase[t] \in {"tail", "exclOpen"}
                \/ phase[t] = "open" /\ next[t] = Chunks[t]

ReadSchema(t) ==
  /\ phase' = [phase EXCEPT ![t] = IF @ = "start" THEN "open" ELSE "exclOpen"]
  /\ UNCHANGED next
ReadData(t) ==
  /\ next' = [next EXCEPT ![t] = @ + 1]
  /\ UNCHANGED phase
ReadTableDone(t) ==
  /\ phase' = [phase EXCEPT ![t] = IF @ = "exclOpen" THEN "start" ELSE "closed"]
  /\ UNCHANGED next

HasPreviousState == ckptExists \/ backups # {}

TableOf(S) == {p.table : p \in S}
TicketsOf(S) == {p.n : p \in S}

\* The rows CREATE TABLE ... AS SELECT ... WHERE <preserve rule> copies.
MatchingRows(t) ==
  {x \in {"local", "source"} :
     \/ x = "local" /\ t \in mine
     \/ x = "source" /\ t \in Matching
          /\ \E c \in 1 .. Chunks[t] : rows[<<t, c>>] > 0}

-----------------------------------------------------------------------------
(* A run starts *)

ResetLoop ==
  /\ skipped' = {} /\ schemas' = {} /\ pendingDdl' = {} /\ pendingLoads' = {}
  /\ deferred' = {} /\ visit' = {} /\ ready' = {} /\ streamDone' = FALSE
  /\ cur' = {}

ResetPool ==
  ticket' = 0 /\ queue' = {} /\ held' = {} /\ okays' = {} /\ fails' = {}

\* Variant: the checkpoint is not read back.
CompletedTablesForgotten(mode) == {}

CompletedTables(mode) == IF mode = "resume" THEN ckpt ELSE {}

\* A run that finds no earlier state, or is told to resume.
StartImport(mode) ==
  /\ \/ pc = "idle" /\ mode = "resume"
     \/ pc \in {"idle", "fresh"} /\ mode = "plain" /\ ~HasPreviousState
  /\ pc' = "loop"
  /\ ckptExists' = TRUE
  /\ completed' = CompletedTables(mode)
  /\ ResetLoop /\ ResetPool
  /\ phase' = [t \in Tables |-> FirstPhase(t)]
  /\ next' = [t \in Tables |-> 0]
  /\ UNCHANGED <<exists, mine, rows, backups, saved, ckpt, histVars>>

\* --clean: the backups go first, one statement each, then the checkpoint.
StartClean ==
  /\ pc = "idle" /\ HasPreviousState
  /\ pc' = "clean"
  /\ UNCHANGED <<dbVars, wireVars, loopVars, poolVars, histVars>>

CleanBackup(t) ==
  /\ pc = "clean" /\ t \in backups
  /\ backups' = backups \ {t}
  /\ saved' = [saved EXCEPT ![t] = {}]
  /\ discarded' = discarded \cup {t}
  /\ UNCHANGED <<exists, mine, rows, ckptExists, ckpt, wireVars, pc, loopVars,
                 poolVars, hadLocal, faults>>

CleanCheckpoint ==
  /\ pc = "clean" /\ backups = {}
  /\ ckptExists' = FALSE /\ ckpt' = {}
  /\ pc' = "fresh"
  /\ UNCHANGED <<exists, mine, rows, backups, saved, wireVars, loopVars,
                 poolVars, histVars>>

-----------------------------------------------------------------------------
(* The loader pool *)

SubmitDdl(t) ==
  /\ queue' = queue \cup {[op |-> "ddl", table |-> t, chunk |-> 0, n |-> ticket]}
  /\ pendingDdl' = {d \in pendingDdl : d.table # t}
                     \cup {[table |-> t, n |-> ticket]}
  /\ ticket' = ticket + 1
  /\ UNCHANGED <<held, okays, fails>>

\* A free worker takes the oldest item of the shared queue.
TakeWork(i) ==
  /\ i \in queue /\ \A j \in queue : i.n <= j.n
  /\ Cardinality(held) < NumWorkers
  /\ queue' = queue \ {i}
  /\ held' = held \cup {i}
  /\ UNCHANGED <<dbVars, wireVars, pc, loopVars, ticket, okays, fails, histVars>>

\* create_table: DROP TABLE IF EXISTS, then CREATE TABLE.
Drop(t) ==
  /\ exists' = exists \ {t}
  /\ mine' = mine \ {t}
  /\ rows' = [p \in Pieces |-> IF p[1] = t THEN 0 ELSE rows[p]]

Create(t) == exists' = exists \cup {t} /\ UNCHANGED <<mine, rows>>

\* LOAD DATA LOCAL INFILE of one chunk; without the table it does nothing.
Load(t, c) ==
  /\ rows' = IF t \in exists THEN [rows EXCEPT ![<<t, c>>] = @ + 1] ELSE rows
  /\ UNCHANGED <<exists, mine>>

DropTable(i) ==
  /\ i \in held /\ i.op = "ddl"
  /\ Drop(i.table)
  /\ held' = (held \ {i}) \cup {[i EXCEPT !.op = "create"]}
  /\ UNCHANGED <<backups, saved, ckptExists, ckpt, wireVars, pc, loopVars,
                 ticket, queue, okays, fails, histVars>>

CreateTable(i) ==
  /\ i \in held /\ i.op = "create"
  /\ Create(i.table)
  /\ held' = held \ {i}
  /\ okays' = okays \cup {i.n}
  /\ UNCHANGED <<backups, saved, ckptExists, ckpt, wireVars, pc, loopVars,
                 ticket, queue, fails, histVars>>

LoadData(i) ==
  /\ i \in held /\ i.op = "load"
  /\ Load(i.table, i.chunk)
  /\ held' = held \ {i}
  /\ okays' = IF i.table \in exists THEN okays \cup {i.n} ELSE okays
  /\ fails' = IF i.table \in exists THEN fails ELSE fails \cup {i.n}
  /\ UNCHANGED <<backups, saved, ckptExists, ckpt, wireVars, pc, loopVars,
                 ticket, queue, histVars>>

\* The statement fails, before or after it took effect in the database.
WorkFails(i) ==
  /\ i \in held /\ faults < MaxFaults
  /\ faults' = faults + 1
  /\ \/ i.op = "ddl" /\ Drop(i.table)
     \/ i.op = "create" /\ Create(i.table)
     \/ i.op = "load" /\ Load(i.table, i.chunk)
     \/ UNCHANGED <<exists, mine, rows>>
  /\ held' = held \ {i}
  /\ fails' = fails \cup {i.n}
  /\ UNCHANGED <<backups, saved, ckptExists, ckpt, wireVars, pc, loopVars,
                 ticket, queue, okays, hadLocal, discarded>>

Worker(i) == TakeWork(i) \/ DropTable(i) \/ CreateTable(i) \/ LoadData(i)

-----------------------------------------------------------------------------
(* Messages of a table that an earlier run completed *)

SkipSchema(t) ==
  /\ pc = "loop" /\ SchemaDue(t) /\ t \in completed
  /\ ReadSchema(t)
  /\ skipped' = skipped \cup {t}
  /\ UNCHANGED <<dbVars, pc, completed, schemas, pendingDdl, pendingLoads,
                 deferred, visit, ready, streamDone, cur, poolVars, histVars>>

SkipMessage(t) ==
  /\ pc = "loop" /\ t \in skipped
  /\ \/ DataDue(t) /\ ReadData(t)
     \/ DoneDue(t) /\ ReadTableDone(t)
  /\ UNCHANGED <<dbVars, pc, loopVars, poolVars, histVars>>

-----------------------------------------------------------------------------
(* Schema: back up the preserved rows, then have the table recreated *)

\* Variant: an existing backup is made again.
NeedsBackupAgain(t) == t \in Preserved /\ t \in exists

NeedsBackup(t) == t \in Preserved /\ t \notin backups /\ t \in exists

AcceptSchema(t) ==
  /\ pc = "loop" /\ SchemaDue(t) /\ t \notin completed
  /\ ReadSchema(t)
  /\ schemas' = schemas \cup {t}
  /\ \/ /\ NeedsBackup(t)
        /\ backups' = backups \cup {t}
        /\ saved' = [saved EXCEPT ![t] = MatchingRows(t)]
        /\ cur' = {t}
        /\ pc' = "backup"
        /\ UNCHANGED <<pendingDdl, poolVars>>
     \/ /\ ~NeedsBackup(t)
        /\ SubmitDdl(t)
        /\ UNCHANGED <<backups, saved, cur, pc>>
  /\ UNCHANGED <<exists, mine, rows, ckptExists, ckpt, completed, skipped,
                 pendingLoads, deferred, visit, ready, streamDone, histVars>>

\* The rest of the handler: a backup without rows is dropped again.
FinishBackup(t) ==
  /\ pc = "backup" /\ t \in cur
  /\ backups' = IF saved[t] = {} THEN backups \ {t} ELSE backups
  /\ SubmitDdl(t)
  /\ cur' = {}
  /\ pc' = "loop"
  /\ UNCHANGED <<exists, mine, rows, saved, ckptExists, ckpt, wireVars,
                 completed, skipped, schemas, pendingLoads, deferred, visit,
                 ready, streamDone, histVars>>

-----------------------------------------------------------------------------
(* Data and TableDone *)

\* Variant: Data does not wait for CREATE TABLE.
DdlNeverAwaited(t) == TRUE

\* The DDL of t has been waited for, or its result is there.
DdlReady(t) == \A d \in pendingDdl : d.table = t => d.n \in okays

DdlOf(t) == {d \in pendingDdl : d.table = t}

\* Variant: TableDone is taken for the end of the loads.
ReadyAtTableDone(def, pend) == def

\* Deferred tables with no load left in pend.
ReadyTables(def, pend) == def \ TableOf(pend)

Oldest(p, S) == p \in S /\ \A q \in S : p.n <= q.n

RecvData(t) ==
  /\ pc = "loop" /\ DataDue(t) /\ t \notin skipped /\ t \in schemas
  /\ DdlReady(t)
  /\ ReadData(t)
  /\ LET pend == pendingLoads
                   \cup {[table |-> t, chunk |-> next[t] + 1, n |-> ticket]}
     IN /\ pendingLoads' = pend
        /\ \/ /\ Cardinality(pend) > MaxPending
              /\ visit' = pend
              /\ pc' = "drain"
           \/ /\ Cardinality(pend) <= MaxPending
              /\ UNCHANGED <<visit, pc>>
  /\ queue' = queue \cup {[op |-> "load", table |-> t, chunk |-> next[t] + 1,
                           n |-> ticket]}
  /\ ticket' = ticket + 1
  /\ pendingDdl' = pendingDdl \ DdlOf(t)
  /\ okays' = okays \ TicketsOf(DdlOf(t))
  /\ UNCHANGED <<dbVars, completed, skipped, schemas, deferred, ready,
                 streamDone, cur, held, fails, histVars>>

RecvTableDone(t) ==
  /\ pc = "loop" /\ DoneDue(t) /\ t \notin skipped
  /\ DdlReady(t)
  /\ ReadTableDone(t)
  /\ pendingDdl' = pendingDdl \ DdlOf(t)
  /\ okays' = okays \ TicketsOf(DdlOf(t))
  /\ deferred' = deferred \cup {t}
  /\ visit' = pendingLoads
  /\ pc' = "drain"
  /\ UNCHANGED <<dbVars, completed, skipped, schemas, pendingLoads, ready,
                 streamDone, cur, ticket, queue, held, fails, histVars>>

\* drain_completed_loads: one try_recv per load, oldest first, while the
\* workers go on; a load without a result yet stays pending.
TryRecv(p) ==
  /\ pc = "drain" /\ Oldest(p, visit) /\ p.n \notin fails
  /\ visit' = visit \ {p}
  /\ pendingLoads' = IF p.n \in okays THEN pendingLoads \ {p} ELSE pendingLoads
  /\ okays' = okays \ {p.n}
  /\ UNCHANGED <<dbVars, wireVars, pc, completed, skipped, schemas, pendingDdl,
                 deferred, ready, streamDone, cur, ticket, queue, held, fails,
                 histVars>>

\* finalize_completed_tables: which tables to finalize.
DrainEnd ==
  /\ pc = "drain" /\ visit = {}
  /\ ready' = ReadyTables(deferred, pendingLoads)
  /\ deferred' = deferred \ ReadyTables(deferred, pendingLoads)
  /\ pc' = "finalize"
  /\ UNCHANGED <<dbVars, wireVars, completed, skipped, schemas, pendingDdl,
                 pendingLoads, visit, streamDone, cur, poolVars, histVars>>

\* Checkpoint::mark_complete, one INSERT per table.
FinalizeTable(t) ==
  /\ pc = "finalize" /\ t \in ready /\ t \notin ckpt
  /\ ckpt' = ckpt \cup {t}
  /\ ready' = ready \ {t}
  /\ schemas' = schemas \ {t}
  /\ UNCHANGED <<exists, mine, rows, backups, saved, ckptExists, wireVars, pc,
                 completed, skipped, pendingDdl, pendingLoads, deferred, visit,
                 streamDone, cur, poolVars, histVars>>

\* Variant: the loop never blocks on the oldest load.
FinalizeEndUnbounded ==
  /\ pc = "finalize" /\ ready = {}
  /\ pc' = IF streamDone THEN "restore" ELSE "loop"
  /\ UNCHANGED <<dbVars, wireVars, loopVars, poolVars, histVars>>

FinalizeEnd ==
  /\ pc = "finalize" /\ ready = {}
  /\ pc' = IF streamDone THEN "restore"
           ELSE IF Cardinality(pendingLoads) > MaxPending THEN "oldest"
           ELSE "loop"
  /\ UNCHANGED <<dbVars, wireVars, loopVars, poolVars, histVars>>

\* Still too many: block on the oldest load and forget it.
WaitOldest(p) ==
  /\ pc = "oldest"
  /\ Oldest(p, pendingLoads) /\ p.n \in okays
  /\ pendingLoads' = pendingLoads \ {p}
  /\ okays' = okays \ {p.n}
  /\ pc' = "loop"
  /\ UNCHANGED <<dbVars, wireVars, completed, skipped, schemas, pendingDdl,
                 deferred, visit, ready, streamDone, cur, ticket, queue, held,
                 fails, histVars>>

-----------------------------------------------------------------------------
(* Done: everything outstanding is waited for, then the run is wound up *)

RecvDone ==
  /\ pc = "loop" /\ \A t \in Tables : phase[t] = "closed"
  /\ pc' = "drainAll"
  /\ UNCHANGED <<dbVars, wireVars, loopVars, poolVars, histVars>>

\* Variant: the deferred tables are dropped at Done.
DrainAllForgetting ==
  /\ pc = "drainAll"
  /\ TicketsOf(pendingDdl) \cup TicketsOf(pendingLoads) \subseteq okays
  /\ okays' = okays \ (TicketsOf(pendingDdl) \cup TicketsOf(pendingLoads))
  /\ pendingDdl' = {} /\ pendingLoads' = {}
  /\ ready' = {} /\ deferred' = {}
  /\ streamDone' = TRUE
  /\ pc' = "finalize"
  /\ UNCHANGED <<dbVars, wireVars, completed, skipped, schemas, visit, cur,
                 ticket, queue, held, fails, histVars>>

DrainAll ==
  /\ pc = "drainAll"
  /\ TicketsOf(pendingDdl) \cup TicketsOf(pendingLoads) \subseteq okays
  /\ okays' = okays \ (TicketsOf(pendingDdl) \cup TicketsOf(pendingLoads))
  /\ pendingDdl' = {} /\ pendingLoads' = {}
  /\ ready' = deferred /\ deferred' = {}
  /\ streamDone' = TRUE
  /\ pc' = "finalize"
  /\ UNCHANGED <<dbVars, wireVars, completed, skipped, schemas, visit, cur,
                 ticket, queue, held, fails, histVars>>

\* restore_preserved_rows: REPLACE INTO the table, then DROP the backup.
RestoreRows(t) ==
  /\ pc = "restore" /\ t \in backups /\ t \in exists
  /\ mine' = IF "local" \in saved[t] THEN mine \cup {t} ELSE mine
  /\ cur' = {t}
  /\ pc' = "dropBackup"
  /\ UNCHANGED <<exists, rows, backups, saved, ckptExists, ckpt, wireVars,
                 completed, skipped, schemas, pendingDdl, pendingLoads,
                 deferred, visit, ready, streamDone, poolVars, histVars>>

DropBackup(t) ==
  /\ pc = "dropBackup" /\ t \in cur
  /\ backups' = backups \ {t}
  /\ saved' = [saved EXCEPT ![t] = {}]
  /\ cur' = {}
  /\ pc' = "restore"
  /\ UNCHANGED <<exists, mine, rows, ckptExists, ckpt, wireVars, completed,
                 skipped, schemas, pendingDdl, pendingLoads, deferred, visit,
                 ready, streamDone, poolVars, histVars>>

\* Variant: after statements run before the backups are restored.
RestoreEndEarly ==
  /\ pc = "restore"
  /\ pc' = "after"
  /\ UNCHANGED <<dbVars, wireVars, loopVars, poolVars, histVars>>

RestoreEnd ==
  /\ pc = "restore" /\ backups = {}
  /\ pc' = "after"
  /\ UNCHANGED <<dbVars, wireVars, loopVars, poolVars, histVars>>

\* The set blocks and the after statements; what they do is not modelled.
RunSetsAndAfter ==
  /\ pc = "after"
  /\ pc' = "cleanup"
  /\ UNCHANGED <<dbVars, wireVars, loopVars, poolVars, histVars>>

CleanupCheckpoint ==
  /\ pc = "cleanup"
  /\ ckptExists' = FALSE /\ ckpt' = {}
  /\ pc' = "shutdown"
  /\ UNCHANGED <<exists, mine, rows, backups, saved, wireVars, loopVars,
                 poolVars, histVars>>

SendShutdown ==
  /\ pc = "shutdown"
  /\ pc' = "success"
  /\ UNCHANGED <<dbVars, wireVars, loopVars, poolVars, histVars>>

-----------------------------------------------------------------------------
(* A run ends in an error *)

EndInError ==
  /\ pc' = "closing"
  /\ completed' = {} /\ ResetLoop
  /\ UNCHANGED <<dbVars, wireVars, poolVars, hadLocal, discarded>>

DdlFailed(t) == \E d \in pendingDdl : d.table = t /\ d.n \in fails

\* What the code meets by itself: a failed result, a Data message without a
\* schema, a second INSERT of a checkpointed table, a restore into no table.
MeetsError ==
  \/ pc = "loop" /\ \E t \in Tables \ skipped :
       \/ DataDue(t) /\ (t \notin schemas \/ DdlFailed(t))
       \/ DoneDue(t) /\ DdlFailed(t)
  \/ pc = "drain" /\ \E p \in visit : Oldest(p, visit) /\ p.n \in fails
  \/ pc = "oldest" /\ \E p \in pendingLoads : Oldest(p, pendingLoads) /\ p.n \in fails
  \/ pc = "drainAll"
       /\ (TicketsOf(pendingDdl) \cup TicketsOf(pendingLoads)) \cap fails # {}
  \/ pc = "finalize" /\ ready \cap ckpt # {}
  \/ pc = "restore" /\ ~(backups \subseteq exists)

ErrorReturn ==
  /\ MeetsError
  /\ EndInError
  /\ UNCHANGED faults

\* Ctrl-C, the connection or the server failing, a failing statement.
Interrupt ==
  /\ pc \in Running /\ faults < MaxFaults
  /\ faults' = faults + 1
  /\ EndInError

\* LoaderPool::shutdown: the workers empty the queue before they exit.
PoolStopped ==
  /\ pc = "closing" /\ queue = {} /\ held = {}
  /\ pc' = "idle"
  /\ ResetPool
  /\ UNCHANGED <<dbVars, wireVars, loopVars, histVars>>

\* The process dies; with it the loop's state and the pool's.
Crash ==
  /\ pc \notin {"idle", "success"} /\ faults < MaxFaults
  /\ faults' = faults + 1
  /\ pc' = "idle"
  /\ completed' = {} /\ ResetLoop /\ ResetPool
  /\ UNCHANGED <<dbVars, wireVars, hadLocal, discarded>>

-----------------------------------------------------------------------------
Init ==
  /\ exists \in SUBSET Tables
  /\ mine \in SUBSET (exists \cap Preserved)
  /\ rows = [p \in Pieces |-> 0]
  /\ backups = {} /\ saved = [t \in Tables |-> {}]
  /\ ckptExists = FALSE /\ ckpt = {}
  /\ phase = [t \in Tables |-> FirstPhase(t)] /\ next = [t \in Tables |-> 0]
  /\ pc = "idle"
  /\ completed = {} /\ skipped = {} /\ schemas = {} /\ pendingDdl = {}
  /\ pendingLoads = {} /\ deferred = {} /\ visit = {} /\ ready = {}
  /\ streamDone = FALSE /\ cur = {}
  /\ ticket = 0 /\ queue = {} /\ held = {} /\ okays = {} /\ fails = {}
  /\ hadLocal = mine /\ discarded = {} /\ faults = 0

\* A finished run.
Finished == pc = "success" /\ UNCHANGED vars

Message(t) ==
  \/ SkipSchema(t) \/ SkipMessage(t) \/ AcceptSchema(t) \/ FinishBackup(t)
  \/ RecvData(t) \/ RecvTableDone(t)

WindUp(t) ==
  FinalizeTable(t) \/ RestoreRows(t) \/ DropBackup(t)

Loop ==
  \/ \E t \in Tables : Message(t) \/ WindUp(t)
  \/ FinalizeEnd
  \/ \E p \in pendingLoads : TryRecv(p) \/ WaitOldest(p)
  \/ DrainEnd
  \/ RecvDone \/ DrainAll \/ RestoreEnd \/ RunSetsAndAfter
  \/ CleanupCheckpoint \/ SendShutdown \/ ErrorReturn \/ PoolStopped

Clean == StartClean \/ CleanCheckpoint \/ \E t \in Tables : CleanBackup(t)

Next ==
  \/ \E mode \in {"plain", "resume"} : StartImport(mode)
  \/ Clean
  \/ Loop
  \/ \E i \in queue \cup held : Worker(i)
  \/ \E i \in held : WorkFails(i)
  \/ Interrupt \/ Crash \/ Finished

Spec == Init /\ [][Next]_vars

\* The loop and the workers run whenever they can, and a user whose import
\* did not succeed runs it again.
Fairness ==
  /\ WF_vars(Loop)
  /\ WF_vars(\E i \in queue \cup held : Worker(i))
  /\ WF_vars(CleanCheckpoint \/ \E t \in Tables : CleanBackup(t))
  /\ WF_vars(StartImport("plain") \/ StartImport("resume"))

FairSpec == Spec /\ Fairness

-----------------------------------------------------------------------------
(* Properties *)

DbType ==
  /\ exists \in SUBSET Tables
  /\ mine \in SUBSET Tables
  /\ rows \in [Pieces -> Nat]
  /\ backups \in SUBSET Tables
  /\ saved \in [Tables -> SUBSET {"local", "source"}]
  /\ ckptExists \in BOOLEAN
  /\ ckpt \in SUBSET Tables

StreamType ==
  /\ phase \in [Tables -> {"start", "open", "closed", "tail", "excluded", "exclOpen"}]
  /\ next \in [Tables -> Nat]
  /\ \A t \in Tables : next[t] <= Chunks[t]

LoopType ==
  /\ pc \in Running \cup {"idle", "clean", "fresh", "closing", "success"}
  /\ completed \in SUBSET Tables
  /\ skipped \in SUBSET Tables
  /\ schemas \in SUBSET Tables
  /\ pendingDdl \in SUBSET [table : Tables, n : Nat]
  /\ pendingLoads \in SUBSET [table : Tables, chunk : Nat, n : Nat]
  /\ deferred \in SUBSET Tables
  /\ visit \in SUBSET [table : Tables, chunk : Nat, n : Nat]
  /\ ready \in SUBSET Tables
  /\ streamDone \in BOOLEAN
  /\ cur \in SUBSET Tables

PoolType ==
  /\ ticket \in Nat
  /\ queue \in SUBSET Work
  /\ held \in SUBSET Work
  /\ okays \in SUBSET Nat
  /\ fails \in SUBSET Nat

HistType ==
  /\ hadLocal \in SUBSET Tables
  /\ discarded \in SUBSET Tables
  /\ faults \in Nat

\* The types of the variables; no table is read past its last chunk.
TypeOK == DbType /\ StreamType /\ LoopType /\ PoolType /\ HistType

\* The local table is what the source has: created (an aggregate table without
\* rows is not), and every chunk in it exactly once.
Complete(t) ==
  /\ t \in exists \/ t \in Silent
  /\ \A c \in 1 .. Chunks[t] : rows[<<t, c>>] = 1

\* A table the checkpoint lists is complete, at every moment and whatever
\* crashes: --resume will skip it without looking (protocol.rs:446).
CheckpointSound == \A t \in ckpt : Complete(t)

\* No worker holds a chunk of a table that does not exist or that a DDL item
\* may still drop: LOAD DATA only follows the CREATE TABLE of this run
\* (protocol.rs:532, loader.rs:29).
LoadsFindTheirTable ==
  \A i \in held : i.op = "load" =>
    /\ i.table \in exists
    /\ \A j \in queue \cup held : j.table = i.table => j.op = "load"

\* Rows a preserve rule matches are in the table or in its backup at every
\* moment, unless the user gave them up with --clean (checkpoint.rs:96).
PreservedRowsSafe ==
  \A t \in hadLocal \ discarded :
    t \in mine \/ (t \in backups /\ "local" \in saved[t])

\* The loop keeps at most MAX_PENDING_CHUNKS loads outstanding when it reads
\* a message, one more while it drains (protocol.rs:370, 555).
PendingBounded ==
  Cardinality(pendingLoads) <= IF pc = "loop" THEN MaxPending ELSE MaxPending + 1

\* After statements, and success, see the whole import: every table complete
\* and the preserved rows back in place (protocol.rs:759-783).
AfterSeesWholeImport ==
  pc \in {"after", "cleanup", "shutdown", "success"} =>
    /\ \A t \in Tables : Complete(t)
    /\ backups = {}
    /\ hadLocal \ discarded \subseteq mine

\* Faults being finitely many, running the import again succeeds in the end.
ResumingConverges == <>(pc = "success")

\* What the loop and the pool do together is an import that completes one
\* table at a time (module ResumableImport).
Status ==
  CASE pc = "shutdown" -> "wrapped"
    [] pc = "success" -> "succeeded"
    [] pc \in Running \ {"shutdown"} -> "running"
    [] OTHER -> "idle"

Abstract == INSTANCE ResumableImport WITH done <- ckpt, status <- Status

RefinesResumableImport == Abstract!Spec
=============================================================================
