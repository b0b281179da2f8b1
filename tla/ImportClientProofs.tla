------------------------- MODULE ImportClientProofs -------------------------
(***************************************************************************)
(* Types and the bound on the loads outstanding, and that the steps of the  *)
(* loader pool and of the message loop keep the inductive invariant of      *)
(* ImportClientInv.                                                         *)
(***************************************************************************)
EXTENDS ImportClientInv, FiniteSetTheorems, TLAPS

USE ClientAssumption

\* LOAD DATA adds to the one chunk it loads.
LEMMA LoadedRows ==
  ASSUME NEW r \in [Pieces -> Nat], NEW x
  PROVE  [r EXCEPT ![x] = @ + 1] \in [Pieces -> Nat]
<1>1. CASE x \in Pieces
  BY <1>1
<1>2. CASE x \notin Pieces
  BY <1>2
<1> QED
  BY <1>1, <1>2

\* A chunk of a table is a piece.
LEMMA PieceDef ==
  ASSUME NEW t \in Tables, NEW c \in 1 .. Chunks[t]
  PROVE  <<t, c>> \in Pieces
BY DEF Pieces

\* A fresh local database and a client that has not started have their types.
LEMMA TypeInit == Init => TypeOK
<1> SUFFICES ASSUME Init PROVE TypeOK
  OBVIOUS
<1>1. DbType
  BY DEF Init, DbType
<1>2. StreamType
  BY DEF Init, StreamType, FirstPhase
<1>3. LoopType
  BY DEF Init, LoopType
<1>4. PoolType
  BY DEF Init, PoolType
<1>5. HistType
  BY DEF Init, HistType
<1> QED
  BY <1>1, <1>2, <1>3, <1>4, <1>5 DEF TypeOK

\* Every step of the client, the pool and a crash keeps the types.
LEMMA TypeStep == TypeOK /\ [Next]_vars => TypeOK'
<1> SUFFICES ASSUME TypeOK, [Next]_vars PROVE TypeOK'
  OBVIOUS
<1> USE DEF TypeOK, DbType, StreamType, LoopType, PoolType, HistType, dbVars,
            wireVars, loopVars, poolVars, histVars, Running, Work
<1>1. ASSUME NEW mode \in {"plain", "resume"}, StartImport(mode) PROVE TypeOK'
  <2>1. DbType'
    BY <1>1 DEF StartImport, ResetLoop, ResetPool, CompletedTables, FirstPhase
  <2>2. StreamType'
    BY <1>1 DEF StartImport, ResetLoop, ResetPool, CompletedTables, FirstPhase
  <2>3. LoopType'
    BY <1>1 DEF StartImport, ResetLoop, ResetPool, CompletedTables, FirstPhase
  <2>4. PoolType'
    BY <1>1 DEF StartImport, ResetLoop, ResetPool, CompletedTables, FirstPhase
  <2>5. HistType'
    BY <1>1 DEF StartImport, ResetLoop, ResetPool, CompletedTables, FirstPhase
  <2> QED
    BY <2>1, <2>2, <2>3, <2>4, <2>5
<1>2. CASE StartClean
  BY <1>2 DEF StartClean
<1>3. CASE CleanCheckpoint
  BY <1>3 DEF CleanCheckpoint
<1>4. ASSUME NEW t \in Tables, CleanBackup(t) PROVE TypeOK'
  BY <1>4 DEF CleanBackup
<1>5. ASSUME NEW i \in queue, TakeWork(i) PROVE TypeOK'
  BY <1>5 DEF TakeWork
<1>6. ASSUME NEW i \in held, DropTable(i) PROVE TypeOK'
  BY <1>6 DEF DropTable, Drop
<1>7. ASSUME NEW i \in held, CreateTable(i) PROVE TypeOK'
  BY <1>7 DEF CreateTable, Create
<1>8. ASSUME NEW i \in held, LoadData(i) PROVE TypeOK'
  <2>1. DbType'
    BY <1>8, LoadedRows DEF LoadData, Load
  <2>2. StreamType'
    BY <1>8 DEF LoadData, Load
  <2>3. LoopType'
    BY <1>8 DEF LoadData, Load
  <2>4. PoolType'
    BY <1>8 DEF LoadData, Load
  <2>5. HistType'
    BY <1>8 DEF LoadData, Load
  <2> QED
    BY <2>1, <2>2, <2>3, <2>4, <2>5
<1>9. ASSUME NEW i \in held, WorkFails(i) PROVE TypeOK'
  <2>1. DbType'
    BY <1>9 DEF WorkFails, Load, Create, Drop
  <2>2. StreamType'
    BY <1>9 DEF WorkFails, Load, Create, Drop
  <2>3. LoopType'
    BY <1>9 DEF WorkFails, Load, Create, Drop
  <2>4. PoolType'
    BY <1>9 DEF WorkFails, Load, Create, Drop
  <2>5. HistType'
    BY <1>9 DEF WorkFails, Load, Create, Drop
  <2> QED
    BY <2>1, <2>2, <2>3, <2>4, <2>5
<1>10. ASSUME NEW t \in Tables, SkipSchema(t) PROVE TypeOK'
  BY <1>10 DEF SkipSchema, ReadSchema
<1>11. ASSUME NEW t \in Tables, SkipMessage(t) PROVE TypeOK'
  BY <1>11 DEF SkipMessage, ReadData, ReadTableDone, DataDue
<1>12. ASSUME NEW t \in Tables, AcceptSchema(t) PROVE TypeOK'
  <2>1. DbType'
    BY <1>12 DEF AcceptSchema, ReadSchema, SubmitDdl, MatchingRows
  <2>2. StreamType'
    BY <1>12 DEF AcceptSchema, ReadSchema, SubmitDdl, MatchingRows
  <2>3. LoopType'
    BY <1>12 DEF AcceptSchema, ReadSchema, SubmitDdl, MatchingRows
  <2>4. PoolType'
    <3>1. [op |-> "ddl", table |-> t, chunk |-> 0, n |-> ticket] \in Work
      OBVIOUS
    <3> HIDE DEF Work
    <3>2. queue' \in SUBSET Work
      BY <1>12, <3>1 DEF AcceptSchema, SubmitDdl
    <3>3. ticket' \in Nat /\ held' = held /\ okays' = okays /\ fails' = fails
      BY <1>12 DEF AcceptSchema, SubmitDdl
    <3> QED
      BY <3>2, <3>3
  <2>5. HistType'
    BY <1>12 DEF AcceptSchema, ReadSchema, SubmitDdl, MatchingRows
  <2> QED
    BY <2>1, <2>2, <2>3, <2>4, <2>5
<1>13. ASSUME NEW t \in Tables, FinishBackup(t) PROVE TypeOK'
  BY <1>13 DEF FinishBackup, SubmitDdl
<1>14. ASSUME NEW t \in Tables, RecvData(t) PROVE TypeOK'
  <2>1. DbType'
    BY <1>14 DEF RecvData, ReadData, DataDue, DdlOf
  <2>2. StreamType'
    BY <1>14 DEF RecvData, ReadData, DataDue, DdlOf
  <2>3. LoopType'
    BY <1>14 DEF RecvData, ReadData, DataDue, DdlOf
  <2>4. PoolType'
    <3>1. [op |-> "load", table |-> t, chunk |-> next[t] + 1, n |-> ticket] \in Work
      OBVIOUS
    <3> HIDE DEF Work
    <3>2. queue' \in SUBSET Work
      BY <1>14, <3>1 DEF RecvData
    <3>3. ticket' \in Nat /\ held' = held /\ okays' \subseteq okays /\ fails' = fails
      BY <1>14 DEF RecvData
    <3> QED
      BY <3>2, <3>3
  <2>5. HistType'
    BY <1>14 DEF RecvData, ReadData, DataDue, DdlOf
  <2> QED
    BY <2>1, <2>2, <2>3, <2>4, <2>5
<1>15. ASSUME NEW t \in Tables, RecvTableDone(t) PROVE TypeOK'
  BY <1>15 DEF RecvTableDone, ReadTableDone, DdlOf
<1>16. ASSUME NEW t \in Tables, FinalizeTable(t) PROVE TypeOK'
  BY <1>16 DEF FinalizeTable
<1>17. ASSUME NEW t \in Tables, RestoreRows(t) PROVE TypeOK'
  BY <1>17 DEF RestoreRows
<1>18. ASSUME NEW t \in Tables, DropBackup(t) PROVE TypeOK'
  BY <1>18 DEF DropBackup
<1>19. ASSUME NEW p \in pendingLoads, TryRecv(p) PROVE TypeOK'
  BY <1>19 DEF TryRecv
<1>20. ASSUME NEW p \in pendingLoads, WaitOldest(p) PROVE TypeOK'
  BY <1>20 DEF WaitOldest
<1>21. CASE DrainEnd
  BY <1>21 DEF DrainEnd, ReadyTables
<1>22. CASE FinalizeEnd
  BY <1>22 DEF FinalizeEnd
<1>23. CASE RecvDone
  BY <1>23 DEF RecvDone
<1>24. CASE DrainAll
  BY <1>24 DEF DrainAll
<1>25. CASE RestoreEnd
  BY <1>25 DEF RestoreEnd
<1>26. CASE RunSetsAndAfter
  BY <1>26 DEF RunSetsAndAfter
<1>27. CASE CleanupCheckpoint
  BY <1>27 DEF CleanupCheckpoint
<1>28. CASE SendShutdown
  BY <1>28 DEF SendShutdown
<1>29. CASE ErrorReturn
  BY <1>29 DEF ErrorReturn, EndInError, ResetLoop
<1>30. CASE Interrupt
  <2>1. DbType'
    BY <1>30 DEF Interrupt, EndInError, ResetLoop
  <2>2. StreamType'
    BY <1>30 DEF Interrupt, EndInError, ResetLoop
  <2>3. LoopType'
    BY <1>30 DEF Interrupt, EndInError, ResetLoop
  <2>4. PoolType'
    BY <1>30 DEF Interrupt, EndInError, ResetLoop
  <2>5. HistType'
    BY <1>30 DEF Interrupt, EndInError, ResetLoop
  <2> QED
    BY <2>1, <2>2, <2>3, <2>4, <2>5
<1>31. CASE PoolStopped
  BY <1>31 DEF PoolStopped, ResetPool
<1>32. CASE Crash
  <2>1. DbType'
    BY <1>32 DEF Crash, ResetLoop, ResetPool
  <2>2. StreamType'
    BY <1>32 DEF Crash, ResetLoop, ResetPool
  <2>3. LoopType'
    BY <1>32 DEF Crash, ResetLoop, ResetPool
  <2>4. PoolType'
    BY <1>32 DEF Crash, ResetLoop, ResetPool
  <2>5. HistType'
    BY <1>32 DEF Crash, ResetLoop, ResetPool
  <2> QED
    BY <2>1, <2>2, <2>3, <2>4, <2>5
<1>33. CASE Finished \/ UNCHANGED vars
  BY <1>33 DEF Finished, vars
<1> QED
  BY <1>1, <1>2, <1>3, <1>4, <1>5, <1>6, <1>7, <1>8, <1>9, <1>10, <1>11,
     <1>12, <1>13, <1>14, <1>15, <1>16, <1>17, <1>18, <1>19, <1>20, <1>21,
     <1>22, <1>23, <1>24, <1>25, <1>26, <1>27, <1>28, <1>29, <1>30, <1>31,
     <1>32, <1>33
  DEF Next, Clean, Loop, Message, WindUp, Worker, TakeWork, DropTable,
      CreateTable, LoadData

\* The types are kept by every step, whatever the client meets.
THEOREM TypeCorrect == Spec => []TypeOK
<1> QED
  BY TypeInit, TypeStep, PTL DEF Spec
-----------------------------------------------------------------------------
(* The loop's own bound on what it keeps outstanding *)

\* Only a drain, or what follows it, finds one load too many.
PendingInv ==
  /\ IsFiniteSet(pendingLoads)
  /\ Cardinality(pendingLoads) <= MaxPending + 1
  /\ pc \in {"loop", "backup"} => Cardinality(pendingLoads) <= MaxPending

\* Every step keeps the bound on the outstanding loads.
LEMMA PendingStep == PendingInv /\ [Next]_vars => PendingInv'
<1> SUFFICES ASSUME PendingInv, [Next]_vars PROVE PendingInv'
  OBVIOUS
<1> USE DEF PendingInv, dbVars, wireVars, loopVars, poolVars, histVars
<1>a. Cardinality(pendingLoads) \in Nat
  BY FS_CardinalityType
<1>b. IsFiniteSet({}) /\ Cardinality({}) = 0
  BY FS_EmptySet
<1>1. ASSUME pendingLoads' = {} PROVE PendingInv'
  BY <1>b, <1>1
<1>2. ASSUME pendingLoads' = pendingLoads,
             pc' \in {"loop", "backup"} => Cardinality(pendingLoads) <= MaxPending
      PROVE  PendingInv'
  BY <1>2
<1>3. ASSUME NEW p \in pendingLoads, pendingLoads' = pendingLoads \ {p}
      PROVE  PendingInv'
  <2>1. /\ IsFiniteSet(pendingLoads')
        /\ Cardinality(pendingLoads') = Cardinality(pendingLoads) - 1
    BY <1>3, FS_RemoveElement
  <2> QED
    BY <1>a, <2>1
<1>4. ASSUME NEW t \in Tables, RecvData(t) PROVE PendingInv'
  <2> DEFINE p0 == [table |-> t, chunk |-> next[t] + 1, n |-> ticket]
  <2>1. pc = "loop" /\ pendingLoads' = pendingLoads \cup {p0}
    BY <1>4 DEF RecvData
  <2>2. \/ pc' = "drain"
        \/ Cardinality(pendingLoads') <= MaxPending /\ pc' = pc
    BY <1>4 DEF RecvData
  <2> HIDE DEF p0
  <2>3. /\ IsFiniteSet(pendingLoads')
        /\ \/ Cardinality(pendingLoads') = Cardinality(pendingLoads)
           \/ Cardinality(pendingLoads') = Cardinality(pendingLoads) + 1
    BY <2>1, FS_AddElement
  <2> QED
    BY <1>a, <2>1, <2>2, <2>3
<1>5. ASSUME NEW p \in pendingLoads, TryRecv(p) \/ WaitOldest(p) PROVE PendingInv'
  BY <1>2, <1>3, <1>5 DEF TryRecv, WaitOldest
<1>6. CASE FinalizeEnd
  BY <1>2, <1>6, <1>a DEF FinalizeEnd
<1>7. CASE \/ \E mode \in {"plain", "resume"} : StartImport(mode)
           \/ DrainAll \/ ErrorReturn \/ Interrupt \/ Crash
  BY <1>1, <1>7 DEF StartImport, DrainAll, ErrorReturn, Interrupt, Crash,
     EndInError, ResetLoop
<1>8. CASE Clean \/ Finished \/ UNCHANGED vars
  BY <1>2, <1>8 DEF Clean, StartClean, CleanCheckpoint, CleanBackup, Finished, vars
<1>9. CASE \/ \E i \in queue \cup held : Worker(i)
           \/ \E i \in held : WorkFails(i)
  BY <1>2, <1>9 DEF Worker, TakeWork, DropTable, CreateTable, LoadData, WorkFails
<1>10. CASE \E t \in Tables : \/ SkipSchema(t) \/ SkipMessage(t) \/ AcceptSchema(t)
                              \/ FinishBackup(t) \/ RecvTableDone(t) \/ WindUp(t)
  BY <1>2, <1>10 DEF SkipSchema, SkipMessage, AcceptSchema, FinishBackup,
     RecvTableDone, WindUp, FinalizeTable, RestoreRows, DropBackup
<1>11. CASE \/ DrainEnd \/ RecvDone \/ RestoreEnd \/ RunSetsAndAfter
            \/ CleanupCheckpoint \/ SendShutdown \/ PoolStopped
  BY <1>2, <1>11 DEF DrainEnd, RecvDone, RestoreEnd, RunSetsAndAfter,
     CleanupCheckpoint, SendShutdown, PoolStopped
<1> QED
  BY <1>4, <1>5, <1>6, <1>7, <1>8, <1>9, <1>10, <1>11 DEF Next, Loop, Message

\* However the drains and the workers interleave, the loop never keeps more
\* than MAX_PENDING_CHUNKS loads outstanding when it reads a message.
THEOREM PendingIsBounded == Spec => []PendingBounded
<1>1. Init => PendingInv
  BY FS_EmptySet DEF Init, PendingInv
<1>2. PendingInv => PendingBounded
  BY DEF PendingInv, PendingBounded
<1> QED
  BY <1>1, <1>2, PendingStep, PTL DEF Spec

-----------------------------------------------------------------------------
(* The start of a run and the loader pool *)

\* A pending load is of a chunk that its table has.
LEMMA PendingLoad ==
  ASSUME IInv, pc \in Running, NEW p \in pendingLoads
  PROVE  p.table \in Tables /\ p.chunk \in 1 .. Chunks[p.table] /\ p.n \in Nat
<1>1. p.table \in Tables /\ p.chunk \in Nat /\ p.n \in Nat
  BY DEF IInv, TypeOK, LoopType
<1>2. p.chunk \in 1 .. next[p.table]
  BY DEF IInv, Core, LoadInv
<1>3. next[p.table] \in Nat /\ Chunks[p.table] \in Nat /\ next[p.table] <= Chunks[p.table]
  BY <1>1 DEF IInv, TypeOK, StreamType
<1> QED
  BY <1>1, <1>2, <1>3

\* LOAD DATA adds one to the chunk it loads.
LEMMA LoadedChunk ==
  ASSUME DbType, NEW t \in Tables, NEW c \in 1 .. Chunks[t],
         NEW u \in Tables, NEW e \in 1 .. Chunks[u]
  PROVE  [rows EXCEPT ![<<t, c>>] = @ + 1][<<u, e>>]
           = IF u = t /\ e = c THEN rows[<<u, e>>] + 1 ELSE rows[<<u, e>>]
<1>1. <<t, c>> \in Pieces /\ <<u, e>> \in Pieces
  BY PieceDef
<1>2. <<u, e>> = <<t, c>> <=> u = t /\ e = c
  OBVIOUS
<1> QED
  BY <1>1, <1>2 DEF DbType

\* In a run all work is accounted for: a table without an entry in the loop
\* has no work in the pool.
LEMMA Accounted ==
  ASSUME IInv, pc \in Running, NEW t,
         \A d \in pendingDdl : d.table # t, \A p \in pendingLoads : p.table # t
  PROVE  ~Busy(t)
<1> SUFFICES ASSUME NEW i \in Items, i.table = t PROVE FALSE
  BY DEF Busy
<1>1. CASE i.op = "load"
  <2>1. LoadOf(i) \in pendingLoads
    BY <1>1 DEF IInv, Core, LoadInv
  <2>2. LoadOf(i).table = t
    BY DEF LoadOf
  <2> QED
    BY <2>1, <2>2
<1>2. CASE i.op # "load"
  <2>1. DdlEntry(i) \in pendingDdl
    BY <1>2 DEF IInv, Core, DdlInv
  <2>2. DdlEntry(i).table = t
    BY DEF DdlEntry
  <2> QED
    BY <2>1, <2>2
<1> QED
  BY <1>1, <1>2

\* Once the DDL of an open table has reported, the table is there, holds what
\* has been read of it, and no DDL of it is left in the pool.
LEMMA TableThere ==
  ASSUME IInv, pc = "loop", NEW t \in Tables, t \notin skipped, t \notin Silent,
         phase[t] = "open", DdlReady(t)
  PROVE  Loaded(t) /\ \A k \in Items : k.table = t => k.op = "load"
<1> USE DEF IInv, Core, Running
<1>1. ASSUME NEW k \in Items, k.table = t, k.op # "load" PROVE FALSE
  <2>1. DdlEntry(k) \in pendingDdl
    BY <1>1 DEF DdlInv
  <2>2. k.n \in okays
    BY <1>1, <2>1 DEF DdlEntry, DdlReady
  <2> QED
    BY <1>1, <2>2 DEF TicketInv
<1>2. ASSUME DdlOf(t) = {} PROVE Loaded(t)
  <2>1. TableInv(t)
    BY DEF StreamInv
  <2>2. ~Opening(t)
    BY <1>2 DEF Opening
  <2> QED
    BY <2>1, <2>2 DEF TableInv
<1>3. ASSUME NEW d \in DdlOf(t) PROVE Loaded(t)
  <2>1. d \in pendingDdl /\ d.table = t /\ d.n \in okays /\ d.n \notin fails
    BY DEF DdlOf, DdlReady, TicketInv
  <2>2. \A i \in Items : DdlEntry(i) = d => i.op = "load"
    BY <1>1, <2>1 DEF DdlEntry
  <2>3. /\ t \in exists /\ next[t] = 0
        /\ \A c \in 1 .. Chunks[t] : rows[<<t, c>>] = 0
    BY <2>1, <2>2 DEF DdlInv
  <2> QED
    BY <2>3 DEF Loaded
<1> QED
  BY <1>1, <1>2, <1>3

\* A load that has reported has put its chunk into the table, once.
LEMMA Reported ==
  ASSUME IInv, pc \in Running, NEW p \in pendingLoads, p.n \in okays
  PROVE  rows[<<p.table, p.chunk>>] = 1 /\ \A i \in Items : i.n # p.n
<1>1. \A i \in Items : i.n # p.n
  BY DEF IInv, Core, TicketInv
<1>2. p.n \notin fails
  BY DEF IInv, Core, TicketInv
<1>3. \A i \in Items : LoadOf(i) # p
  BY <1>1 DEF LoadOf
<1> QED
  BY <1>1, <1>2, <1>3 DEF IInv, Core, LoadInv

\* A run starts on an idle pool; what it takes for completed is complete.
LEMMA StartImportKeeps ==
  ASSUME NEW mode \in {"plain", "resume"}, IInv, TypeOK', Doubled = {}, StartImport(mode)
  PROVE  Core'
<1> USE DEF IInv, Core, Running, dbVars, wireVars, loopVars, poolVars, histVars
<1>1. TicketInv'
  BY DEF StartImport, ResetLoop, ResetPool, CompletedTables, FirstPhase,
     HasPreviousState, TicketInv, Items, TypeOK, PoolType, LoopType, Work
<1>2. IdleInv'
  BY DEF StartImport, ResetLoop, ResetPool, CompletedTables, FirstPhase,
     HasPreviousState, IdleInv, Items
<1>3. CkptInv'
  BY DEF StartImport, ResetLoop, ResetPool, CompletedTables, FirstPhase,
     HasPreviousState, CkptInv, Complete, Busy, Items
<1>4. OrderInv'
  BY DEF StartImport, ResetLoop, ResetPool, CompletedTables, FirstPhase,
     HasPreviousState, OrderInv, Items
<1>5. DdlInv'
  BY DEF StartImport, ResetLoop, ResetPool, CompletedTables, FirstPhase,
     HasPreviousState, DdlInv, Items, DdlEntry, DdlOf
<1>6. LoadInv'
  BY DEF StartImport, ResetLoop, ResetPool, CompletedTables, FirstPhase,
     HasPreviousState, LoadInv, Items, LoadOf
<1>7. StreamInv'
  BY DEF StartImport, ResetLoop, ResetPool, CompletedTables, FirstPhase,
     HasPreviousState, StreamInv, TableInv, Loaded, Opening, DdlOf, CkptInv,
     TypeOK, DbType
<1>8. BackupInv'
  BY DEF StartImport, ResetLoop, ResetPool, CompletedTables, FirstPhase,
     HasPreviousState, BackupInv, Busy, Items, DdlOf
<1>9. DoneInv'
  BY DEF StartImport, ResetLoop, ResetPool, CompletedTables, FirstPhase,
     HasPreviousState, DoneInv, WindUpPcs, Complete
<1>10. PreserveInv'
  BY DEF StartImport, ResetLoop, ResetPool, CompletedTables, FirstPhase,
     HasPreviousState, PreserveInv, PreservedRowsSafe, Items
<1> QED
  BY <1>1, <1>2, <1>3, <1>4, <1>5, <1>6, <1>7, <1>8, <1>9, <1>10

\* --clean begins.
LEMMA StartCleanKeeps ==
  ASSUME IInv, TypeOK', Doubled = {}, StartClean
  PROVE  Core'
<1> USE DEF IInv, Core, Running, dbVars, wireVars, loopVars, poolVars, histVars
<1>1. TicketInv'
  BY DEF StartClean, TicketInv, Items, TypeOK, PoolType, LoopType, Work
<1>2. IdleInv'
  BY DEF StartClean, IdleInv, Items
<1>3. CkptInv'
  BY DEF StartClean, CkptInv, Complete, Busy, Items
<1>4. OrderInv'
  BY DEF StartClean, OrderInv, Items
<1>5. DdlInv'
  BY DEF StartClean, DdlInv, Items, DdlEntry, DdlOf
<1>6. LoadInv'
  BY DEF StartClean, LoadInv, Items, LoadOf
<1>7. StreamInv'
  BY DEF StartClean, StreamInv, TableInv, Loaded, Opening, DdlOf
<1>8. BackupInv'
  BY DEF StartClean, BackupInv, Busy, Items, DdlOf
<1>9. DoneInv'
  BY DEF StartClean, DoneInv, WindUpPcs, Complete
<1>10. PreserveInv'
  BY DEF StartClean, PreserveInv, PreservedRowsSafe, Items
<1> QED
  BY <1>1, <1>2, <1>3, <1>4, <1>5, <1>6, <1>7, <1>8, <1>9, <1>10

\* A backup dropped by --clean counts as given up.
LEMMA CleanBackupKeeps ==
  ASSUME NEW t \in Tables, IInv, TypeOK', Doubled = {}, CleanBackup(t)
  PROVE  Core'
<1> USE DEF IInv, Core, Running, dbVars, wireVars, loopVars, poolVars, histVars
<1>1. TicketInv'
  BY DEF CleanBackup, TicketInv, Items, TypeOK, PoolType, LoopType, Work
<1>2. IdleInv'
  BY DEF CleanBackup, IdleInv, Items
<1>3. CkptInv'
  BY DEF CleanBackup, CkptInv, Complete, Busy, Items
<1>4. OrderInv'
  BY DEF CleanBackup, OrderInv, Items
<1>5. DdlInv'
  BY DEF CleanBackup, DdlInv, Items, DdlEntry, DdlOf
<1>6. LoadInv'
  BY DEF CleanBackup, LoadInv, Items, LoadOf
<1>7. StreamInv'
  BY DEF CleanBackup, StreamInv, TableInv, Loaded, Opening, DdlOf
<1>8. BackupInv'
  BY DEF CleanBackup, BackupInv, Busy, Items, DdlOf
<1>9. DoneInv'
  BY DEF CleanBackup, DoneInv, WindUpPcs, Complete
<1>10. PreserveInv'
  BY DEF CleanBackup, PreserveInv, PreservedRowsSafe, Items
<1> QED
  BY <1>1, <1>2, <1>3, <1>4, <1>5, <1>6, <1>7, <1>8, <1>9, <1>10

\* Without a checkpoint nothing is promised.
LEMMA CleanCheckpointKeeps ==
  ASSUME IInv, TypeOK', Doubled = {}, CleanCheckpoint
  PROVE  Core'
<1> USE DEF IInv, Core, Running, dbVars, wireVars, loopVars, poolVars, histVars
<1>1. TicketInv'
  BY DEF CleanCheckpoint, TicketInv, Items, TypeOK, PoolType, LoopType, Work
<1>2. IdleInv'
  BY DEF CleanCheckpoint, IdleInv, Items
<1>3. CkptInv'
  BY DEF CleanCheckpoint, CkptInv, Complete, Busy, Items
<1>4. OrderInv'
  BY DEF CleanCheckpoint, OrderInv, Items
<1>5. DdlInv'
  BY DEF CleanCheckpoint, DdlInv, Items, DdlEntry, DdlOf
<1>6. LoadInv'
  BY DEF CleanCheckpoint, LoadInv, Items, LoadOf
<1>7. StreamInv'
  BY DEF CleanCheckpoint, StreamInv, TableInv, Loaded, Opening, DdlOf
<1>8. BackupInv'
  BY DEF CleanCheckpoint, BackupInv, Busy, Items, DdlOf
<1>9. DoneInv'
  BY DEF CleanCheckpoint, DoneInv, WindUpPcs, Complete
<1>10. PreserveInv'
  BY DEF CleanCheckpoint, PreserveInv, PreservedRowsSafe, Items
<1> QED
  BY <1>1, <1>2, <1>3, <1>4, <1>5, <1>6, <1>7, <1>8, <1>9, <1>10

\* An item moves from the queue to a worker.
LEMMA TakeWorkKeeps ==
  ASSUME NEW i \in queue, IInv, TypeOK', Doubled = {}, TakeWork(i)
  PROVE  Core'
<1> USE DEF IInv, Core, Running, dbVars, wireVars, loopVars, poolVars, histVars
<1>1. TicketInv'
  BY DEF TakeWork, TicketInv, Items, TypeOK, PoolType, LoopType, Work
<1>2. IdleInv'
  BY DEF TakeWork, IdleInv, Items
<1>3. CkptInv'
  BY DEF TakeWork, CkptInv, Complete, Busy, Items
<1>4. OrderInv'
  BY DEF TakeWork, OrderInv, Items
<1>5. DdlInv'
  BY DEF TakeWork, DdlInv, Items, DdlEntry, DdlOf
<1>6. LoadInv'
  BY DEF TakeWork, LoadInv, Items, LoadOf
<1>7. StreamInv'
  BY DEF TakeWork, StreamInv, TableInv, Loaded, Opening, DdlOf
<1>8. BackupInv'
  BY DEF TakeWork, BackupInv, Busy, Items, DdlOf
<1>9. DoneInv'
  BY DEF TakeWork, DoneInv, WindUpPcs, Complete
<1>10. PreserveInv'
  BY DEF TakeWork, PreserveInv, PreservedRowsSafe, Items
<1> QED
  BY <1>1, <1>2, <1>3, <1>4, <1>5, <1>6, <1>7, <1>8, <1>9, <1>10

\* The table dropped is neither checkpointed nor being loaded, and its
\* preserved rows are in the backup.
LEMMA DropTableKeeps ==
  ASSUME NEW i \in held, IInv, TypeOK', Doubled = {}, DropTable(i)
  PROVE  Core'
<1> USE DEF IInv, Core, Running, dbVars, wireVars, loopVars, poolVars, histVars
<1> DEFINE j == [i EXCEPT !.op = "create"]
<1>a. /\ i \in Items /\ i \in Work /\ i.op = "ddl"
      /\ i.table \in Tables /\ i.n \in Nat
  BY DEF DropTable, Items, TypeOK, PoolType, Work
<1>b. /\ j \in Work /\ j.op = "create" /\ j.table = i.table /\ j.n = i.n
      /\ DdlEntry(j) = DdlEntry(i)
  BY <1>a DEF Work, DdlEntry
<1>c. Items' = (Items \ {i}) \cup {j}
  BY DEF DropTable, Items, TicketInv
<1>d. /\ exists' = exists \ {i.table} /\ mine' = mine \ {i.table}
      /\ UNCHANGED <<backups, saved, ckptExists, ckpt, phase, next, pc, loopVars,
                     ticket, queue, okays, fails, histVars>>
  BY DEF DropTable, Drop
<1>e. ASSUME NEW u \in Tables, NEW c \in 1 .. Chunks[u]
      PROVE  rows'[<<u, c>>] = IF u = i.table THEN 0 ELSE rows[<<u, c>>]
  BY PieceDef DEF DropTable, Drop
<1>f. pc \in Running =>
        /\ DdlEntry(i) \in pendingDdl
        /\ i.table \notin skipped \cup completed \cup ckpt \cup Silent
        /\ \A p \in pendingLoads : p.table # i.table
  BY <1>a DEF DdlInv, DdlEntry
<1>g. \A k \in Items : k.table = i.table => k.op # "load"
  BY <1>a DEF OrderInv
<1> HIDE DEF j
<1>1. TicketInv'
  BY DEF DropTable, Drop, TicketInv, Items, TypeOK, PoolType, LoopType, Work
<1>2. IdleInv'
  BY DEF DropTable, Drop, IdleInv, Items
<1>3. CkptInv'
  <2>1. i.table \notin ckpt
    BY <1>a DEF CkptInv, Busy
  <2>2. ASSUME NEW t \in ckpt PROVE Complete(t)'
    BY <1>d, <1>e, <2>1, t \in Tables DEF CkptInv, Complete, TypeOK, DbType
  <2>3. ASSUME NEW t \in ckpt PROVE ~Busy(t)'
    BY <1>b, <1>c, <2>1 DEF CkptInv, Busy
  <2> QED
    BY <1>d, <2>2, <2>3 DEF CkptInv
<1>4. OrderInv'
  <2>1. ASSUME NEW k \in Items', k.op = "load"
        PROVE  k.table \in exists' /\ \A m \in Items' : m.table = k.table => m.op = "load"
    BY <1>a, <1>b, <1>c, <1>d, <1>g, <2>1 DEF OrderInv
  <2>2. ASSUME NEW k \in Items', k.op = "create", NEW c \in 1 .. Chunks[k.table]
        PROVE  rows'[<<k.table, c>>] = 0
    <3>1. k.table \in Tables
      BY <1>a, <1>b, <1>c DEF TypeOK, PoolType, Work, Items
    <3> QED
      BY <1>b, <1>c, <1>e, <2>2, <3>1 DEF OrderInv
  <2> QED
    BY <2>1, <2>2 DEF OrderInv
<1>5. DdlInv'
  <2> SUFFICES ASSUME pc \in Running PROVE DdlInv'
    BY <1>d DEF DdlInv
  <2>1. \A k \in Items' : k.op # "load" => DdlEntry(k) \in pendingDdl'
    BY <1>b, <1>c, <1>d, <1>f DEF DdlInv
  <2>2. ASSUME NEW d \in pendingDdl
        PROVE  \/ \E k \in Items' : k.op # "load" /\ DdlEntry(k) = d
               \/ d.n \in fails
               \/ d.n \in okays /\ d.table \in exists'
                    /\ \A c \in 1 .. Chunks[d.table] : rows'[<<d.table, c>>] = 0
    <3>1. CASE d = DdlEntry(i)
      BY <1>b, <1>c, <3>1
    <3>2. CASE d # DdlEntry(i)
      <4>1. d.table # i.table /\ d.table \in Tables
        BY <1>f, <3>2 DEF DdlInv, DdlEntry, TypeOK, LoopType
      <4> QED
        BY <1>c, <1>d, <1>e, <3>2, <4>1 DEF DdlInv
    <3> QED
      BY <3>1, <3>2
  <2> QED
    BY <1>d, <2>1, <2>2 DEF DdlInv
<1>6. LoadInv'
  <2> SUFFICES ASSUME pc \in Running PROVE LoadInv'
    BY <1>d DEF LoadInv
  <2>1. \A k \in Items' : k.op = "load" => LoadOf(k) \in pendingLoads'
    BY <1>b, <1>c, <1>d DEF LoadInv
  <2>2. ASSUME NEW p \in pendingLoads
        PROVE  \/ /\ \E k \in Items' : k.op = "load" /\ LoadOf(k) = p
                  /\ rows'[<<p.table, p.chunk>>] = 0
               \/ p.n \in okays /\ rows'[<<p.table, p.chunk>>] = 1
               \/ p.n \in fails
    <3>1. p.table \in Tables /\ p.chunk \in 1 .. Chunks[p.table]
      BY PendingLoad
    <3>2. rows'[<<p.table, p.chunk>>] = rows[<<p.table, p.chunk>>]
      BY <1>e, <1>f, <3>1
    <3> QED
      BY <1>a, <1>c, <3>2 DEF LoadInv
  <2> QED
    BY <1>d, <2>1, <2>2 DEF LoadInv
<1>7. StreamInv'
  <2>1. ASSUME NEW t \in Tables, Loaded(t), t # i.table PROVE Loaded(t)'
    BY <1>d, <1>e, <2>1 DEF Loaded
  <2>2. pc \in Running => Opening(i.table)
    BY <1>f DEF Opening, DdlOf, DdlEntry
  <2> QED
    BY <1>d, <2>1, <2>2 DEF StreamInv, TableInv, Opening, DdlOf
<1>8. BackupInv'
  <2>1. \A t \in cur : pc = "backup" => t # i.table
    BY <1>a DEF BackupInv, Busy
  <2>2. pc # "dropBackup"
    BY <1>f DEF DoneInv, WindUpPcs
  <2> QED
    BY <1>b, <1>c, <1>d, <2>1, <2>2 DEF BackupInv, Busy, DdlOf
<1>9. DoneInv'
  BY DEF DropTable, Drop, DoneInv, WindUpPcs, Complete, IdleInv, Items
<1>10. PreserveInv'
  <2>1. \A k \in Items' : k.op = "ddl" => k \in Items
    BY <1>b, <1>c
  <2>2. i.table \in hadLocal \ discarded =>
          i.table \in backups /\ "local" \in saved[i.table]
    BY <1>a DEF PreserveInv
  <2>3. PreservedRowsSafe'
    BY <1>d, <2>2 DEF PreserveInv, PreservedRowsSafe
  <2> QED
    BY <1>d, <2>1, <2>3 DEF PreserveInv
<1> QED
  BY <1>1, <1>2, <1>3, <1>4, <1>5, <1>6, <1>7, <1>8, <1>9, <1>10

\* The table is created empty.
LEMMA CreateTableKeeps ==
  ASSUME NEW i \in held, IInv, TypeOK', Doubled = {}, CreateTable(i)
  PROVE  Core'
<1> USE DEF IInv, Core, Running, dbVars, wireVars, loopVars, poolVars, histVars
<1>a. /\ i \in Items /\ i.op = "create" /\ i.table \in Tables
      /\ Items' = Items \ {i}
  BY DEF CreateTable, Items, TicketInv, TypeOK, PoolType, Work
<1>b. /\ exists' = exists \cup {i.table} /\ okays' = okays \cup {i.n}
      /\ UNCHANGED <<mine, rows, backups, saved, ckptExists, ckpt, phase, next, pc,
                     loopVars, ticket, queue, fails, histVars>>
  BY DEF CreateTable, Create
<1>1. TicketInv'
  BY DEF CreateTable, Create, TicketInv, Items, TypeOK, PoolType, LoopType,
     Work, IdleInv
<1>2. IdleInv'
  BY DEF CreateTable, Create, IdleInv, Items
<1>3. CkptInv'
  BY DEF CreateTable, Create, CkptInv, Complete, Busy, Items
<1>4. OrderInv'
  BY DEF CreateTable, Create, OrderInv, Items
<1>5. DdlInv'
  <2> SUFFICES ASSUME pc \in Running PROVE DdlInv'
    BY <1>b DEF DdlInv
  <2>1. ASSUME NEW d \in pendingDdl
        PROVE  \/ \E k \in Items' : k.op # "load" /\ DdlEntry(k) = d
               \/ d.n \in fails
               \/ d.n \in okays' /\ d.table \in exists'
                    /\ \A c \in 1 .. Chunks[d.table] : rows[<<d.table, c>>] = 0
    <3>1. CASE d = DdlEntry(i)
      BY <1>a, <1>b, <3>1 DEF DdlEntry, OrderInv
    <3>2. CASE d # DdlEntry(i)
      BY <1>a, <1>b, <3>2 DEF DdlInv
    <3> QED
      BY <3>1, <3>2
  <2> QED
    BY <1>a, <1>b, <2>1 DEF DdlInv
<1>6. LoadInv'
  BY DEF CreateTable, Create, LoadInv, Items, LoadOf
<1>7. StreamInv'
  BY DEF CreateTable, Create, StreamInv, TableInv, Loaded, Opening, DdlOf
<1>8. BackupInv'
  BY DEF CreateTable, Create, BackupInv, Busy, Items, DdlOf
<1>9. DoneInv'
  BY DEF CreateTable, Create, DoneInv, WindUpPcs, Complete
<1>10. PreserveInv'
  BY DEF CreateTable, Create, PreserveInv, PreservedRowsSafe, Items
<1> QED
  BY <1>1, <1>2, <1>3, <1>4, <1>5, <1>6, <1>7, <1>8, <1>9, <1>10

\* A chunk is loaded into a table that exists, and for the first time.
LEMMA LoadDataKeeps ==
  ASSUME NEW i \in held, IInv, TypeOK', Doubled = {}, LoadData(i)
  PROVE  Core'
<1> USE DEF IInv, Core, Running, dbVars, wireVars, loopVars, poolVars, histVars
<1>a. /\ i \in Items /\ i.op = "load" /\ i.table \in Tables /\ i.n \in Nat
      /\ Items' = Items \ {i}
  BY DEF LoadData, Items, TicketInv, TypeOK, PoolType, Work
<1>b. i.table \in exists /\ \A k \in Items : k.table = i.table => k.op = "load"
  BY <1>a DEF OrderInv
<1>c. /\ okays' = okays \cup {i.n}
      /\ rows' = [rows EXCEPT ![<<i.table, i.chunk>>] = @ + 1]
      /\ UNCHANGED <<exists, mine, backups, saved, ckptExists, ckpt, phase, next,
                     pc, loopVars, ticket, queue, fails, histVars>>
  BY <1>b DEF LoadData, Load
<1>d. pc \in Running =>
        /\ LoadOf(i) \in pendingLoads
        /\ i.chunk \in 1 .. Chunks[i.table]
        /\ \A u \in Tables : \A e \in 1 .. Chunks[u] :
             rows'[<<u, e>>] = IF u = i.table /\ e = i.chunk
                               THEN rows[<<u, e>>] + 1 ELSE rows[<<u, e>>]
  <2> SUFFICES ASSUME pc \in Running
               PROVE  /\ LoadOf(i) \in pendingLoads
                      /\ i.chunk \in 1 .. Chunks[i.table]
                      /\ \A u \in Tables : \A e \in 1 .. Chunks[u] :
                           rows'[<<u, e>>] = IF u = i.table /\ e = i.chunk
                                             THEN rows[<<u, e>>] + 1 ELSE rows[<<u, e>>]
    OBVIOUS
  <2>1. LoadOf(i) \in pendingLoads
    BY <1>a DEF LoadInv
  <2>2. i.chunk \in 1 .. Chunks[i.table]
    BY <2>1, PendingLoad DEF LoadOf
  <2> QED
    BY <1>a, <1>c, <2>1, <2>2, LoadedChunk DEF TypeOK
<1>e. \A u \in Tables : \A e \in 1 .. Chunks[u] :
        u # i.table => rows'[<<u, e>>] = rows[<<u, e>>]
  BY <1>c, PieceDef DEF TypeOK, DbType
<1>1. TicketInv'
  BY DEF LoadData, Load, TicketInv, Items, TypeOK, PoolType, LoopType, Work
<1>2. IdleInv'
  BY DEF LoadData, Load, IdleInv, Items
<1>3. CkptInv'
  BY DEF LoadData, Load, CkptInv, Complete, Busy, Items
<1>4. OrderInv'
  <2>1. ASSUME NEW k \in Items', k.op = "load"
        PROVE  k.table \in exists' /\ \A m \in Items' : m.table = k.table => m.op = "load"
    BY <1>a, <1>c, <2>1 DEF OrderInv
  <2>2. ASSUME NEW k \in Items', k.op = "create", NEW c \in 1 .. Chunks[k.table]
        PROVE  rows'[<<k.table, c>>] = 0
    <3>1. k.table \in Tables
      BY <1>a DEF TypeOK, PoolType, Work, Items
    <3> QED
      BY <1>a, <1>b, <1>e, <2>2, <3>1 DEF OrderInv
  <2> QED
    BY <2>1, <2>2 DEF OrderInv
<1>5. DdlInv'
  <2> SUFFICES ASSUME pc \in Running PROVE DdlInv'
    BY <1>c DEF DdlInv
  <2>1. ASSUME NEW d \in pendingDdl
        PROVE  \/ \E k \in Items' : k.op # "load" /\ DdlEntry(k) = d
               \/ d.n \in fails
               \/ d.n \in okays' /\ d.table \in exists'
                    /\ \A c \in 1 .. Chunks[d.table] : rows'[<<d.table, c>>] = 0
    <3>1. d.table # i.table /\ d.table \in Tables
      BY <1>d DEF DdlInv, LoadOf, TypeOK, LoopType
    <3> QED
      BY <1>a, <1>c, <1>e, <3>1 DEF DdlInv
  <2> QED
    BY <1>a, <1>c, <2>1 DEF DdlInv
<1>6. LoadInv'
  <2> SUFFICES ASSUME pc \in Running PROVE LoadInv'
    BY <1>c DEF LoadInv
  <2>1. ASSUME NEW p \in pendingLoads
        PROVE  \/ /\ \E k \in Items' : k.op = "load" /\ LoadOf(k) = p
                  /\ rows'[<<p.table, p.chunk>>] = 0
               \/ p.n \in okays' /\ rows'[<<p.table, p.chunk>>] = 1
               \/ p.n \in fails
    <3>1. p.table \in Tables /\ p.chunk \in 1 .. Chunks[p.table]
      BY PendingLoad
    <3>2. CASE p = LoadOf(i)
      <4>1. rows[<<p.table, p.chunk>>] = 0
        BY <1>a, <3>2 DEF LoadInv, LoadOf, TicketInv
      <4> QED
        BY <1>c, <1>d, <3>1, <3>2, <4>1 DEF LoadOf
    <3>3. CASE p # LoadOf(i)
      <4>1. ~(p.table = i.table /\ p.chunk = i.chunk)
        BY <1>d, <3>3 DEF LoadInv, LoadOf
      <4>2. rows'[<<p.table, p.chunk>>] = rows[<<p.table, p.chunk>>]
        BY <1>d, <3>1, <4>1
      <4> QED
        BY <1>a, <1>c, <3>3, <4>2 DEF LoadInv
    <3> QED
      BY <3>2, <3>3
  <2> QED
    BY <1>a, <1>c, <2>1 DEF LoadInv
<1>7. StreamInv'
  <2>1. ASSUME pc \in Running, NEW t \in Tables, Loaded(t) PROVE Loaded(t)'
    <3>1. t \in exists' /\ next' = next /\ pendingLoads' = pendingLoads
      BY <1>c, <2>1 DEF Loaded
    <3>2. ASSUME NEW c \in 1 .. Chunks[t], c > next[t] PROVE rows'[<<t, c>>] = 0
      <4>1. i.chunk \in 1 .. next[i.table]
        BY <1>d, <2>1 DEF LoadInv, LoadOf
      <4>2. next[t] \in Nat
        BY DEF TypeOK, StreamType
      <4>3. ~(t = i.table /\ c = i.chunk)
        BY <3>2, <4>1, <4>2
      <4> QED
        BY <1>d, <2>1, <3>2, <4>3 DEF Loaded
    <3>3. ASSUME NEW c \in 1 .. Chunks[t], c <= next[t]
          PROVE  \/ rows'[<<t, c>>] = 1
                 \/ \E p \in pendingLoads : p.table = t /\ p.chunk = c
      <4>1. CASE t = i.table /\ c = i.chunk
        BY <1>d, <2>1, <4>1 DEF LoadOf
      <4>2. CASE ~(t = i.table /\ c = i.chunk)
        BY <1>d, <2>1, <3>3, <4>2 DEF Loaded
      <4> QED
        BY <4>1, <4>2
    <3> QED
      BY <3>1, <3>2, <3>3 DEF Loaded
  <2> QED
    BY <1>c, <2>1 DEF StreamInv, TableInv, Opening, DdlOf
<1>8. BackupInv'
  BY DEF LoadData, Load, BackupInv, Busy, Items, DdlOf
<1>9. DoneInv'
  BY DEF LoadData, Load, DoneInv, WindUpPcs, Complete, IdleInv, Items
<1>10. PreserveInv'
  BY DEF LoadData, Load, PreserveInv, PreservedRowsSafe, Items
<1> QED
  BY <1>1, <1>2, <1>3, <1>4, <1>5, <1>6, <1>7, <1>8, <1>9, <1>10

\* A failing statement may have taken effect; its ticket says it failed.
LEMMA WorkFailsKeeps ==
  ASSUME NEW i \in held, IInv, TypeOK', Doubled = {}, WorkFails(i)
  PROVE  Core'
<1> USE DEF IInv, Core, Running, dbVars, wireVars, loopVars, poolVars, histVars
<1>a. /\ i \in Items /\ i \in Work /\ i.table \in Tables /\ i.n \in Nat
      /\ Items' = Items \ {i}
  BY DEF WorkFails, Items, TicketInv, TypeOK, PoolType, Work
<1>b. /\ fails' = fails \cup {i.n}
      /\ UNCHANGED <<backups, saved, ckptExists, ckpt, phase, next, pc, loopVars,
                     ticket, queue, okays, hadLocal, discarded>>
  BY DEF WorkFails
<1>c. ASSUME NEW u \in Tables, u # i.table, NEW e \in 1 .. Chunks[u]
      PROVE  rows'[<<u, e>>] = rows[<<u, e>>]
  BY <1>a, <1>c, PieceDef DEF WorkFails, Drop, Create, Load, TypeOK, DbType
<1>d. /\ \A u \in Tables : u # i.table => (u \in exists' <=> u \in exists)
      /\ \A u \in Tables : u # i.table => (u \in mine' <=> u \in mine)
      /\ i.op = "load" => exists' = exists /\ mine' = mine
      /\ i.op # "ddl" => mine' = mine
  BY DEF WorkFails, Drop, Create, Load
<1>e. i.op = "load" => \A k \in Items : k.table = i.table => k.op = "load"
  BY <1>a DEF OrderInv
<1>f. pc \in Running /\ i.op # "load" =>
        /\ DdlEntry(i) \in pendingDdl
        /\ i.table \notin skipped \cup completed \cup ckpt \cup Silent
        /\ \A p \in pendingLoads : p.table # i.table
  BY <1>a DEF DdlInv, DdlEntry
<1>g. ASSUME pc \in Running, i.op = "load"
      PROVE  /\ LoadOf(i) \in pendingLoads
             /\ i.chunk \in 1 .. Chunks[i.table]
             /\ i.chunk \in 1 .. next[i.table]
  <2>1. LoadOf(i) \in pendingLoads
    BY <1>a, <1>g DEF LoadInv
  <2>2. i.chunk \in 1 .. Chunks[i.table]
    BY <1>g, <2>1, PendingLoad DEF LoadOf
  <2>3. i.chunk \in 1 .. next[i.table]
    BY <1>g, <2>1 DEF LoadInv, LoadOf
  <2> QED
    BY <2>1, <2>2, <2>3
<1>h. ASSUME pc \in Running, i.op = "load", NEW u \in Tables,
             NEW e \in 1 .. Chunks[u], ~(u = i.table /\ e = i.chunk)
      PROVE  rows'[<<u, e>>] = rows[<<u, e>>]
  <2>1. CASE UNCHANGED rows
    BY <2>1
  <2>2. CASE rows' = [rows EXCEPT ![<<i.table, i.chunk>>] = @ + 1]
    BY <1>a, <1>g, <1>h, <2>2, LoadedChunk DEF TypeOK
  <2> QED
    BY <1>h, <2>1, <2>2 DEF WorkFails, Load
<1>1. TicketInv'
  BY <1>a, <1>b DEF TicketInv, WorkFails, Items
<1>2. IdleInv'
  BY DEF WorkFails, Drop, Create, Load, IdleInv, Items
<1>3. CkptInv'
  <2>1. i.table \notin ckpt
    BY <1>a DEF CkptInv, Busy
  <2>2. ASSUME NEW t \in ckpt PROVE Complete(t)'
    BY <1>b, <1>c, <1>d, <2>1, t \in Tables DEF CkptInv, Complete, TypeOK, DbType
  <2>3. ASSUME NEW t \in ckpt PROVE ~Busy(t)'
    BY <1>a DEF CkptInv, Busy
  <2> QED
    BY <1>b, <2>2, <2>3 DEF CkptInv
<1>4. OrderInv'
  <2>1. ASSUME NEW k \in Items', k.op = "load"
        PROVE  k.table \in exists' /\ \A m \in Items' : m.table = k.table => m.op = "load"
    BY <1>a, <1>d, <2>1, k.table \in Tables DEF OrderInv, TypeOK, PoolType, Work, Items
  <2>2. ASSUME NEW k \in Items', k.op = "create", NEW c \in 1 .. Chunks[k.table]
        PROVE  rows'[<<k.table, c>>] = 0
    <3>1. k.table \in Tables /\ k \in Items
      BY <1>a DEF TypeOK, PoolType, Work, Items
    <3>2. CASE k.table # i.table
      BY <1>a, <1>c, <2>2, <3>1, <3>2 DEF OrderInv
    <3>3. CASE k.table = i.table
      <4>1. i.op # "load"
        BY <1>e, <2>2, <3>1, <3>3
      <4>2. <<k.table, c>> \in Pieces
        BY <3>1, PieceDef
      <4> QED
        BY <2>2, <3>1, <3>3, <4>1, <4>2 DEF OrderInv, WorkFails, Drop, Create
    <3> QED
      BY <3>2, <3>3
  <2> QED
    BY <2>1, <2>2 DEF OrderInv
<1>5. DdlInv'
  <2> SUFFICES ASSUME pc \in Running PROVE DdlInv'
    BY <1>b DEF DdlInv
  <2>1. ASSUME NEW d \in pendingDdl
        PROVE  \/ \E k \in Items' : k.op # "load" /\ DdlEntry(k) = d
               \/ d.n \in fails'
               \/ d.n \in okays /\ d.table \in exists'
                    /\ \A c \in 1 .. Chunks[d.table] : rows'[<<d.table, c>>] = 0
    <3>1. d.table \in Tables
      BY DEF TypeOK, LoopType
    <3>2. CASE i.op # "load" /\ d = DdlEntry(i)
      BY <1>b, <3>2 DEF DdlEntry
    <3>3. CASE i.op # "load" /\ d # DdlEntry(i)
      <4>1. d.table # i.table
        BY <1>f, <3>3 DEF DdlInv, DdlEntry
      <4> QED
        BY <1>a, <1>b, <1>c, <1>d, <3>1, <3>3, <4>1 DEF DdlInv
    <3>4. CASE i.op = "load"
      <4>1. d.table # i.table
        BY <1>g, <3>4 DEF DdlInv, LoadOf
      <4> QED
        BY <1>a, <1>b, <1>c, <1>d, <3>1, <3>4, <4>1 DEF DdlInv
    <3> QED
      BY <3>2, <3>3, <3>4
  <2> QED
    BY <1>a, <1>b, <2>1 DEF DdlInv
<1>6. LoadInv'
  <2> SUFFICES ASSUME pc \in Running PROVE LoadInv'
    BY <1>b DEF LoadInv
  <2>1. ASSUME NEW p \in pendingLoads
        PROVE  \/ /\ \E k \in Items' : k.op = "load" /\ LoadOf(k) = p
                  /\ rows'[<<p.table, p.chunk>>] = 0
               \/ p.n \in okays /\ rows'[<<p.table, p.chunk>>] = 1
               \/ p.n \in fails'
    <3>1. p.table \in Tables /\ p.chunk \in 1 .. Chunks[p.table]
      BY PendingLoad
    <3>2. CASE i.op = "load" /\ p = LoadOf(i)
      BY <1>b, <3>2 DEF LoadOf
    <3>3. CASE ~(i.op = "load" /\ p = LoadOf(i))
      <4>1. rows'[<<p.table, p.chunk>>] = rows[<<p.table, p.chunk>>]
        <5>1. CASE i.op # "load"
          BY <1>c, <1>f, <3>1, <5>1
        <5>2. CASE i.op = "load"
          <6>1. ~(p.table = i.table /\ p.chunk = i.chunk)
            BY <1>g, <3>3, <5>2 DEF LoadInv, LoadOf
          <6> QED
            BY <1>h, <3>1, <5>2, <6>1
        <5> QED
          BY <5>1, <5>2
      <4> QED
        BY <1>a, <1>b, <3>3, <4>1 DEF LoadInv
    <3> QED
      BY <3>2, <3>3
  <2> QED
    BY <1>a, <1>b, <2>1 DEF LoadInv
<1>7. StreamInv'
  <2>1. ASSUME pc \in Running, NEW t \in Tables, Loaded(t), ~Opening(t)
        PROVE  Loaded(t)'
    <3>1. i.op # "load" => t # i.table
      BY <1>f, <2>1 DEF Opening, DdlOf, DdlEntry
    <3>2. t \in exists' /\ next' = next /\ pendingLoads' = pendingLoads
      BY <1>b, <1>d, <2>1, <3>1 DEF Loaded
    <3>3. ASSUME NEW c \in 1 .. Chunks[t], ~(i.op = "load" /\ t = i.table /\ c = i.chunk)
          PROVE  rows'[<<t, c>>] = rows[<<t, c>>]
      BY <1>c, <1>h, <2>1, <3>1, <3>3
    <3>4. ASSUME NEW c \in 1 .. Chunks[t], c > next[t] PROVE rows'[<<t, c>>] = 0
      <4>1. next[t] \in Nat
        BY DEF TypeOK, StreamType
      <4>2. ~(i.op = "load" /\ t = i.table /\ c = i.chunk)
        BY <1>g, <2>1, <3>4, <4>1
      <4> QED
        BY <2>1, <3>3, <3>4, <4>2 DEF Loaded
    <3>5. ASSUME NEW c \in 1 .. Chunks[t], c <= next[t]
          PROVE  \/ rows'[<<t, c>>] = 1
                 \/ \E p \in pendingLoads : p.table = t /\ p.chunk = c
      <4>1. CASE i.op = "load" /\ t = i.table /\ c = i.chunk
        BY <1>g, <2>1, <4>1 DEF LoadOf
      <4>2. CASE ~(i.op = "load" /\ t = i.table /\ c = i.chunk)
        BY <2>1, <3>3, <3>5, <4>2 DEF Loaded
      <4> QED
        BY <4>1, <4>2
    <3> QED
      BY <3>2, <3>4, <3>5 DEF Loaded
  <2> QED
    BY <1>b, <2>1 DEF StreamInv, TableInv, Opening, DdlOf
<1>8. BackupInv'
  <2>1. \A t \in cur : pc = "backup" => t # i.table
    BY <1>a DEF BackupInv, Busy
  <2>2. pc = "dropBackup" => Items = {}
    BY DEF DoneInv, WindUpPcs, DdlInv, LoadInv
  <2> QED
    BY <1>a, <1>b, <2>1, <2>2 DEF BackupInv, Busy, DdlOf
<1>9. DoneInv'
  BY DEF WorkFails, Drop, Create, Load, DoneInv, WindUpPcs, Complete, IdleInv,
     Items
<1>10. PreserveInv'
  BY DEF WorkFails, Drop, Create, Load, PreserveInv, PreservedRowsSafe, Items
<1> QED
  BY <1>1, <1>2, <1>3, <1>4, <1>5, <1>6, <1>7, <1>8, <1>9, <1>10

-----------------------------------------------------------------------------
(* The message loop: Schema, Data and TableDone *)

\* A table is only skipped if the checkpoint listed it.
LEMMA SkipSchemaKeeps ==
  ASSUME NEW t \in Tables, IInv, TypeOK', Doubled = {}, SkipSchema(t)
  PROVE  Core'
<1> USE DEF IInv, Core, Running, dbVars, wireVars, loopVars, poolVars, histVars
<1>a. /\ phase[t] = "start" /\ phase' = [phase EXCEPT ![t] = "open"]
      /\ t \notin Silent /\ t \in completed
  <2>1. TableInv(t)
    BY DEF SkipSchema, StreamInv
  <2> QED
    BY <2>1 DEF SkipSchema, SchemaDue, ReadSchema, TableInv, TypeOK, StreamType
<1>b. /\ pc = "loop" /\ skipped' = skipped \cup {t} /\ next' = next
      /\ UNCHANGED <<dbVars, pc, completed, schemas, pendingDdl, pendingLoads,
                     deferred, visit, ready, streamDone, cur, poolVars, histVars>>
  BY DEF SkipSchema, ReadSchema
<1>1. TicketInv'
  BY DEF SkipSchema, SchemaDue, ReadSchema, TicketInv, Items, TypeOK,
     PoolType, LoopType, Work
<1>2. IdleInv'
  BY DEF SkipSchema, SchemaDue, ReadSchema, IdleInv, Items
<1>3. CkptInv'
  BY DEF SkipSchema, SchemaDue, ReadSchema, CkptInv, Complete, Busy, Items
<1>4. OrderInv'
  BY DEF SkipSchema, SchemaDue, ReadSchema, OrderInv, Items
<1>5. DdlInv'
  BY DEF SkipSchema, SchemaDue, ReadSchema, DdlInv, Items, DdlEntry, DdlOf
<1>6. LoadInv'
  BY DEF SkipSchema, SchemaDue, ReadSchema, LoadInv, Items, LoadOf
<1>7. StreamInv'
  <2>1. TableInv(t)'
    BY <1>a, <1>b, TableInv(t) DEF StreamInv, TableInv, TypeOK, StreamType
  <2>2. ASSUME NEW u \in Tables, u # t PROVE TableInv(u)'
    BY <1>a, <1>b, <2>2, TableInv(u) DEF StreamInv, TableInv, Loaded, Opening, DdlOf,
       TypeOK, StreamType
  <2> QED
    BY <2>1, <2>2 DEF StreamInv
<1>8. BackupInv'
  BY DEF SkipSchema, SchemaDue, ReadSchema, BackupInv, Busy, Items, DdlOf
<1>9. DoneInv'
  BY DEF SkipSchema, SchemaDue, ReadSchema, DoneInv, WindUpPcs, Complete
<1>10. PreserveInv'
  BY DEF SkipSchema, SchemaDue, ReadSchema, PreserveInv, PreservedRowsSafe,
     Items
<1> QED
  BY <1>1, <1>2, <1>3, <1>4, <1>5, <1>6, <1>7, <1>8, <1>9, <1>10

\* Messages of a skipped table change nothing.
LEMMA SkipMessageKeeps ==
  ASSUME NEW t \in Tables, IInv, TypeOK', Doubled = {}, SkipMessage(t)
  PROVE  Core'
<1> USE DEF IInv, Core, Running, dbVars, wireVars, loopVars, poolVars, histVars
<1>a. /\ pc = "loop" /\ t \in skipped /\ phase[t] = "open" /\ TableInv(t)
  BY DEF SkipMessage, StreamInv, TableInv, DataDue, DoneDue
<1>b. /\ \A u \in Tables : u # t => phase'[u] = phase[u] /\ next'[u] = next[u]
      /\ phase'[t] \in {"open", "closed"}
      /\ phase'[t] = "closed" => next'[t] = Chunks[t]
  BY <1>a DEF SkipMessage, DataDue, DoneDue, ReadData, ReadTableDone, TypeOK, StreamType
<1>c. UNCHANGED <<dbVars, pc, loopVars, poolVars, histVars>>
  BY DEF SkipMessage
<1>1. TicketInv'
  BY DEF SkipMessage, DataDue, DoneDue, ReadData, ReadTableDone, TicketInv,
     Items, TypeOK, PoolType, LoopType, Work
<1>2. IdleInv'
  BY DEF SkipMessage, DataDue, DoneDue, ReadData, ReadTableDone, IdleInv,
     Items
<1>3. CkptInv'
  BY DEF SkipMessage, DataDue, DoneDue, ReadData, ReadTableDone, CkptInv,
     Complete, Busy, Items
<1>4. OrderInv'
  BY DEF SkipMessage, DataDue, DoneDue, ReadData, ReadTableDone, OrderInv,
     Items
<1>5. DdlInv'
  <2>1. \A d \in pendingDdl : d.table \in Tables /\ d.table # t
    BY <1>a DEF DdlInv, TypeOK, LoopType
  <2> QED
    BY <1>a, <1>b, <1>c, <2>1 DEF DdlInv, Items
<1>6. LoadInv'
  <2>1. \A p \in pendingLoads : p.table \in Tables /\ p.table # t
    BY <1>a DEF LoadInv, TypeOK, LoopType
  <2> QED
    BY <1>a, <1>b, <1>c, <2>1 DEF LoadInv, Items
<1>7. StreamInv'
  <2>1. TableInv(t)'
    <3>1. DdlOf(t) = {}
      BY <1>a DEF DdlInv, DdlOf
    <3> QED
      BY <1>a, <1>b, <1>c, <3>1 DEF TableInv, DdlOf
  <2>2. ASSUME NEW u \in Tables, u # t PROVE TableInv(u)'
    BY <1>a, <1>b, <1>c, <2>2, TableInv(u) DEF StreamInv, TableInv, Loaded, Opening, DdlOf
  <2> QED
    BY <2>1, <2>2 DEF StreamInv
<1>8. BackupInv'
  BY DEF SkipMessage, DataDue, DoneDue, ReadData, ReadTableDone, BackupInv,
     Busy, Items, DdlOf
<1>9. DoneInv'
  BY DEF SkipMessage, DataDue, DoneDue, ReadData, ReadTableDone, DoneInv,
     WindUpPcs, Complete
<1>10. PreserveInv'
  BY DEF SkipMessage, DataDue, DoneDue, ReadData, ReadTableDone, PreserveInv,
     PreservedRowsSafe, Items
<1> QED
  BY <1>1, <1>2, <1>3, <1>4, <1>5, <1>6, <1>7, <1>8, <1>9, <1>10

\* A table about to be recreated is not checkpointed, and its preserved rows
\* are backed up first.
LEMMA AcceptSchemaKeeps ==
  ASSUME NEW t \in Tables, IInv, TypeOK', Doubled = {}, AcceptSchema(t)
  PROVE  Core'
<1> USE DEF IInv, Core, Running, dbVars, wireVars, loopVars, poolVars, histVars
<1> DEFINE i0 == [op |-> "ddl", table |-> t, chunk |-> 0, n |-> ticket]
           d0 == [table |-> t, n |-> ticket]
<1>a. /\ pc = "loop" /\ TableInv(t) /\ phase[t] = "start" /\ t \notin Silent
      /\ t \notin completed /\ t \notin ckpt /\ t \notin skipped /\ next[t] = 0
      /\ phase' = [phase EXCEPT ![t] = "open"]
  <2>1. TableInv(t) /\ t \notin completed /\ pc = "loop"
    BY DEF AcceptSchema, StreamInv
  <2>2. phase[t] = "start"
    BY <2>1 DEF AcceptSchema, SchemaDue, TableInv
  <2>3. phase' = [phase EXCEPT ![t] = "open"]
    BY <2>2 DEF AcceptSchema, ReadSchema, TypeOK, StreamType
  <2>4. t \notin Silent /\ t \notin skipped /\ t \notin ckpt /\ next[t] = 0
    BY <2>1, <2>2 DEF TableInv
  <2> QED
    BY <2>1, <2>2, <2>3, <2>4
<1>b. UNCHANGED <<next, exists, mine, rows, ckptExists, ckpt, completed, skipped,
                  pendingLoads, deferred, visit, ready, streamDone, held, okays,
                  fails, histVars>>
  BY DEF AcceptSchema, ReadSchema, SubmitDdl
<1>c. \/ /\ NeedsBackup(t) /\ backups' = backups \cup {t}
         /\ saved' = [saved EXCEPT ![t] = MatchingRows(t)]
         /\ cur' = {t} /\ pc' = "backup"
         /\ Items' = Items /\ UNCHANGED <<pendingDdl, poolVars>>
      \/ /\ ~NeedsBackup(t) /\ Items' = Items \cup {i0}
         /\ pendingDdl' = {d \in pendingDdl : d.table # t} \cup {d0}
         /\ UNCHANGED <<backups, saved, cur, pc>>
  BY DEF AcceptSchema, SubmitDdl, Items
<1>d. DdlOf(t) = {} /\ ~Busy(t) /\ \A p \in pendingLoads : p.table # t
  <2>1. \A d \in pendingDdl : d.table # t
    BY <1>a DEF DdlInv
  <2>2. \A p \in pendingLoads : p.table # t
    BY <1>a DEF LoadInv
  <2>3. ~Busy(t)
    BY <1>a, <2>1, <2>2, Accounted
  <2> QED
    BY <2>1, <2>2, <2>3 DEF DdlOf
<1>e. i0.op = "ddl" /\ i0.table = t /\ i0.n = ticket /\ DdlEntry(i0) = d0
  BY DEF DdlEntry
<1>f. ~NeedsBackup(t) => pendingDdl' = pendingDdl \cup {d0} /\ d0 \in pendingDdl'
  BY <1>c, <1>d DEF DdlOf
<1> HIDE DEF i0, d0
<1>1. TicketInv'
  BY DEF AcceptSchema, SchemaDue, ReadSchema, NeedsBackup, MatchingRows,
     SubmitDdl, TicketInv, Items, TypeOK, PoolType, LoopType, Work
<1>2. IdleInv'
  BY DEF AcceptSchema, SchemaDue, ReadSchema, NeedsBackup, MatchingRows,
     SubmitDdl, IdleInv, Items
<1>3. CkptInv'
  <2>1. \A u \in ckpt : Complete(u)'
    BY <1>b DEF CkptInv, Complete
  <2>2. ASSUME NEW u \in ckpt PROVE ~Busy(u)'
    BY <1>a, <1>c, <1>e DEF CkptInv, Busy
  <2>3. ckptExists'
    BY DEF AcceptSchema, CkptInv
  <2> QED
    BY <1>b, <2>1, <2>2, <2>3 DEF CkptInv
<1>4. OrderInv'
  <2>1. \A k \in Items' : k \in Items \/ (k.op = "ddl" /\ k.table = t)
    BY <1>c, <1>e
  <2> QED
    BY <1>b, <1>d, <2>1 DEF OrderInv, Busy
<1>5. DdlInv'
  <2>1. CASE NeedsBackup(t)
    BY <1>a, <1>b, <1>c, <2>1 DEF DdlInv, TypeOK, StreamType, LoopType
  <2>2. CASE ~NeedsBackup(t)
    <3>1. \A k \in Items' : k.op # "load" => DdlEntry(k) \in pendingDdl'
      BY <1>c, <1>e, <1>f, <2>2, <1>a DEF DdlInv
    <3>2. \A d, e \in pendingDdl' : d.table = e.table => d = e
      BY <1>c, <1>e, <1>f, <2>2, <1>a, <1>d DEF DdlInv, DdlOf, d0
    <3>3. ASSUME NEW d \in pendingDdl
          PROVE  /\ phase'[d.table] = "open" /\ next'[d.table] = 0
                 /\ d.table \notin skipped' \cup completed' \cup ckpt'
                 /\ d.table \notin Silent
                 /\ \A p \in pendingLoads' : p.table # d.table
                 /\ \/ \E k \in Items' : k.op # "load" /\ DdlEntry(k) = d
                    \/ d.n \in fails'
                    \/ d.n \in okays' /\ d.table \in exists'
                         /\ \A c \in 1 .. Chunks[d.table] : rows'[<<d.table, c>>] = 0
      BY <1>c, <1>e, <1>f, <2>2, <1>a, <1>b DEF DdlInv, TypeOK, StreamType, LoopType
    <3>4. /\ phase'[t] = "open" /\ next'[t] = 0
          /\ t \notin skipped' \cup completed' \cup ckpt' \cup Silent
          /\ \A p \in pendingLoads' : p.table # t
      BY <1>c, <1>e, <1>f, <2>2, <1>a, <1>b, <1>d DEF TypeOK, StreamType
    <3> QED
      BY <1>c, <1>e, <1>f, <2>2, <1>a, <3>1, <3>2, <3>3, <3>4 DEF DdlInv, d0
  <2> QED
    BY <2>1, <2>2
<1>6. LoadInv'
  BY DEF AcceptSchema, SchemaDue, ReadSchema, NeedsBackup, MatchingRows,
     SubmitDdl, LoadInv, Items, LoadOf
<1>7. StreamInv'
  <2>1. TableInv(t)'
    <3>1. Opening(t)'
      BY <1>c, <1>e, <1>f DEF Opening, DdlOf, d0
    <3> QED
      BY <1>a, <1>b, <1>c, <3>1 DEF TableInv, TypeOK, StreamType
  <2>2. ASSUME NEW u \in Tables, u # t PROVE TableInv(u)'
    <3>1. DdlOf(u)' = DdlOf(u)
      BY <1>c, <1>f, <2>2 DEF DdlOf, d0
    <3>2. Opening(u)' <=> Opening(u)
      BY <1>a, <1>c, <2>2, <3>1 DEF Opening
    <3>3. phase'[u] = phase[u] /\ next'[u] = next[u] /\ (Loaded(u)' <=> Loaded(u))
      BY <1>a, <1>b, <2>2 DEF Loaded, TypeOK, StreamType
    <3> QED
      BY <1>a, <1>b, <1>c, <3>1, <3>2, <3>3, TableInv(u) DEF StreamInv, TableInv
  <2> QED
    BY <2>1, <2>2 DEF StreamInv
<1>8. BackupInv'
  <2>1. CASE NeedsBackup(t)
    BY <1>a, <1>b, <1>c, <1>d, <2>1 DEF BackupInv, Busy, DdlOf, TypeOK, StreamType
  <2>2. CASE ~NeedsBackup(t)
    BY <1>a, <1>c, <2>2 DEF BackupInv
  <2> QED
    BY <2>1, <2>2
<1>9. DoneInv'
  BY DEF AcceptSchema, SchemaDue, ReadSchema, NeedsBackup, MatchingRows,
     SubmitDdl, DoneInv, WindUpPcs, Complete
<1>10. PreserveInv'
  <2>1. CASE NeedsBackup(t)
    <3>1. t \in mine => "local" \in saved'[t]
      BY <1>c, <2>1 DEF MatchingRows, TypeOK, DbType
    <3>2. \A u \in Tables : u # t => saved'[u] = saved[u]
      BY <1>c, <2>1 DEF TypeOK, DbType
    <3>3. PreservedRowsSafe'
      BY <1>b, <1>c, <2>1, <3>2 DEF PreserveInv, PreservedRowsSafe, NeedsBackup, TypeOK,
         HistType
    <3>4. \A u \in backups' \cap mine' : "local" \in saved'[u]
      BY <1>b, <1>c, <2>1, <3>1, <3>2 DEF PreserveInv, TypeOK, DbType
    <3>5. ASSUME NEW k \in Items', k.op = "ddl", k.table \in hadLocal' \ discarded'
          PROVE  k.table \in backups' /\ "local" \in saved'[k.table]
      BY <1>b, <1>c, <1>d, <2>1, <3>2, <3>5 DEF PreserveInv, Busy, TypeOK, HistType
    <3> QED
      BY <1>b, <3>3, <3>4, <3>5 DEF PreserveInv
  <2>2. CASE ~NeedsBackup(t)
    <3>1. t \in hadLocal \ discarded => t \in backups /\ "local" \in saved[t]
      BY <2>2 DEF PreserveInv, PreservedRowsSafe, NeedsBackup
    <3> QED
      BY <1>b, <1>c, <1>e, <2>2, <3>1 DEF PreserveInv, PreservedRowsSafe
  <2> QED
    BY <2>1, <2>2
<1> QED
  BY <1>1, <1>2, <1>3, <1>4, <1>5, <1>6, <1>7, <1>8, <1>9, <1>10

\* An empty backup held no preserved rows.
LEMMA FinishBackupKeeps ==
  ASSUME NEW t \in Tables, IInv, TypeOK', Doubled = {}, FinishBackup(t)
  PROVE  Core'
<1> USE DEF IInv, Core, Running, dbVars, wireVars, loopVars, poolVars, histVars
<1> DEFINE i0 == [op |-> "ddl", table |-> t, chunk |-> 0, n |-> ticket]
           d0 == [table |-> t, n |-> ticket]
<1>a. /\ pc = "backup" /\ pc' = "loop" /\ t \in cur /\ cur' = {} /\ TableInv(t)
      /\ phase[t] = "open" /\ next[t] = 0
      /\ t \notin skipped \cup completed \cup ckpt \cup Silent
  BY DEF FinishBackup, BackupInv, StreamInv
<1>b. /\ UNCHANGED <<phase, next, exists, mine, rows, saved, ckptExists, ckpt,
                     completed, skipped, pendingLoads, deferred, visit, ready,
                     streamDone, held, okays, fails, histVars>>
      /\ backups' = IF saved[t] = {} THEN backups \ {t} ELSE backups
  BY DEF FinishBackup, SubmitDdl
<1>c. /\ Items' = Items \cup {i0}
      /\ pendingDdl' = {d \in pendingDdl : d.table # t} \cup {d0}
  BY DEF FinishBackup, SubmitDdl, Items
<1>d. DdlOf(t) = {} /\ ~Busy(t) /\ \A p \in pendingLoads : p.table # t
  BY <1>a DEF BackupInv
<1>e. i0.op = "ddl" /\ i0.table = t /\ i0.n = ticket /\ DdlEntry(i0) = d0
  BY DEF DdlEntry
<1>f. pendingDdl' = pendingDdl \cup {d0} /\ d0 \in pendingDdl'
  BY <1>c, <1>d DEF DdlOf
<1> HIDE DEF i0, d0
<1>1. TicketInv'
  BY DEF FinishBackup, SubmitDdl, TicketInv, Items, TypeOK, PoolType,
     LoopType, Work
<1>2. IdleInv'
  BY DEF FinishBackup, SubmitDdl, IdleInv, Items
<1>3. CkptInv'
  <2>1. \A u \in ckpt : Complete(u)'
    BY <1>b DEF CkptInv, Complete
  <2>2. ASSUME NEW u \in ckpt PROVE ~Busy(u)'
    BY <1>a, <1>c, <1>e DEF CkptInv, Busy
  <2>3. ckptExists'
    BY DEF FinishBackup, CkptInv
  <2> QED
    BY <1>b, <2>1, <2>2, <2>3 DEF CkptInv
<1>4. OrderInv'
  <2>1. \A k \in Items' : k \in Items \/ (k.op = "ddl" /\ k.table = t)
    BY <1>c, <1>e
  <2> QED
    BY <1>b, <1>d, <2>1 DEF OrderInv, Busy
<1>5. DdlInv'
  <2>1. \A k \in Items' : k.op # "load" => DdlEntry(k) \in pendingDdl'
    BY <1>c, <1>e, <1>f, <1>a DEF DdlInv
  <2>2. \A d, e \in pendingDdl' : d.table = e.table => d = e
    BY <1>c, <1>e, <1>f, <1>a, <1>d DEF DdlInv, DdlOf, d0
  <2>3. ASSUME NEW d \in pendingDdl
        PROVE  /\ phase'[d.table] = "open" /\ next'[d.table] = 0
               /\ d.table \notin skipped' \cup completed' \cup ckpt'
               /\ d.table \notin Silent
               /\ \A p \in pendingLoads' : p.table # d.table
               /\ \/ \E k \in Items' : k.op # "load" /\ DdlEntry(k) = d
                  \/ d.n \in fails'
                  \/ d.n \in okays' /\ d.table \in exists'
                       /\ \A c \in 1 .. Chunks[d.table] : rows'[<<d.table, c>>] = 0
    BY <1>c, <1>e, <1>f, <1>a, <1>b DEF DdlInv, TypeOK, StreamType, LoopType
  <2>4. /\ phase'[t] = "open" /\ next'[t] = 0
        /\ t \notin skipped' \cup completed' \cup ckpt' \cup Silent
        /\ \A p \in pendingLoads' : p.table # t
    BY <1>c, <1>e, <1>f, <1>a, <1>b, <1>d DEF TypeOK, StreamType
  <2> QED
    BY <1>c, <1>e, <1>f, <1>a, <2>1, <2>2, <2>3, <2>4 DEF DdlInv, d0
<1>6. LoadInv'
  BY DEF FinishBackup, SubmitDdl, LoadInv, Items, LoadOf
<1>7. StreamInv'
  <2>1. TableInv(t)'
    <3>1. Opening(t)'
      BY <1>c, <1>e, <1>f DEF Opening, DdlOf, d0
    <3> QED
      BY <1>a, <1>b, <1>c, <3>1 DEF TableInv
  <2>2. ASSUME NEW u \in Tables, u # t PROVE TableInv(u)'
    <3>1. DdlOf(u)' = DdlOf(u)
      BY <1>c, <1>f, <2>2 DEF DdlOf, d0
    <3>2. cur = {t}
      BY <1>a DEF BackupInv
    <3>3. Opening(u)' <=> Opening(u)
      BY <1>a, <1>c, <2>2, <3>1, <3>2 DEF Opening
    <3>4. Loaded(u)' <=> Loaded(u)
      BY <1>b DEF Loaded
    <3> QED
      BY <1>a, <1>b, <3>1, <3>3, <3>4, TableInv(u) DEF StreamInv, TableInv
  <2> QED
    BY <2>1, <2>2 DEF StreamInv
<1>8. BackupInv'
  BY DEF FinishBackup, SubmitDdl, BackupInv, Busy, Items, DdlOf
<1>9. DoneInv'
  BY DEF FinishBackup, SubmitDdl, DoneInv, WindUpPcs, Complete
<1>10. PreserveInv'
  <2>1. saved[t] = {} => t \notin mine /\ t \notin hadLocal \ discarded
    BY <1>a DEF PreserveInv, PreservedRowsSafe, BackupInv
  <2>2. t \in hadLocal \ discarded => t \in backups' /\ "local" \in saved[t]
    BY <1>a, <1>b, <2>1 DEF PreserveInv, PreservedRowsSafe, BackupInv
  <2> QED
    BY <1>b, <1>c, <1>e, <2>1, <2>2 DEF PreserveInv, PreservedRowsSafe
<1> QED
  BY <1>1, <1>2, <1>3, <1>4, <1>5, <1>6, <1>7, <1>8, <1>9, <1>10

\* The chunk read is submitted once, after the CREATE TABLE of its table.
LEMMA RecvDataKeeps ==
  ASSUME NEW t \in Tables, IInv, TypeOK', Doubled = {}, RecvData(t)
  PROVE  Core'
<1> USE DEF IInv, Core, Running, dbVars, wireVars, loopVars, poolVars, histVars
<1> DEFINE p0 == [table |-> t, chunk |-> next[t] + 1, n |-> ticket]
           i0 == [op |-> "load", table |-> t, chunk |-> next[t] + 1, n |-> ticket]
<1>a. /\ pc = "loop" /\ TableInv(t) /\ phase[t] = "open" /\ t \notin skipped
      /\ next[t] < Chunks[t] /\ next[t] \in Nat /\ DdlReady(t)
  BY DEF RecvData, DataDue, StreamInv, TypeOK, StreamType
<1>b. t \notin Silent \cup ckpt \cup completed \cup deferred \cup ready
  BY <1>a DEF TableInv
<1>c. /\ Items' = Items \cup {i0} /\ pendingLoads' = pendingLoads \cup {p0}
      /\ pendingDdl' = pendingDdl \ DdlOf(t)
      /\ okays' = okays \ TicketsOf(DdlOf(t))
      /\ next' = [next EXCEPT ![t] = @ + 1] /\ pc' \in {"loop", "drain"}
  BY <1>a DEF RecvData, ReadData, Items
<1>d. UNCHANGED <<dbVars, phase, completed, skipped, schemas, deferred, ready,
                  streamDone, cur, held, fails, histVars>>
  BY DEF RecvData, ReadData
<1>e. Loaded(t) /\ \A k \in Items : k.table = t => k.op = "load"
  BY <1>a, <1>b, TableThere
<1>f. /\ i0.op = "load" /\ i0.table = t /\ LoadOf(i0) = p0 /\ p0.table = t
      /\ p0.chunk = next[t] + 1 /\ p0.n = ticket
  BY DEF LoadOf
<1>g. /\ next'[t] = next[t] + 1
      /\ \A u \in Tables : u # t => next'[u] = next[u]
      /\ \A p \in pendingLoads : p.n \in okays => p.n \in okays'
      /\ \A d \in pendingDdl' : d.table # t /\ (d.n \in okays => d.n \in okays')
  BY <1>c DEF TypeOK, StreamType, TicketInv, TicketsOf, DdlOf
<1> HIDE DEF i0, p0
<1>1. TicketInv'
  BY DEF RecvData, DataDue, ReadData, DdlReady, DdlOf, TicketsOf, TicketInv,
     Items, TypeOK, PoolType, LoopType, Work
<1>2. IdleInv'
  BY DEF RecvData, DataDue, ReadData, DdlReady, DdlOf, TicketsOf, IdleInv,
     Items
<1>3. CkptInv'
  BY <1>a, <1>b, <1>c, <1>d, <1>f DEF CkptInv, Complete, Busy
<1>4. OrderInv'
  <2>1. \A k \in Items' : k \in Items \/ k = i0
    BY <1>c
  <2>2. t \in exists
    BY <1>e DEF Loaded
  <2>3. ASSUME NEW k \in Items', k.op = "load"
        PROVE  k.table \in exists' /\ \A m \in Items' : m.table = k.table => m.op = "load"
    BY <1>d, <1>e, <1>f, <2>1, <2>2, <2>3 DEF OrderInv
  <2>4. ASSUME NEW k \in Items', k.op = "create"
        PROVE  \A c \in 1 .. Chunks[k.table] : rows'[<<k.table, c>>] = 0
    BY <1>d, <1>f, <2>1, <2>4 DEF OrderInv
  <2> QED
    BY <2>3, <2>4 DEF OrderInv
<1>5. DdlInv'
  <2>1. \A k \in Items' : k.op # "load" => DdlEntry(k) \in pendingDdl'
    BY <1>a, <1>c, <1>e, <1>f DEF DdlInv, DdlOf, DdlEntry
  <2>2. ASSUME NEW d \in pendingDdl'
        PROVE  /\ phase'[d.table] = "open" /\ next'[d.table] = 0
               /\ d.table \notin skipped' \cup completed' \cup ckpt'
               /\ d.table \notin Silent
               /\ \A p \in pendingLoads' : p.table # d.table
    <3>1. d \in pendingDdl /\ d.table \in Tables /\ d.table # t
      BY <1>c, <1>g DEF TypeOK, LoopType
    <3> QED
      BY <1>a, <1>c, <1>d, <1>f, <1>g, <3>1 DEF DdlInv
  <2>3. ASSUME NEW d \in pendingDdl'
        PROVE  \/ \E i \in Items' : i.op # "load" /\ DdlEntry(i) = d
               \/ d.n \in fails'
               \/ d.n \in okays' /\ d.table \in exists'
                    /\ \A c \in 1 .. Chunks[d.table] : rows'[<<d.table, c>>] = 0
    BY <1>a, <1>c, <1>d, <1>g DEF DdlInv
  <2> QED
    BY <1>a, <1>c, <2>1, <2>2, <2>3 DEF DdlInv
<1>6. LoadInv'
  <2>1. \A k \in Items' : k.op = "load" => LoadOf(k) \in pendingLoads'
    BY <1>a, <1>c, <1>f DEF LoadInv
  <2>2. \A p \in pendingLoads : p.table = t => p.chunk # p0.chunk
    <3> SUFFICES ASSUME NEW p \in pendingLoads, p.table = t PROVE p.chunk # next[t] + 1
      BY <1>f
    <3>1. p.chunk \in 1 .. next[t]
      BY <1>a DEF LoadInv
    <3> QED
      BY <1>a, <3>1
  <2>3. \A p, q \in pendingLoads' : p.table = q.table /\ p.chunk = q.chunk => p = q
    BY <1>a, <1>c, <1>f, <2>2 DEF LoadInv
  <2>4. ASSUME NEW p \in pendingLoads
        PROVE  /\ phase'[p.table] \in {"open", "closed"}
               /\ p.chunk \in 1 .. next'[p.table]
               /\ p.table \notin skipped' \cup completed' \cup ckpt' \cup ready'
               /\ p.table \notin Silent
               /\ \/ /\ \E i \in Items' : i.op = "load" /\ LoadOf(i) = p
                     /\ rows'[<<p.table, p.chunk>>] = 0
                  \/ p.n \in okays' /\ rows'[<<p.table, p.chunk>>] = 1
                  \/ p.n \in fails'
    <3>1. p.table \in Tables
      BY DEF TypeOK, LoopType
    <3>2. p.chunk \in 1 .. next[p.table]
      BY <1>a DEF LoadInv
    <3>3. p.chunk \in 1 .. next'[p.table]
      BY <1>a, <1>g, <3>1, <3>2
    <3>4. /\ phase'[p.table] \in {"open", "closed"}
          /\ p.table \notin skipped' \cup completed' \cup ckpt' \cup ready'
          /\ p.table \notin Silent
      BY <1>a, <1>d DEF LoadInv
    <3>5. \/ /\ \E i \in Items' : i.op = "load" /\ LoadOf(i) = p
             /\ rows'[<<p.table, p.chunk>>] = 0
          \/ p.n \in okays' /\ rows'[<<p.table, p.chunk>>] = 1
          \/ p.n \in fails'
      BY <1>a, <1>c, <1>d, <1>g DEF LoadInv
    <3> QED
      BY <3>3, <3>4, <3>5
  <2>5. /\ phase'[t] \in {"open", "closed"}
        /\ p0.chunk \in 1 .. next'[t]
        /\ t \notin skipped' \cup completed' \cup ckpt' \cup ready' \cup Silent
    BY <1>a, <1>b, <1>d, <1>f, <1>g
  <2>6. /\ i0 \in Items' /\ i0.op = "load" /\ LoadOf(i0) = p0
        /\ rows'[<<t, p0.chunk>>] = 0
    <3>1. next[t] + 1 \in 1 .. Chunks[t] /\ next[t] + 1 > next[t]
      BY <1>a
    <3> QED
      BY <1>c, <1>d, <1>e, <1>f, <3>1 DEF Loaded
  <2> QED
    BY <1>c, <1>f, <2>1, <2>3, <2>4, <2>5, <2>6 DEF LoadInv
<1>7. StreamInv'
  <2>1. TableInv(t)'
    <3>1. Loaded(t)'
      <4>1. ASSUME NEW c \in 1 .. Chunks[t]
            PROVE  /\ c > next'[t] => rows'[<<t, c>>] = 0
                   /\ c <= next'[t] => \/ rows'[<<t, c>>] = 1
                                       \/ \E p \in pendingLoads' : p.table = t /\ p.chunk = c
        <5>1. CASE c = next[t] + 1
          BY <1>a, <1>c, <1>f, <1>g, <5>1
        <5>2. CASE c # next[t] + 1
          <6>1. /\ c > next'[t] => c > next[t]
                /\ c <= next'[t] => c <= next[t]
            BY <1>a, <1>g, <5>2
          <6> QED
            BY <1>c, <1>d, <1>e, <6>1 DEF Loaded
        <5> QED
          BY <5>1, <5>2
      <4> QED
        BY <1>d, <1>e, <4>1 DEF Loaded
    <3> QED
      BY <1>a, <1>b, <1>c, <1>d, <3>1 DEF TableInv
  <2>2. ASSUME NEW u \in Tables, u # t PROVE TableInv(u)'
    <3>1. DdlOf(u)' = DdlOf(u)
      BY <1>c, <2>2 DEF DdlOf
    <3>2. Opening(u)' <=> Opening(u)
      BY <1>a, <1>c, <3>1 DEF Opening
    <3>3. next'[u] = next[u] /\ (Loaded(u)' <=> Loaded(u))
      BY <1>c, <1>d, <1>f, <1>g, <2>2 DEF Loaded
    <3> QED
      BY <1>a, <1>c, <1>d, <3>1, <3>2, <3>3, TableInv(u) DEF StreamInv, TableInv
  <2> QED
    BY <2>1, <2>2 DEF StreamInv
<1>8. BackupInv'
  BY DEF RecvData, DataDue, ReadData, DdlReady, DdlOf, TicketsOf, BackupInv,
     Busy, Items
<1>9. DoneInv'
  BY DEF RecvData, DataDue, ReadData, DdlReady, DdlOf, TicketsOf, DoneInv,
     WindUpPcs, Complete
<1>10. PreserveInv'
  BY DEF RecvData, DataDue, ReadData, DdlReady, DdlOf, TicketsOf, PreserveInv,
     PreservedRowsSafe, Items
<1> QED
  BY <1>1, <1>2, <1>3, <1>4, <1>5, <1>6, <1>7, <1>8, <1>9, <1>10

\* A table is deferred when all its chunks have been submitted.
LEMMA RecvTableDoneKeeps ==
  ASSUME NEW t \in Tables, IInv, TypeOK', Doubled = {}, RecvTableDone(t)
  PROVE  Core'
<1> USE DEF IInv, Core, Running, dbVars, wireVars, loopVars, poolVars, histVars
<1>a. /\ pc = "loop" /\ pc' = "drain" /\ TableInv(t) /\ t \notin skipped
      /\ phase[t] \in {"open", "tail"} /\ next[t] = Chunks[t] /\ DdlReady(t)
  <2>1. TableInv(t)
    BY DEF RecvTableDone, StreamInv
  <2>2. phase[t] \in {"open", "tail"} /\ next[t] = Chunks[t]
    BY <2>1 DEF RecvTableDone, DoneDue, TableInv
  <2> QED
    BY <2>1, <2>2 DEF RecvTableDone
<1>b. phase' = [phase EXCEPT ![t] = "closed"] /\ next' = next
  BY <1>a DEF RecvTableDone, ReadTableDone, TypeOK, StreamType
<1>c. /\ pendingDdl' = pendingDdl \ DdlOf(t)
      /\ okays' = okays \ TicketsOf(DdlOf(t))
      /\ deferred' = deferred \cup {t}
      /\ Items' = Items
      /\ UNCHANGED <<dbVars, completed, skipped, schemas, pendingLoads, ready,
                     streamDone, cur, ticket, queue, held, fails, histVars>>
  BY DEF RecvTableDone, Items
<1>d. t \notin Silent => Loaded(t) /\ \A k \in Items : k.table = t => k.op = "load"
  <2> SUFFICES ASSUME t \notin Silent
               PROVE  Loaded(t) /\ \A k \in Items : k.table = t => k.op = "load"
    OBVIOUS
  <2>1. phase[t] = "open"
    BY <1>a DEF TableInv
  <2> QED
    BY <1>a, <2>1, TableThere
<1>e. /\ \A p \in pendingLoads : p.n \in okays => p.n \in okays'
      /\ \A d \in pendingDdl' : d.table # t /\ (d.n \in okays => d.n \in okays')
  BY <1>c DEF TicketInv, TicketsOf, DdlOf
<1>f. t \in Silent => \A k \in Items : k.table # t
  <2> SUFFICES ASSUME t \in Silent PROVE ~Busy(t)
    BY DEF Busy
  <2>1. \A d \in pendingDdl : d.table # t
    BY <1>a DEF DdlInv
  <2>2. \A p \in pendingLoads : p.table # t
    BY <1>a DEF LoadInv
  <2> QED
    BY <1>a, <2>1, <2>2, Accounted
<1>1. TicketInv'
  BY DEF RecvTableDone, DoneDue, ReadTableDone, DdlReady, DdlOf, TicketsOf,
     TicketInv, Items, TypeOK, PoolType, LoopType, Work
<1>2. IdleInv'
  BY DEF RecvTableDone, DoneDue, ReadTableDone, DdlReady, DdlOf, TicketsOf,
     IdleInv, Items
<1>3. CkptInv'
  BY DEF RecvTableDone, DoneDue, ReadTableDone, DdlReady, DdlOf, TicketsOf,
     CkptInv, Complete, Busy, Items
<1>4. OrderInv'
  BY DEF RecvTableDone, DoneDue, ReadTableDone, DdlReady, DdlOf, TicketsOf,
     OrderInv, Items
<1>5. DdlInv'
  <2>1. \A k \in Items' : k.op # "load" => DdlEntry(k) \in pendingDdl'
    BY <1>a, <1>c, <1>d, <1>f DEF DdlInv, DdlOf, DdlEntry
  <2>2. ASSUME NEW d \in pendingDdl'
        PROVE  /\ phase'[d.table] = "open" /\ next'[d.table] = 0
               /\ d.table \notin skipped' \cup completed' \cup ckpt'
               /\ d.table \notin Silent
               /\ \A p \in pendingLoads' : p.table # d.table
    <3>1. d \in pendingDdl /\ d.table \in Tables /\ d.table # t
      BY <1>c, <1>e DEF TypeOK, LoopType
    <3>2. phase'[d.table] = phase[d.table]
      BY <1>b, <3>1 DEF TypeOK, StreamType
    <3> QED
      BY <1>a, <1>b, <1>c, <3>1, <3>2 DEF DdlInv
  <2>3. ASSUME NEW d \in pendingDdl'
        PROVE  \/ \E i \in Items' : i.op # "load" /\ DdlEntry(i) = d
               \/ d.n \in fails'
               \/ d.n \in okays' /\ d.table \in exists'
                    /\ \A c \in 1 .. Chunks[d.table] : rows'[<<d.table, c>>] = 0
    BY <1>a, <1>c, <1>e DEF DdlInv
  <2> QED
    BY <1>a, <1>c, <2>1, <2>2, <2>3 DEF DdlInv
<1>6. LoadInv'
  <2>1. ASSUME NEW p \in pendingLoads
        PROVE  phase'[p.table] \in {"open", "closed"}
    <3>1. p.table \in Tables /\ phase[p.table] \in {"open", "closed"}
      BY <1>a DEF LoadInv, TypeOK, LoopType
    <3> QED
      BY <1>b, <3>1 DEF TypeOK, StreamType
  <2> QED
    BY <1>a, <1>b, <1>c, <1>e, <2>1 DEF LoadInv
<1>7. StreamInv'
  <2>1. TableInv(t)'
    <3>1. phase'[t] = "closed" /\ (DdlOf(t) = {})'
      BY <1>b, <1>c DEF DdlOf, TypeOK, StreamType
    <3>2. t \notin Silent => Loaded(t)'
      BY <1>b, <1>c, <1>d DEF Loaded
    <3> QED
      BY <1>a, <1>b, <1>c, <3>1, <3>2 DEF TableInv
  <2>2. ASSUME NEW u \in Tables, u # t PROVE TableInv(u)'
    <3>1. DdlOf(u)' = DdlOf(u)
      BY <1>c, <2>2 DEF DdlOf
    <3>2. Opening(u)' <=> Opening(u)
      BY <1>a, <3>1 DEF Opening
    <3>3. phase'[u] = phase[u] /\ (Loaded(u)' <=> Loaded(u))
      BY <1>b, <1>c, <2>2 DEF Loaded, TypeOK, StreamType
    <3>4. TableInv(u)
      BY <1>a DEF StreamInv
    <3>5. /\ u \in deferred' <=> u \in deferred
          /\ UNCHANGED <<next, ckpt, completed, skipped, ready>>
          /\ pc' # "shutdown" /\ pc # "shutdown"
      BY <1>a, <1>b, <1>c, <2>2
    <3> QED
      BY <3>1, <3>2, <3>3, <3>4, <3>5 DEF TableInv
  <2> QED
    BY <2>1, <2>2 DEF StreamInv
<1>8. BackupInv'
  BY DEF RecvTableDone, DoneDue, ReadTableDone, DdlReady, DdlOf, TicketsOf,
     BackupInv, Busy, Items
<1>9. DoneInv'
  BY DEF RecvTableDone, DoneDue, ReadTableDone, DdlReady, DdlOf, TicketsOf,
     DoneInv, WindUpPcs, Complete
<1>10. PreserveInv'
  BY DEF RecvTableDone, DoneDue, ReadTableDone, DdlReady, DdlOf, TicketsOf,
     PreserveInv, PreservedRowsSafe, Items
<1> QED
  BY <1>1, <1>2, <1>3, <1>4, <1>5, <1>6, <1>7, <1>8, <1>9, <1>10
=============================================================================
