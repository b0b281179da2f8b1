------------------------- MODULE ImportClientSafety -------------------------
(***************************************************************************)
(* Draining, finalizing, winding up and stopping keep the inductive        *)
(* invariant; then the safety theorems of ImportClient, for any tables,    *)
(* chunks, workers and faults, and that it implements ResumableImport.     *)
(* They need Doubled = {}: no aggregate root is also an exclude_data table. *)
(***************************************************************************)
EXTENDS ImportClientProofs, WellFoundedInduction, TLAPS

USE ClientAssumption

\* A load forgotten by the loop is in the table.
LEMMA TryRecvKeeps ==
  ASSUME NEW p \in pendingLoads, IInv, TypeOK', Doubled = {}, TryRecv(p)
  PROVE  Core'
<1> USE DEF IInv, Core, Running, dbVars, wireVars, loopVars, poolVars, histVars
<1>a. /\ pc = "drain" /\ pc' \in {"drain", "loop"} /\ Items' = Items /\ okays' = okays \ {p.n}
      /\ pendingLoads' = IF p.n \in okays THEN pendingLoads \ {p} ELSE pendingLoads
      /\ UNCHANGED <<dbVars, wireVars, completed, skipped, schemas, pendingDdl,
                     deferred, ready, streamDone, cur, ticket, queue, held, fails,
                     histVars>>
  BY DEF TryRecv, Items
<1>b. /\ \A q \in pendingLoads' : q \in pendingLoads /\ (q.n \in okays => q.n \in okays')
      /\ \A d \in pendingDdl : d.n \in okays => d.n \in okays'
  BY <1>a DEF TicketInv
<1>c. \A q \in pendingLoads : q \in pendingLoads' \/ rows[<<q.table, q.chunk>>] = 1
  BY <1>a, Reported
<1>d. \A k \in Items : k.op = "load" => LoadOf(k) \in pendingLoads'
  <2> SUFFICES ASSUME NEW k \in Items, k.op = "load" PROVE LoadOf(k) \in pendingLoads'
    OBVIOUS
  <2>1. LoadOf(k) \in pendingLoads /\ k.n \notin okays /\ LoadOf(k).n = k.n
    BY <1>a DEF LoadInv, TicketInv, LoadOf
  <2> QED
    BY <1>a, <2>1
<1>1. TicketInv'
  BY DEF TryRecv, TicketInv, Items, TypeOK, PoolType, LoopType, Work
<1>2. IdleInv'
  BY DEF TryRecv, IdleInv, Items
<1>3. CkptInv'
  BY DEF TryRecv, CkptInv, Complete, Busy, Items
<1>4. OrderInv'
  BY DEF TryRecv, OrderInv, Items
<1>5. DdlInv'
  BY <1>a, <1>b DEF DdlInv
<1>6. LoadInv'
  <2>1. \A q \in pendingLoads' :
          /\ phase'[q.table] \in {"open", "closed"}
          /\ q.chunk \in 1 .. next'[q.table]
          /\ q.table \notin skipped' \cup completed' \cup ckpt' \cup ready'
          /\ q.table \notin Silent
    BY <1>a, <1>b DEF LoadInv
  <2>2. \A q \in pendingLoads' :
          \/ /\ \E k \in Items' : k.op = "load" /\ LoadOf(k) = q
             /\ rows'[<<q.table, q.chunk>>] = 0
          \/ q.n \in okays' /\ rows'[<<q.table, q.chunk>>] = 1
          \/ q.n \in fails'
    BY <1>a, <1>b DEF LoadInv
  <2>3. \A q, r \in pendingLoads' :
          q.table = r.table /\ q.chunk = r.chunk => q = r
    BY <1>a, <1>b DEF LoadInv
  <2> QED
    BY <1>a, <1>d, <2>1, <2>2, <2>3 DEF LoadInv
<1>7. StreamInv'
  <2> SUFFICES ASSUME NEW u \in Tables PROVE TableInv(u)'
    BY DEF StreamInv
  <2>1. TableInv(u) /\ (Opening(u)' <=> Opening(u)) /\ DdlOf(u)' = DdlOf(u)
    BY <1>a DEF StreamInv, Opening, DdlOf
  <2>2. Loaded(u) => Loaded(u)'
    BY <1>a, <1>c DEF Loaded
  <2>3. UNCHANGED <<phase, next, ckpt, completed, skipped, deferred, ready>>
          /\ pc' # "shutdown" /\ pc # "shutdown"
    BY <1>a
  <2> QED
    BY <2>1, <2>2, <2>3 DEF TableInv
<1>8. BackupInv'
  BY DEF TryRecv, BackupInv, Busy, Items, DdlOf
<1>9. DoneInv'
  BY DEF TryRecv, DoneInv, WindUpPcs, Complete
<1>10. PreserveInv'
  BY DEF TryRecv, PreserveInv, PreservedRowsSafe, Items
<1> QED
  BY <1>1, <1>2, <1>3, <1>4, <1>5, <1>6, <1>7, <1>8, <1>9, <1>10

\* The tables to finalize have no load left.
LEMMA DrainEndKeeps ==
  ASSUME IInv, TypeOK', Doubled = {}, DrainEnd
  PROVE  Core'
<1> USE DEF IInv, Core, Running, dbVars, wireVars, loopVars, poolVars, histVars
<1>a. /\ pc = "drain" /\ pc' = "finalize" /\ Items' = Items
      /\ ready' = deferred \ TableOf(pendingLoads)
      /\ deferred' = deferred \cap TableOf(pendingLoads)
      /\ UNCHANGED <<dbVars, wireVars, completed, skipped, schemas, pendingDdl,
                     pendingLoads, streamDone, cur, poolVars, histVars>>
  BY DEF DrainEnd, ReadyTables, Items
<1>b. ready = {}
  BY <1>a DEF DoneInv
<1>1. TicketInv'
  BY DEF DrainEnd, ReadyTables, TableOf, TicketInv, Items, TypeOK, PoolType,
     LoopType, Work
<1>2. IdleInv'
  BY DEF DrainEnd, ReadyTables, TableOf, IdleInv, Items
<1>3. CkptInv'
  BY DEF DrainEnd, ReadyTables, TableOf, CkptInv, Complete, Busy, Items
<1>4. OrderInv'
  BY DEF DrainEnd, ReadyTables, TableOf, OrderInv, Items
<1>5. DdlInv'
  BY DEF DrainEnd, ReadyTables, TableOf, DdlInv, Items, DdlEntry, DdlOf
<1>6. LoadInv'
  BY DEF DrainEnd, ReadyTables, TableOf, LoadInv, Items, LoadOf
<1>7. StreamInv'
  <2> SUFFICES ASSUME NEW u \in Tables PROVE TableInv(u)'
    BY DEF StreamInv
  <2>1. TableInv(u) /\ (Opening(u)' <=> Opening(u)) /\ DdlOf(u)' = DdlOf(u)
    BY <1>a DEF StreamInv, Opening, DdlOf
  <2>2. Loaded(u)' <=> Loaded(u)
    BY <1>a DEF Loaded
  <2>3. u \in deferred' \cup ready' <=> u \in deferred \cup ready
    BY <1>a, <1>b
  <2> QED
    BY <1>a, <2>1, <2>2, <2>3 DEF TableInv
<1>8. BackupInv'
  BY DEF DrainEnd, ReadyTables, TableOf, BackupInv, Busy, Items, DdlOf
<1>9. DoneInv'
  BY DEF DrainEnd, ReadyTables, TableOf, DoneInv, WindUpPcs, Complete
<1>10. PreserveInv'
  BY DEF DrainEnd, ReadyTables, TableOf, PreserveInv, PreservedRowsSafe, Items
<1> QED
  BY <1>1, <1>2, <1>3, <1>4, <1>5, <1>6, <1>7, <1>8, <1>9, <1>10

\* The table finalized is complete and no work for it is left.
LEMMA FinalizeTableKeeps ==
  ASSUME NEW t \in Tables, IInv, TypeOK', Doubled = {}, FinalizeTable(t)
  PROVE  Core'
<1> USE DEF IInv, Core, Running, dbVars, wireVars, loopVars, poolVars, histVars
<1>a. /\ pc = "finalize" /\ t \in ready /\ Items' = Items
      /\ ckpt' = ckpt \cup {t} /\ ready' = ready \ {t}
      /\ UNCHANGED <<exists, mine, rows, backups, saved, ckptExists, wireVars, pc,
                     completed, skipped, pendingDdl, pendingLoads, deferred, visit,
                     streamDone, cur, poolVars, histVars>>
  BY DEF FinalizeTable, Items
<1>b. TableInv(t)
  BY <1>a DEF StreamInv
<1>c. phase[t] = "closed" /\ t \notin skipped /\ next[t] = Chunks[t] /\ DdlOf(t) = {}
  BY <1>a, <1>b DEF TableInv
<1>d. /\ \A d \in pendingDdl : d.table # t
      /\ \A p \in pendingLoads : p.table # t
  BY <1>a, <1>c DEF DdlOf, LoadInv
<1>e. t \notin Silent => Loaded(t)
  BY <1>a, <1>b, <1>c DEF TableInv, Opening
<1>f. Complete(t)
  <2>1. CASE t \in Silent
    BY <2>1 DEF Complete
  <2>2. CASE t \notin Silent
    <3>1. ASSUME NEW c \in 1 .. Chunks[t] PROVE rows[<<t, c>>] = 1
      BY <1>c, <1>d, <1>e, <2>2 DEF Loaded
    <3> QED
      BY <1>e, <2>2, <3>1 DEF Complete, Loaded
  <2> QED
    BY <2>1, <2>2
<1>g. ~Busy(t)
  BY <1>a, <1>d, Accounted
<1>1. TicketInv'
  BY DEF FinalizeTable, TicketInv, Items, TypeOK, PoolType, LoopType, Work
<1>2. IdleInv'
  BY DEF FinalizeTable, IdleInv, Items
<1>3. CkptInv'
  <2>1. ckptExists
    BY <1>a DEF CkptInv
  <2>2. \A u \in Tables : (Complete(u)' <=> Complete(u)) /\ (Busy(u)' <=> Busy(u))
    BY <1>a DEF Complete, Busy
  <2> QED
    BY <1>a, <1>f, <1>g, <2>1, <2>2 DEF CkptInv, TypeOK, DbType
<1>4. OrderInv'
  BY DEF FinalizeTable, OrderInv, Items
<1>5. DdlInv'
  BY <1>a, <1>d DEF DdlInv
<1>6. LoadInv'
  BY <1>a, <1>d DEF LoadInv
<1>7. StreamInv'
  BY DEF FinalizeTable, StreamInv, TableInv, Loaded, Opening, DdlOf
<1>8. BackupInv'
  BY DEF FinalizeTable, BackupInv, Busy, Items, DdlOf
<1>9. DoneInv'
  BY DEF FinalizeTable, DoneInv, WindUpPcs, Complete
<1>10. PreserveInv'
  BY DEF FinalizeTable, PreserveInv, PreservedRowsSafe, Items
<1> QED
  BY <1>1, <1>2, <1>3, <1>4, <1>5, <1>6, <1>7, <1>8, <1>9, <1>10

\* The loop goes on.
LEMMA FinalizeEndKeeps ==
  ASSUME IInv, TypeOK', Doubled = {}, FinalizeEnd
  PROVE  Core'
<1> USE DEF IInv, Core, Running, dbVars, wireVars, loopVars, poolVars, histVars
<1>1. TicketInv'
  BY DEF FinalizeEnd, TicketInv, Items, TypeOK, PoolType, LoopType, Work
<1>2. IdleInv'
  BY DEF FinalizeEnd, IdleInv, Items
<1>3. CkptInv'
  BY DEF FinalizeEnd, CkptInv, Complete, Busy, Items
<1>4. OrderInv'
  BY DEF FinalizeEnd, OrderInv, Items
<1>5. DdlInv'
  BY DEF FinalizeEnd, DdlInv, Items, DdlEntry, DdlOf
<1>6. LoadInv'
  BY DEF FinalizeEnd, LoadInv, Items, LoadOf
<1>7. StreamInv'
  BY DEF FinalizeEnd, StreamInv, TableInv, Loaded, Opening, DdlOf
<1>8. BackupInv'
  BY DEF FinalizeEnd, BackupInv, Busy, Items, DdlOf
<1>9. DoneInv'
  BY DEF FinalizeEnd, DoneInv, WindUpPcs, Complete
<1>10. PreserveInv'
  BY DEF FinalizeEnd, PreserveInv, PreservedRowsSafe, Items
<1> QED
  BY <1>1, <1>2, <1>3, <1>4, <1>5, <1>6, <1>7, <1>8, <1>9, <1>10

\* A load forgotten by the loop is in the table.
LEMMA WaitOldestKeeps ==
  ASSUME NEW p \in pendingLoads, IInv, TypeOK', Doubled = {}, WaitOldest(p)
  PROVE  Core'
<1> USE DEF IInv, Core, Running, dbVars, wireVars, loopVars, poolVars, histVars
<1>a. /\ pc = "oldest" /\ pc' \in {"oldest", "loop"} /\ Items' = Items /\ okays' = okays \ {p.n}
      /\ pendingLoads' = IF p.n \in okays THEN pendingLoads \ {p} ELSE pendingLoads
      /\ UNCHANGED <<dbVars, wireVars, completed, skipped, schemas, pendingDdl,
                     deferred, ready, streamDone, cur, ticket, queue, held, fails,
                     histVars>>
  BY DEF WaitOldest, Items
<1>b. /\ \A q \in pendingLoads' : q \in pendingLoads /\ (q.n \in okays => q.n \in okays')
      /\ \A d \in pendingDdl : d.n \in okays => d.n \in okays'
  BY <1>a DEF TicketInv
<1>c. \A q \in pendingLoads : q \in pendingLoads' \/ rows[<<q.table, q.chunk>>] = 1
  BY <1>a, Reported
<1>d. \A k \in Items : k.op = "load" => LoadOf(k) \in pendingLoads'
  <2> SUFFICES ASSUME NEW k \in Items, k.op = "load" PROVE LoadOf(k) \in pendingLoads'
    OBVIOUS
  <2>1. LoadOf(k) \in pendingLoads /\ k.n \notin okays /\ LoadOf(k).n = k.n
    BY <1>a DEF LoadInv, TicketInv, LoadOf
  <2> QED
    BY <1>a, <2>1
<1>1. TicketInv'
  BY DEF WaitOldest, TicketInv, Items, TypeOK, PoolType, LoopType, Work
<1>2. IdleInv'
  BY DEF WaitOldest, IdleInv, Items
<1>3. CkptInv'
  BY DEF WaitOldest, CkptInv, Complete, Busy, Items
<1>4. OrderInv'
  BY DEF WaitOldest, OrderInv, Items
<1>5. DdlInv'
  BY <1>a, <1>b DEF DdlInv
<1>6. LoadInv'
  <2>1. \A q \in pendingLoads' :
          /\ phase'[q.table] \in {"open", "closed"}
          /\ q.chunk \in 1 .. next'[q.table]
          /\ q.table \notin skipped' \cup completed' \cup ckpt' \cup ready'
          /\ q.table \notin Silent
    BY <1>a, <1>b DEF LoadInv
  <2>2. \A q \in pendingLoads' :
          \/ /\ \E k \in Items' : k.op = "load" /\ LoadOf(k) = q
             /\ rows'[<<q.table, q.chunk>>] = 0
          \/ q.n \in okays' /\ rows'[<<q.table, q.chunk>>] = 1
          \/ q.n \in fails'
    BY <1>a, <1>b DEF LoadInv
  <2>3. \A q, r \in pendingLoads' :
          q.table = r.table /\ q.chunk = r.chunk => q = r
    BY <1>a, <1>b DEF LoadInv
  <2> QED
    BY <1>a, <1>d, <2>1, <2>2, <2>3 DEF LoadInv
<1>7. StreamInv'
  <2> SUFFICES ASSUME NEW u \in Tables PROVE TableInv(u)'
    BY DEF StreamInv
  <2>1. TableInv(u) /\ (Opening(u)' <=> Opening(u)) /\ DdlOf(u)' = DdlOf(u)
    BY <1>a DEF StreamInv, Opening, DdlOf
  <2>2. Loaded(u) => Loaded(u)'
    BY <1>a, <1>c DEF Loaded
  <2>3. UNCHANGED <<phase, next, ckpt, completed, skipped, deferred, ready>>
          /\ pc' # "shutdown" /\ pc # "shutdown"
    BY <1>a
  <2> QED
    BY <2>1, <2>2, <2>3 DEF TableInv
<1>8. BackupInv'
  BY DEF WaitOldest, BackupInv, Busy, Items, DdlOf
<1>9. DoneInv'
  BY DEF WaitOldest, DoneInv, WindUpPcs, Complete
<1>10. PreserveInv'
  BY DEF WaitOldest, PreserveInv, PreservedRowsSafe, Items
<1> QED
  BY <1>1, <1>2, <1>3, <1>4, <1>5, <1>6, <1>7, <1>8, <1>9, <1>10

\* Done is the last message.
LEMMA RecvDoneKeeps ==
  ASSUME IInv, TypeOK', Doubled = {}, RecvDone
  PROVE  Core'
<1> USE DEF IInv, Core, Running, dbVars, wireVars, loopVars, poolVars, histVars
<1>1. TicketInv'
  BY DEF RecvDone, TicketInv, Items, TypeOK, PoolType, LoopType, Work
<1>2. IdleInv'
  BY DEF RecvDone, IdleInv, Items
<1>3. CkptInv'
  BY DEF RecvDone, CkptInv, Complete, Busy, Items
<1>4. OrderInv'
  BY DEF RecvDone, OrderInv, Items
<1>5. DdlInv'
  BY DEF RecvDone, DdlInv, Items, DdlEntry, DdlOf
<1>6. LoadInv'
  BY DEF RecvDone, LoadInv, Items, LoadOf
<1>7. StreamInv'
  BY DEF RecvDone, StreamInv, TableInv, Loaded, Opening, DdlOf
<1>8. BackupInv'
  BY DEF RecvDone, BackupInv, Busy, Items, DdlOf
<1>9. DoneInv'
  BY DEF RecvDone, DoneInv, WindUpPcs, Complete
<1>10. PreserveInv'
  BY DEF RecvDone, PreserveInv, PreservedRowsSafe, Items
<1> QED
  BY <1>1, <1>2, <1>3, <1>4, <1>5, <1>6, <1>7, <1>8, <1>9, <1>10

\* All loads have reported: what is deferred is complete.
LEMMA DrainAllKeeps ==
  ASSUME IInv, TypeOK', Doubled = {}, DrainAll
  PROVE  Core'
<1> USE DEF IInv, Core, Running, dbVars, wireVars, loopVars, poolVars, histVars
<1>a. /\ pc = "drainAll" /\ pc' = "finalize" /\ Items' = Items
      /\ pendingDdl' = {} /\ pendingLoads' = {} /\ ready' = deferred /\ deferred' = {}
      /\ \A d \in pendingDdl : d.n \in okays
      /\ \A p \in pendingLoads : p.n \in okays
      /\ UNCHANGED <<dbVars, wireVars, completed, skipped, schemas, cur, histVars>>
  BY DEF DrainAll, Items, TicketsOf
<1>b. Items = {}
  <2> SUFFICES ASSUME NEW i \in Items PROVE FALSE
    OBVIOUS
  <2>1. i.n \notin okays /\ LoadOf(i).n = i.n /\ DdlEntry(i).n = i.n
    BY DEF TicketInv, LoadOf, DdlEntry
  <2>2. LoadOf(i) \in pendingLoads \/ DdlEntry(i) \in pendingDdl
    BY <1>a DEF LoadInv, DdlInv
  <2> QED
    BY <1>a, <2>1, <2>2
<1>c. \A p \in pendingLoads : rows[<<p.table, p.chunk>>] = 1
  BY <1>a, Reported
<1>1. TicketInv'
  BY DEF DrainAll, TicketsOf, TicketInv, Items, TypeOK, PoolType, LoopType,
     Work
<1>2. IdleInv'
  BY DEF DrainAll, TicketsOf, IdleInv, Items
<1>3. CkptInv'
  BY DEF DrainAll, TicketsOf, CkptInv, Complete, Busy, Items
<1>4. OrderInv'
  BY DEF DrainAll, TicketsOf, OrderInv, Items
<1>5. DdlInv'
  BY <1>a, <1>b DEF DdlInv
<1>6. LoadInv'
  BY <1>a, <1>b DEF LoadInv
<1>7. StreamInv'
  <2> SUFFICES ASSUME NEW u \in Tables PROVE TableInv(u)'
    BY DEF StreamInv
  <2>1. TableInv(u) /\ phase[u] = "closed" /\ ready = {}
    BY <1>a DEF StreamInv, DoneInv
  <2>2. ~Opening(u) /\ (DdlOf(u) = {})'
    BY <1>a, <2>1 DEF TableInv, Opening, DdlOf
  <2>3. Loaded(u) => Loaded(u)'
    BY <1>a, <1>c DEF Loaded
  <2>4. u \in deferred' \cup ready' <=> u \in deferred \cup ready
    BY <1>a, <2>1
  <2> QED
    BY <1>a, <2>1, <2>2, <2>3, <2>4 DEF TableInv
<1>8. BackupInv'
  BY DEF DrainAll, TicketsOf, BackupInv, Busy, Items, DdlOf
<1>9. DoneInv'
  BY DEF DrainAll, TicketsOf, DoneInv, WindUpPcs, Complete
<1>10. PreserveInv'
  BY DEF DrainAll, TicketsOf, PreserveInv, PreservedRowsSafe, Items
<1> QED
  BY <1>1, <1>2, <1>3, <1>4, <1>5, <1>6, <1>7, <1>8, <1>9, <1>10

\* The preserved rows are copied back, then the backup goes.
LEMMA RestoreRowsKeeps ==
  ASSUME NEW t \in Tables, IInv, TypeOK', Doubled = {}, RestoreRows(t)
  PROVE  Core'
<1> USE DEF IInv, Core, Running, dbVars, wireVars, loopVars, poolVars, histVars
<1>1. TicketInv'
  BY DEF RestoreRows, TicketInv, Items, TypeOK, PoolType, LoopType, Work
<1>2. IdleInv'
  BY DEF RestoreRows, IdleInv, Items
<1>3. CkptInv'
  BY DEF RestoreRows, CkptInv, Complete, Busy, Items
<1>4. OrderInv'
  BY DEF RestoreRows, OrderInv, Items
<1>5. DdlInv'
  BY DEF RestoreRows, DdlInv, Items, DdlEntry, DdlOf
<1>6. LoadInv'
  BY DEF RestoreRows, LoadInv, Items, LoadOf
<1>7. StreamInv'
  BY DEF RestoreRows, StreamInv, TableInv, Loaded, Opening, DdlOf
<1>8. BackupInv'
  BY DEF RestoreRows, BackupInv, Busy, Items, DdlOf
<1>9. DoneInv'
  BY DEF RestoreRows, DoneInv, WindUpPcs, Complete
<1>10. PreserveInv'
  BY DEF RestoreRows, PreserveInv, PreservedRowsSafe, Items
<1> QED
  BY <1>1, <1>2, <1>3, <1>4, <1>5, <1>6, <1>7, <1>8, <1>9, <1>10

\* The rows of the backup that is dropped are in the table.
LEMMA DropBackupKeeps ==
  ASSUME NEW t \in Tables, IInv, TypeOK', Doubled = {}, DropBackup(t)
  PROVE  Core'
<1> USE DEF IInv, Core, Running, dbVars, wireVars, loopVars, poolVars, histVars
<1>a. /\ pc = "dropBackup" /\ t \in cur /\ backups' = backups \ {t}
      /\ saved' = [saved EXCEPT ![t] = {}] /\ Items' = Items
      /\ UNCHANGED <<exists, mine, hadLocal, discarded, pendingDdl, pendingLoads>>
  BY DEF DropBackup, Items
<1>b. pendingDdl = {} /\ pendingLoads = {}
  BY <1>a DEF DoneInv, WindUpPcs
<1>c. Items = {}
  BY <1>a, <1>b DEF DdlInv, LoadInv
<1>1. TicketInv'
  BY DEF DropBackup, TicketInv, Items, TypeOK, PoolType, LoopType, Work
<1>2. IdleInv'
  BY DEF DropBackup, IdleInv, Items
<1>3. CkptInv'
  BY DEF DropBackup, CkptInv, Complete, Busy, Items
<1>4. OrderInv'
  BY DEF DropBackup, OrderInv, Items
<1>5. DdlInv'
  BY DEF DropBackup, DdlInv, Items, DdlEntry, DdlOf
<1>6. LoadInv'
  BY DEF DropBackup, LoadInv, Items, LoadOf
<1>7. StreamInv'
  BY DEF DropBackup, StreamInv, TableInv, Loaded, Opening, DdlOf
<1>8. BackupInv'
  BY DEF DropBackup, BackupInv, Busy, Items, DdlOf
<1>9. DoneInv'
  BY DEF DropBackup, DoneInv, WindUpPcs, Complete
<1>10. PreserveInv'
  <2>1. "local" \in saved[t] => t \in mine
    BY <1>a DEF BackupInv
  <2>2. \A u \in Tables : u # t => saved'[u] = saved[u] /\ (u \in backups' <=> u \in backups)
    BY <1>a DEF TypeOK, DbType
  <2>3. PreservedRowsSafe'
    BY <1>a, <2>1, <2>2 DEF PreserveInv, PreservedRowsSafe, TypeOK, HistType
  <2>4. \A u \in (backups \cap mine)' : "local" \in saved'[u]
    BY <1>a, <2>2 DEF PreserveInv, TypeOK, DbType
  <2> QED
    BY <1>a, <1>c, <2>3, <2>4 DEF PreserveInv
<1> QED
  BY <1>1, <1>2, <1>3, <1>4, <1>5, <1>6, <1>7, <1>8, <1>9, <1>10

\* All backups are restored.
LEMMA RestoreEndKeeps ==
  ASSUME IInv, TypeOK', Doubled = {}, RestoreEnd
  PROVE  Core'
<1> USE DEF IInv, Core, Running, dbVars, wireVars, loopVars, poolVars, histVars
<1>1. TicketInv'
  BY DEF RestoreEnd, TicketInv, Items, TypeOK, PoolType, LoopType, Work
<1>2. IdleInv'
  BY DEF RestoreEnd, IdleInv, Items
<1>3. CkptInv'
  BY DEF RestoreEnd, CkptInv, Complete, Busy, Items
<1>4. OrderInv'
  BY DEF RestoreEnd, OrderInv, Items
<1>5. DdlInv'
  BY DEF RestoreEnd, DdlInv, Items, DdlEntry, DdlOf
<1>6. LoadInv'
  BY DEF RestoreEnd, LoadInv, Items, LoadOf
<1>7. StreamInv'
  BY DEF RestoreEnd, StreamInv, TableInv, Loaded, Opening, DdlOf
<1>8. BackupInv'
  BY DEF RestoreEnd, BackupInv, Busy, Items, DdlOf
<1>9. DoneInv'
  BY DEF RestoreEnd, DoneInv, WindUpPcs, Complete
<1>10. PreserveInv'
  BY DEF RestoreEnd, PreserveInv, PreservedRowsSafe, Items
<1> QED
  BY <1>1, <1>2, <1>3, <1>4, <1>5, <1>6, <1>7, <1>8, <1>9, <1>10

\* What the after statements do is not modelled.
LEMMA RunSetsAndAfterKeeps ==
  ASSUME IInv, TypeOK', Doubled = {}, RunSetsAndAfter
  PROVE  Core'
<1> USE DEF IInv, Core, Running, dbVars, wireVars, loopVars, poolVars, histVars
<1>1. TicketInv'
  BY DEF RunSetsAndAfter, TicketInv, Items, TypeOK, PoolType, LoopType, Work
<1>2. IdleInv'
  BY DEF RunSetsAndAfter, IdleInv, Items
<1>3. CkptInv'
  BY DEF RunSetsAndAfter, CkptInv, Complete, Busy, Items
<1>4. OrderInv'
  BY DEF RunSetsAndAfter, OrderInv, Items
<1>5. DdlInv'
  BY DEF RunSetsAndAfter, DdlInv, Items, DdlEntry, DdlOf
<1>6. LoadInv'
  BY DEF RunSetsAndAfter, LoadInv, Items, LoadOf
<1>7. StreamInv'
  BY DEF RunSetsAndAfter, StreamInv, TableInv, Loaded, Opening, DdlOf
<1>8. BackupInv'
  BY DEF RunSetsAndAfter, BackupInv, Busy, Items, DdlOf
<1>9. DoneInv'
  BY DEF RunSetsAndAfter, DoneInv, WindUpPcs, Complete
<1>10. PreserveInv'
  BY DEF RunSetsAndAfter, PreserveInv, PreservedRowsSafe, Items
<1> QED
  BY <1>1, <1>2, <1>3, <1>4, <1>5, <1>6, <1>7, <1>8, <1>9, <1>10

\* The checkpoint goes once every table is complete.
LEMMA CleanupCheckpointKeeps ==
  ASSUME IInv, TypeOK', Doubled = {}, CleanupCheckpoint
  PROVE  Core'
<1> USE DEF IInv, Core, Running, dbVars, wireVars, loopVars, poolVars, histVars
<1>1. TicketInv'
  BY DEF CleanupCheckpoint, TicketInv, Items, TypeOK, PoolType, LoopType, Work
<1>2. IdleInv'
  BY DEF CleanupCheckpoint, IdleInv, Items, DoneInv, WindUpPcs, DdlInv,
     LoadInv
<1>3. CkptInv'
  BY DEF CleanupCheckpoint, CkptInv, Complete, Busy, Items
<1>4. OrderInv'
  BY DEF CleanupCheckpoint, OrderInv, Items
<1>5. DdlInv'
  BY DEF CleanupCheckpoint, DdlInv, Items, DdlEntry, DdlOf
<1>6. LoadInv'
  BY DEF CleanupCheckpoint, LoadInv, Items, LoadOf
<1>7. StreamInv'
  BY DEF CleanupCheckpoint, StreamInv, TableInv, Loaded, Opening, DdlOf
<1>8. BackupInv'
  BY DEF CleanupCheckpoint, BackupInv, Busy, Items, DdlOf
<1>9. DoneInv'
  <2>1. pc = "cleanup" /\ pc' = "shutdown" /\ UNCHANGED <<exists, rows, backups, wireVars, loopVars>>
    BY DEF CleanupCheckpoint
  <2>2. /\ streamDone /\ ready = {} /\ deferred = {} /\ backups = {}
        /\ pendingDdl = {} /\ pendingLoads = {}
        /\ \A t \in Tables : phase[t] = "closed"
    BY <2>1 DEF DoneInv, WindUpPcs
  <2>3. \A t \in Tables : Complete(t)
    BY <2>1, <2>2 DEF StreamInv, TableInv, CkptInv
  <2>4. \A t \in Tables : Complete(t)'
    BY <2>1, <2>3 DEF Complete
  <2> QED
    BY <2>1, <2>2, <2>4 DEF DoneInv, WindUpPcs
<1>10. PreserveInv'
  BY DEF CleanupCheckpoint, PreserveInv, PreservedRowsSafe, Items
<1> QED
  BY <1>1, <1>2, <1>3, <1>4, <1>5, <1>6, <1>7, <1>8, <1>9, <1>10

\* The run succeeds.
LEMMA SendShutdownKeeps ==
  ASSUME IInv, TypeOK', Doubled = {}, SendShutdown
  PROVE  Core'
<1> USE DEF IInv, Core, Running, dbVars, wireVars, loopVars, poolVars, histVars
<1>1. TicketInv'
  BY DEF SendShutdown, TicketInv, Items, TypeOK, PoolType, LoopType, Work
<1>2. IdleInv'
  BY DEF SendShutdown, IdleInv, Items, DoneInv, WindUpPcs
<1>3. CkptInv'
  BY DEF SendShutdown, CkptInv, Complete, Busy, Items
<1>4. OrderInv'
  BY DEF SendShutdown, OrderInv, Items
<1>5. DdlInv'
  BY DEF SendShutdown, DdlInv, Items, DdlEntry, DdlOf
<1>6. LoadInv'
  BY DEF SendShutdown, LoadInv, Items, LoadOf
<1>7. StreamInv'
  BY DEF SendShutdown, StreamInv, TableInv, Loaded, Opening, DdlOf
<1>8. BackupInv'
  BY DEF SendShutdown, BackupInv, Busy, Items, DdlOf
<1>9. DoneInv'
  BY DEF SendShutdown, DoneInv, WindUpPcs, Complete
<1>10. PreserveInv'
  BY DEF SendShutdown, PreserveInv, PreservedRowsSafe, Items
<1> QED
  BY <1>1, <1>2, <1>3, <1>4, <1>5, <1>6, <1>7, <1>8, <1>9, <1>10

\* An error leaves the database as it is, and the pool working.
LEMMA ErrorReturnKeeps ==
  ASSUME IInv, TypeOK', Doubled = {}, ErrorReturn
  PROVE  Core'
<1> USE DEF IInv, Core, Running, dbVars, wireVars, loopVars, poolVars, histVars
<1>1. TicketInv'
  BY DEF ErrorReturn, EndInError, ResetLoop, MeetsError, TicketInv, Items,
     TypeOK, PoolType, LoopType, Work
<1>2. IdleInv'
  BY DEF ErrorReturn, EndInError, ResetLoop, MeetsError, IdleInv, Items
<1>3. CkptInv'
  BY DEF ErrorReturn, EndInError, ResetLoop, MeetsError, CkptInv, Complete,
     Busy, Items
<1>4. OrderInv'
  BY DEF ErrorReturn, EndInError, ResetLoop, MeetsError, OrderInv, Items
<1>5. DdlInv'
  BY DEF ErrorReturn, EndInError, ResetLoop, MeetsError, DdlInv, Items,
     DdlEntry, DdlOf
<1>6. LoadInv'
  BY DEF ErrorReturn, EndInError, ResetLoop, MeetsError, LoadInv, Items,
     LoadOf
<1>7. StreamInv'
  BY DEF ErrorReturn, EndInError, ResetLoop, MeetsError, StreamInv, TableInv,
     Loaded, Opening, DdlOf
<1>8. BackupInv'
  BY DEF ErrorReturn, EndInError, ResetLoop, MeetsError, BackupInv, Busy,
     Items, DdlOf
<1>9. DoneInv'
  BY DEF ErrorReturn, EndInError, ResetLoop, MeetsError, DoneInv, WindUpPcs,
     Complete
<1>10. PreserveInv'
  BY DEF ErrorReturn, EndInError, ResetLoop, MeetsError, PreserveInv,
     PreservedRowsSafe, Items
<1> QED
  BY <1>1, <1>2, <1>3, <1>4, <1>5, <1>6, <1>7, <1>8, <1>9, <1>10

\* So does an interruption.
LEMMA InterruptKeeps ==
  ASSUME IInv, TypeOK', Doubled = {}, Interrupt
  PROVE  Core'
<1> USE DEF IInv, Core, Running, dbVars, wireVars, loopVars, poolVars, histVars
<1>1. TicketInv'
  BY DEF Interrupt, EndInError, ResetLoop, TicketInv, Items, TypeOK, PoolType,
     LoopType, Work
<1>2. IdleInv'
  BY DEF Interrupt, EndInError, ResetLoop, IdleInv, Items
<1>3. CkptInv'
  BY DEF Interrupt, EndInError, ResetLoop, CkptInv, Complete, Busy, Items
<1>4. OrderInv'
  BY DEF Interrupt, EndInError, ResetLoop, OrderInv, Items
<1>5. DdlInv'
  BY DEF Interrupt, EndInError, ResetLoop, DdlInv, Items, DdlEntry, DdlOf
<1>6. LoadInv'
  BY DEF Interrupt, EndInError, ResetLoop, LoadInv, Items, LoadOf
<1>7. StreamInv'
  BY DEF Interrupt, EndInError, ResetLoop, StreamInv, TableInv, Loaded,
     Opening, DdlOf
<1>8. BackupInv'
  BY DEF Interrupt, EndInError, ResetLoop, BackupInv, Busy, Items, DdlOf
<1>9. DoneInv'
  BY DEF Interrupt, EndInError, ResetLoop, DoneInv, WindUpPcs, Complete
<1>10. PreserveInv'
  BY DEF Interrupt, EndInError, ResetLoop, PreserveInv, PreservedRowsSafe,
     Items
<1> QED
  BY <1>1, <1>2, <1>3, <1>4, <1>5, <1>6, <1>7, <1>8, <1>9, <1>10

\* The pool is idle when the workers have exited.
LEMMA PoolStoppedKeeps ==
  ASSUME IInv, TypeOK', Doubled = {}, PoolStopped
  PROVE  Core'
<1> USE DEF IInv, Core, Running, dbVars, wireVars, loopVars, poolVars, histVars
<1>1. TicketInv'
  BY DEF PoolStopped, ResetPool, TicketInv, Items, TypeOK, PoolType, LoopType,
     Work, IdleInv
<1>2. IdleInv'
  BY DEF PoolStopped, ResetPool, IdleInv, Items
<1>3. CkptInv'
  BY DEF PoolStopped, ResetPool, CkptInv, Complete, Busy, Items
<1>4. OrderInv'
  BY DEF PoolStopped, ResetPool, OrderInv, Items
<1>5. DdlInv'
  BY DEF PoolStopped, ResetPool, DdlInv, Items, DdlEntry, DdlOf
<1>6. LoadInv'
  BY DEF PoolStopped, ResetPool, LoadInv, Items, LoadOf
<1>7. StreamInv'
  BY DEF PoolStopped, ResetPool, StreamInv, TableInv, Loaded, Opening, DdlOf
<1>8. BackupInv'
  BY DEF PoolStopped, ResetPool, BackupInv, Busy, Items, DdlOf
<1>9. DoneInv'
  BY DEF PoolStopped, ResetPool, DoneInv, WindUpPcs, Complete
<1>10. PreserveInv'
  BY DEF PoolStopped, ResetPool, PreserveInv, PreservedRowsSafe, Items
<1> QED
  BY <1>1, <1>2, <1>3, <1>4, <1>5, <1>6, <1>7, <1>8, <1>9, <1>10

\* A crash loses the queue, which only makes the database safer.
LEMMA CrashKeeps ==
  ASSUME IInv, TypeOK', Doubled = {}, Crash
  PROVE  Core'
<1> USE DEF IInv, Core, Running, dbVars, wireVars, loopVars, poolVars, histVars
<1>1. TicketInv'
  BY DEF Crash, ResetLoop, ResetPool, TicketInv, Items, TypeOK, PoolType,
     LoopType, Work
<1>2. IdleInv'
  BY DEF Crash, ResetLoop, ResetPool, IdleInv, Items
<1>3. CkptInv'
  BY DEF Crash, ResetLoop, ResetPool, CkptInv, Complete, Busy, Items
<1>4. OrderInv'
  BY DEF Crash, ResetLoop, ResetPool, OrderInv, Items
<1>5. DdlInv'
  BY DEF Crash, ResetLoop, ResetPool, DdlInv, Items, DdlEntry, DdlOf
<1>6. LoadInv'
  BY DEF Crash, ResetLoop, ResetPool, LoadInv, Items, LoadOf
<1>7. StreamInv'
  BY DEF Crash, ResetLoop, ResetPool, StreamInv, TableInv, Loaded, Opening,
     DdlOf
<1>8. BackupInv'
  BY DEF Crash, ResetLoop, ResetPool, BackupInv, Busy, Items, DdlOf
<1>9. DoneInv'
  BY DEF Crash, ResetLoop, ResetPool, DoneInv, WindUpPcs, Complete
<1>10. PreserveInv'
  BY DEF Crash, ResetLoop, ResetPool, PreserveInv, PreservedRowsSafe, Items
<1> QED
  BY <1>1, <1>2, <1>3, <1>4, <1>5, <1>6, <1>7, <1>8, <1>9, <1>10

-----------------------------------------------------------------------------
(* The safety theorems and the refinement *)

\* The inductive invariant holds before the first run.
LEMMA InvInit == ASSUME Doubled = {} PROVE Init => IInv
<1> SUFFICES ASSUME Init PROVE IInv
  OBVIOUS
<1>1. TypeOK
  BY TypeInit
<1>2. Items = {}
  BY DEF Init, Items
<1>3. TicketInv /\ IdleInv /\ OrderInv
  BY <1>2 DEF Init, TicketInv, IdleInv, OrderInv, Running
<1>4. CkptInv /\ DdlInv /\ LoadInv /\ StreamInv
  BY DEF Init, CkptInv, DdlInv, LoadInv, StreamInv, Running
<1>5. BackupInv /\ DoneInv
  BY DEF Init, BackupInv, DoneInv, WindUpPcs, Running
<1>6. PreserveInv
  BY <1>2 DEF Init, PreserveInv, PreservedRowsSafe
<1> QED
  BY <1>1, <1>3, <1>4, <1>5, <1>6 DEF IInv, Core

\* Every step keeps it: one lemma per action, in the modules this one extends.
LEMMA InvStep == ASSUME Doubled = {} PROVE IInv /\ [Next]_vars => IInv'
<1> SUFFICES ASSUME IInv, [Next]_vars PROVE Core'
  BY TypeStep DEF IInv
<1> TypeOK'
  BY TypeStep DEF IInv
<1>1. ASSUME NEW mode \in {"plain", "resume"}, StartImport(mode) PROVE Core'
  BY <1>1, StartImportKeeps
<1>2. CASE StartClean
  BY <1>2, StartCleanKeeps
<1>3. ASSUME NEW t \in Tables, CleanBackup(t) PROVE Core'
  BY <1>3, CleanBackupKeeps
<1>4. CASE CleanCheckpoint
  BY <1>4, CleanCheckpointKeeps
<1>5. ASSUME NEW i \in queue, TakeWork(i) PROVE Core'
  BY <1>5, TakeWorkKeeps
<1>6. ASSUME NEW i \in held, DropTable(i) PROVE Core'
  BY <1>6, DropTableKeeps
<1>7. ASSUME NEW i \in held, CreateTable(i) PROVE Core'
  BY <1>7, CreateTableKeeps
<1>8. ASSUME NEW i \in held, LoadData(i) PROVE Core'
  BY <1>8, LoadDataKeeps
<1>9. ASSUME NEW i \in held, WorkFails(i) PROVE Core'
  BY <1>9, WorkFailsKeeps
<1>10. ASSUME NEW t \in Tables, SkipSchema(t) PROVE Core'
  BY <1>10, SkipSchemaKeeps
<1>11. ASSUME NEW t \in Tables, SkipMessage(t) PROVE Core'
  BY <1>11, SkipMessageKeeps
<1>12. ASSUME NEW t \in Tables, AcceptSchema(t) PROVE Core'
  BY <1>12, AcceptSchemaKeeps
<1>13. ASSUME NEW t \in Tables, FinishBackup(t) PROVE Core'
  BY <1>13, FinishBackupKeeps
<1>14. ASSUME NEW t \in Tables, RecvData(t) PROVE Core'
  BY <1>14, RecvDataKeeps
<1>15. ASSUME NEW t \in Tables, RecvTableDone(t) PROVE Core'
  BY <1>15, RecvTableDoneKeeps
<1>16. ASSUME NEW p \in pendingLoads, TryRecv(p) PROVE Core'
  BY <1>16, TryRecvKeeps
<1>17. CASE DrainEnd
  BY <1>17, DrainEndKeeps
<1>18. ASSUME NEW t \in Tables, FinalizeTable(t) PROVE Core'
  BY <1>18, FinalizeTableKeeps
<1>19. CASE FinalizeEnd
  BY <1>19, FinalizeEndKeeps
<1>20. ASSUME NEW p \in pendingLoads, WaitOldest(p) PROVE Core'
  BY <1>20, WaitOldestKeeps
<1>21. CASE RecvDone
  BY <1>21, RecvDoneKeeps
<1>22. CASE DrainAll
  BY <1>22, DrainAllKeeps
<1>23. ASSUME NEW t \in Tables, RestoreRows(t) PROVE Core'
  BY <1>23, RestoreRowsKeeps
<1>24. ASSUME NEW t \in Tables, DropBackup(t) PROVE Core'
  BY <1>24, DropBackupKeeps
<1>25. CASE RestoreEnd
  BY <1>25, RestoreEndKeeps
<1>26. CASE RunSetsAndAfter
  BY <1>26, RunSetsAndAfterKeeps
<1>27. CASE CleanupCheckpoint
  BY <1>27, CleanupCheckpointKeeps
<1>28. CASE SendShutdown
  BY <1>28, SendShutdownKeeps
<1>29. CASE ErrorReturn
  BY <1>29, ErrorReturnKeeps
<1>30. CASE Interrupt
  BY <1>30, InterruptKeeps
<1>31. CASE PoolStopped
  BY <1>31, PoolStoppedKeeps
<1>32. CASE Crash
  BY <1>32, CrashKeeps
<1>33. CASE Finished \/ UNCHANGED vars
  BY <1>33 DEF IInv, Core, Finished, vars, dbVars, wireVars, loopVars,
     poolVars, histVars, TicketInv, Items, TypeOK, PoolType, LoopType, Work,
     IdleInv, CkptInv, Complete, Busy, OrderInv, DdlInv, DdlEntry, DdlOf,
     LoadInv, LoadOf, StreamInv, TableInv, Loaded, Opening, BackupInv,
     DoneInv, WindUpPcs, PreserveInv, PreservedRowsSafe
<1> QED
  BY <1>1, <1>2, <1>3, <1>4, <1>5, <1>6, <1>7, <1>8, <1>9, <1>10, <1>11,
     <1>12, <1>13, <1>14, <1>15, <1>16, <1>17, <1>18, <1>19, <1>20, <1>21,
     <1>22, <1>23, <1>24, <1>25, <1>26, <1>27, <1>28, <1>29, <1>30, <1>31,
     <1>32, <1>33
  DEF Next, Clean, Loop, Message, WindUp, Worker, TakeWork, DropTable,
      CreateTable, LoadData

\* The inductive invariant holds at every moment.
THEOREM Invariant == ASSUME Doubled = {} PROVE Spec => []IInv
<1> QED
  BY InvInit, InvStep, PTL DEF Spec

\* Whatever crashes, fails or is interrupted, and in whatever order the
\* workers get to their statements: a table the checkpoint lists is complete.
THEOREM CheckpointSafety == ASSUME Doubled = {} PROVE Spec => []CheckpointSound
<1>1. IInv => CheckpointSound
  BY DEF IInv, Core, CkptInv, CheckpointSound
<1> QED
  BY <1>1, Invariant, PTL

\* A worker never loads into a table that is missing or about to be dropped.
THEOREM LoadsAreOrdered == ASSUME Doubled = {} PROVE Spec => []LoadsFindTheirTable
<1>1. IInv => LoadsFindTheirTable
  BY DEF IInv, Core, OrderInv, Items, LoadsFindTheirTable
<1> QED
  BY <1>1, Invariant, PTL

\* The rows a preserve rule matches are never lost, but by --clean.
THEOREM PreserveSafety == ASSUME Doubled = {} PROVE Spec => []PreservedRowsSafe
<1>1. IInv => PreservedRowsSafe
  BY DEF IInv, Core, PreserveInv
<1> QED
  BY <1>1, Invariant, PTL

\* The after statements, and a run that reports success, find every table
\* complete and the preserved rows back in place.
THEOREM SuccessMeansComplete ==
  ASSUME Doubled = {} PROVE Spec => []AfterSeesWholeImport
<1>1. IInv => AfterSeesWholeImport
  <2> SUFFICES ASSUME IInv, pc \in {"after", "cleanup", "shutdown", "success"}
               PROVE  /\ \A t \in Tables : Complete(t)
                      /\ backups = {}
                      /\ hadLocal \ discarded \subseteq mine
    BY DEF AfterSeesWholeImport
  <2> USE DEF IInv, Core
  <2>1. backups = {}
    BY DEF DoneInv
  <2>2. hadLocal \ discarded \subseteq mine
    BY <2>1 DEF PreserveInv, PreservedRowsSafe
  <2>3. CASE pc \in {"after", "cleanup"}
    <3>1. \A t \in Tables : phase[t] = "closed"
      BY <2>3 DEF DoneInv, WindUpPcs, Running
    <3>2. deferred = {} /\ ready = {}
      BY <2>3 DEF DoneInv, WindUpPcs, Running
    <3>3. \A t \in Tables : t \in ckpt
      BY <2>3, <3>1, <3>2 DEF StreamInv, TableInv, Running
    <3> QED
      BY <2>1, <2>2, <3>3 DEF CkptInv
  <2>4. CASE pc \in {"shutdown", "success"}
    BY <2>1, <2>2, <2>4 DEF DoneInv
  <2> QED
    BY <2>3, <2>4
<1> QED
  BY <1>1, Invariant, PTL

-----------------------------------------------------------------------------
(* ImportClient implements ResumableImport *)

\* What Status is at each point of the loop.
LEMMA StatusIs ==
  ASSUME TypeOK
  PROVE  /\ pc = "shutdown" => Status = "wrapped"
         /\ pc = "success" => Status = "succeeded"
         /\ pc \in Running \ {"shutdown"} => Status = "running"
         /\ pc \notin Running \cup {"success"} => Status = "idle"
<1>1. /\ pc = "shutdown" => pc # "success" /\ pc \notin Running \ {"shutdown"}
      /\ pc = "success" => pc # "shutdown" /\ pc \notin Running \ {"shutdown"}
      /\ pc \in Running \ {"shutdown"} => pc # "shutdown" /\ pc # "success"
      /\ pc \notin Running \cup {"success"} =>
           pc # "shutdown" /\ pc # "success" /\ pc \notin Running \ {"shutdown"}
  BY DEF Running
<1> QED
  BY <1>1 DEF Status

\* Every step of the client is one of the abstract import, or changes neither
\* the checkpoint nor the status of the run.
LEMMA RefinementStep ==
  ASSUME Doubled = {}, IInv, TypeOK', [Next]_vars
  PROVE  [Abstract!Next]_(Abstract!vars)
<1>a. /\ pc = "shutdown" => Status = "wrapped"
      /\ pc = "success" => Status = "succeeded"
      /\ pc \in Running \ {"shutdown"} => Status = "running"
      /\ pc \notin Running \cup {"success"} => Status = "idle"
  BY StatusIs DEF IInv
<1>b. /\ pc' = "shutdown" => Status' = "wrapped"
      /\ pc' = "success" => Status' = "succeeded"
      /\ pc' \in Running \ {"shutdown"} => Status' = "running"
      /\ pc' \notin Running \cup {"success"} => Status' = "idle"
  <2>1. /\ pc' = "shutdown" => pc' # "success" /\ pc' \notin Running \ {"shutdown"}
        /\ pc' = "success" => pc' # "shutdown" /\ pc' \notin Running \ {"shutdown"}
        /\ pc' \in Running \ {"shutdown"} => pc' # "shutdown" /\ pc' # "success"
        /\ pc' \notin Running \cup {"success"} =>
             pc' # "shutdown" /\ pc' # "success" /\ pc' \notin Running \ {"shutdown"}
    BY DEF Running
  <2> QED
    BY <2>1 DEF Status
<1> USE DEF Abstract!vars
<1>1. ASSUME NEW mode \in {"plain", "resume"}, StartImport(mode)
      PROVE  [Abstract!Next]_(Abstract!vars)
  <2>1. Abstract!Start
    BY <1>1, <1>a, <1>b DEF StartImport, Running, Abstract!Start
  <2> QED
    BY <2>1 DEF Abstract!Next
<1>2. CASE CleanCheckpoint
  <2>1. Abstract!Discard
    BY <1>2, <1>a, <1>b DEF CleanCheckpoint, Running, Abstract!Discard
  <2> QED
    BY <2>1 DEF Abstract!Next
<1>3. ASSUME NEW t \in Tables, FinalizeTable(t)
      PROVE  [Abstract!Next]_(Abstract!vars)
  <2>1. Abstract!CompleteTable(t)
    BY <1>3, <1>a, <1>b DEF FinalizeTable, Running, Abstract!CompleteTable
  <2> QED
    BY <2>1 DEF Abstract!Next
<1>4. CASE CleanupCheckpoint
  <2> USE DEF IInv, Core
  <2>1. pc = "cleanup" /\ pc' = "shutdown" /\ ckpt' = {}
    BY <1>4 DEF CleanupCheckpoint
  <2>2. deferred = {} /\ ready = {} /\ \A t \in Tables : phase[t] = "closed"
    BY <2>1 DEF DoneInv, WindUpPcs, Running
  <2>3. ckpt = Tables
    BY <2>1, <2>2 DEF StreamInv, TableInv, Running, TypeOK, DbType
  <2>4. Abstract!WrapUp
    BY <2>1, <2>3, <1>a, <1>b DEF Running, Abstract!WrapUp
  <2> QED
    BY <2>4 DEF Abstract!Next
<1>5. CASE SendShutdown
  <2>1. Abstract!Finish
    BY <1>5, <1>a, <1>b DEF SendShutdown, Running, dbVars, Abstract!Finish
  <2> QED
    BY <2>1 DEF Abstract!Next
<1>6. CASE ErrorReturn \/ Interrupt \/ Crash
  <2>1. pc' \in {"closing", "idle"} /\ ckpt' = ckpt
    BY <1>6 DEF ErrorReturn, Interrupt, Crash, EndInError, dbVars
  <2>2. Status' = "idle"
    BY <2>1, <1>b DEF Running
  <2>3. Status \in {"idle", "running", "wrapped"}
    BY <1>6, <1>a DEF ErrorReturn, MeetsError, Interrupt, Crash, Running
  <2>4. Abstract!Stop \/ Abstract!Finish \/ UNCHANGED Abstract!vars
    BY <2>1, <2>2, <2>3 DEF Abstract!Stop, Abstract!Finish
  <2> QED
    BY <2>4 DEF Abstract!Next
<1>7. ASSUME ckpt' = ckpt,
             \/ pc' = pc
             \/ pc \in Running \ {"shutdown"} /\ pc' \in Running \ {"shutdown"}
             \/ /\ pc \notin Running \cup {"success"}
                /\ pc' \notin Running \cup {"success"}
      PROVE  [Abstract!Next]_(Abstract!vars)
  <2>1. Status' = Status
    BY <1>7, <1>a, <1>b DEF IInv, TypeOK, LoopType, Running
  <2> QED
    BY <1>7, <2>1
<1>8. CASE StartClean \/ PoolStopped \/ (\E t \in Tables : CleanBackup(t))
  BY <1>7, <1>8 DEF StartClean, PoolStopped, CleanBackup, dbVars, Running
<1>9. CASE \/ \E i \in queue \cup held : Worker(i)
           \/ \E i \in held : WorkFails(i)
           \/ Finished \/ UNCHANGED vars
  BY <1>7, <1>9 DEF Worker, TakeWork, DropTable, CreateTable, LoadData,
     WorkFails, Finished, vars, dbVars
<1>10. CASE \E t \in Tables : Message(t) \/ RestoreRows(t) \/ DropBackup(t)
  BY <1>7, <1>10 DEF Message, SkipSchema, SkipMessage, AcceptSchema,
     FinishBackup, RecvData, RecvTableDone, RestoreRows, DropBackup, dbVars,
     Running
<1>11. CASE \E p \in pendingLoads : TryRecv(p) \/ WaitOldest(p)
  BY <1>7, <1>11 DEF TryRecv, WaitOldest, dbVars, Running
<1>12. CASE \/ FinalizeEnd \/ DrainEnd \/ RecvDone \/ DrainAll \/ RestoreEnd
            \/ RunSetsAndAfter
  BY <1>7, <1>12 DEF FinalizeEnd, DrainEnd, RecvDone, DrainAll, RestoreEnd,
     RunSetsAndAfter, dbVars, Running
<1> QED
  BY <1>1, <1>2, <1>3, <1>4, <1>5, <1>6, <1>8, <1>9, <1>10, <1>11, <1>12
  DEF Next, Clean, Loop, WindUp

\* What the loop and the pool do is an import that completes one table at a
\* time, loses no progress when a run stops, and succeeds when all are done.
THEOREM Refinement == ASSUME Doubled = {} PROVE Spec => RefinesResumableImport
<1>1. Init => Abstract!Init
  BY TypeInit, StatusIs DEF Init, Abstract!Init, Running
<1>2. IInv /\ IInv' /\ [Next]_vars => [Abstract!Next]_(Abstract!vars)
  BY RefinementStep DEF IInv
<1> QED
  BY <1>1, <1>2, Invariant, PTL DEF Spec, RefinesResumableImport, Abstract!Spec

-----------------------------------------------------------------------------
(* Waiting *)

\* Where the loop blocks on a result (wait_ddl, the oldest load, the drain at Done), the
\* result is there or the pool still has the work; and whenever a next one is
\* chosen by age, by the loop or by a worker, there is one to choose.
WaitsAreAnswered ==
  /\ pc \in Running => \A e \in pendingDdl \cup pendingLoads :
       e.n \in okays \cup fails \/ \E i \in queue \cup held : i.n = e.n
  /\ pc = "oldest" => \E p \in pendingLoads : Oldest(p, pendingLoads)
  /\ visit # {} => \E p \in pendingLoads : Oldest(p, visit)
  /\ queue # {} => \E i \in queue : \A j \in queue : i.n <= j.n

\* The loop blocks on the oldest load only if there are too many.
OldestInv == pc = "oldest" => pendingLoads # {}

\* Every step keeps that.
LEMMA OldestStep ==
  ASSUME TypeOK, OldestInv, [Next]_vars
  PROVE  OldestInv'
<1> USE DEF OldestInv, dbVars, wireVars, loopVars, poolVars, histVars
<1>1. CASE FinalizeEnd
  <2>1. ASSUME pc' = "oldest" PROVE pendingLoads # {}
    <3>1. Cardinality(pendingLoads) > MaxPending
      BY <1>1, <2>1 DEF FinalizeEnd
    <3>2. Cardinality({}) = 0
      BY FS_EmptySet
    <3> QED
      BY <3>1, <3>2
  <2> QED
    BY <1>1, <2>1 DEF FinalizeEnd
<1>2. CASE \E mode \in {"plain", "resume"} : StartImport(mode)
  BY <1>2 DEF StartImport
<1>3. CASE Clean
  BY <1>3 DEF Clean, StartClean, CleanCheckpoint, CleanBackup
<1>4. CASE \E t \in Tables : Message(t)
  BY <1>4 DEF Message, SkipSchema, SkipMessage, AcceptSchema, FinishBackup, RecvData,
     RecvTableDone
<1>5. CASE \E t \in Tables : WindUp(t)
  BY <1>5 DEF WindUp, FinalizeTable, RestoreRows, DropBackup
<1>6. CASE \E p \in pendingLoads : TryRecv(p) \/ WaitOldest(p)
  BY <1>6 DEF TryRecv, WaitOldest
<1>7. CASE \/ DrainEnd \/ RecvDone \/ DrainAll \/ RestoreEnd \/ RunSetsAndAfter
           \/ CleanupCheckpoint \/ SendShutdown \/ PoolStopped
  BY <1>7 DEF DrainEnd, RecvDone, DrainAll, RestoreEnd, RunSetsAndAfter, CleanupCheckpoint,
     SendShutdown, PoolStopped
<1>8. CASE ErrorReturn \/ Interrupt \/ Crash
  BY <1>8 DEF ErrorReturn, Interrupt, Crash, EndInError
<1>9. CASE \/ \E i \in queue \cup held : Worker(i)
           \/ \E i \in held : WorkFails(i)
           \/ Finished \/ UNCHANGED vars
  BY <1>9 DEF Worker, TakeWork, DropTable, CreateTable, LoadData, WorkFails, Finished, vars
<1> QED
  BY <1>1, <1>2, <1>3, <1>4, <1>5, <1>6, <1>7, <1>8, <1>9 DEF Next, Loop

\* Among things with tickets there is an oldest.
LEMMA OldestExists ==
  ASSUME NEW S, S # {}, \A x \in S : x.n \in Nat
  PROVE  \E x \in S : \A y \in S : x.n <= y.n
<1> DEFINE Less == OpToRel(<, Nat)
           T == {x.n : x \in S}
<1>1. \A x, y \in Nat : <<y, x>> \in Less <=> y < x
  BY DEF OpToRel
<1>2. IsWellFoundedOn(Less, Nat) /\ T \subseteq Nat /\ T # {}
  BY NatLessThanWellFounded
<1> HIDE DEF Less, T
<1>3. PICK m \in T : \A k \in T : ~ (<<k, m>> \in Less)
  BY <1>2, WFMin
<1>4. PICK x \in S : x.n = m
  BY DEF T
<1>5. ASSUME NEW y \in S PROVE x.n <= y.n
  <2>1. y.n \in T /\ y.n \in Nat /\ m \in Nat
    BY <1>2 DEF T
  <2>2. ~ (y.n < m)
    BY <1>1, <1>3, <2>1
  <2> QED
    BY <1>4, <2>1, <2>2
<1> QED
  BY <1>5

\* The loop never waits for a result that cannot come, whatever the number of
\* workers and the bound of pending loads.
THEOREM NoAnswerIsLost == ASSUME Doubled = {} PROVE Spec => []WaitsAreAnswered
<1>1. Init => OldestInv
  BY DEF Init, OldestInv
<1>2. IInv /\ OldestInv /\ [Next]_vars => OldestInv'
  BY OldestStep DEF IInv
<1>3. IInv /\ OldestInv => WaitsAreAnswered
  <2> SUFFICES ASSUME IInv, OldestInv PROVE WaitsAreAnswered
    OBVIOUS
  <2> USE DEF IInv, Core
  <2>1. /\ \A p \in pendingLoads : p.n \in Nat
        /\ \A i \in queue : i.n \in Nat
        /\ visit \subseteq pendingLoads
    BY DEF TypeOK, LoopType, PoolType, Work, IdleInv
  <2>2. ASSUME pc \in Running, NEW d \in pendingDdl
        PROVE  d.n \in okays \cup fails \/ \E i \in queue \cup held : i.n = d.n
    BY <2>2 DEF DdlInv, DdlEntry, Items
  <2>3. ASSUME pc \in Running, NEW p \in pendingLoads
        PROVE  p.n \in okays \cup fails \/ \E i \in queue \cup held : i.n = p.n
    <3>1. \A i : LoadOf(i).n = i.n
      BY DEF LoadOf
    <3>2. p.n \in okays \cup fails \/ \E i \in Items : LoadOf(i) = p
      BY <2>3 DEF LoadInv
    <3> QED
      BY <3>1, <3>2 DEF Items
  <2>4. pc = "oldest" => \E p \in pendingLoads : Oldest(p, pendingLoads)
    BY <2>1, OldestExists DEF OldestInv, Oldest
  <2>5. visit # {} => \E p \in pendingLoads : Oldest(p, visit)
    BY <2>1, OldestExists DEF Oldest
  <2>6. queue # {} => \E i \in queue : \A j \in queue : i.n <= j.n
    BY <2>1, OldestExists
  <2> QED
    BY <2>2, <2>3, <2>4, <2>5, <2>6 DEF WaitsAreAnswered
<1> QED
  BY <1>1, <1>2, <1>3, Invariant, PTL DEF Spec
=============================================================================
