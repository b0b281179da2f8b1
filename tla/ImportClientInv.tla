--------------------------- MODULE ImportClientInv ---------------------------
(***************************************************************************)
(* The inductive invariant of ImportClient: what the loop knows of the     *)
(* work it has handed to the pool, and what the database holds meanwhile.  *)
(* It holds when no table is streamed twice (Doubled = {}).                *)
(***************************************************************************)
EXTENDS ImportClient

Items == queue \cup held

Busy(t) == \E i \in Items : i.table = t

LoadOf(i) == [table |-> i.table, chunk |-> i.chunk, n |-> i.n]
DdlEntry(i) == [table |-> i.table, n |-> i.n]

\* Tickets are used once: by one item, by one entry of the loop, for one result.
TicketInv ==
  /\ \A i \in Items : i.n < ticket /\ i.n \notin okays /\ i.n \notin fails
  /\ \A i, j \in Items : i.n = j.n => i = j
  /\ \A i \in queue : i \notin held
  /\ \A d \in pendingDdl : d.n < ticket
  /\ \A p \in pendingLoads : p.n < ticket
  /\ \A d \in pendingDdl, p \in pendingLoads : d.n # p.n
  /\ \A p, q \in pendingLoads : p.n = q.n => p = q
  /\ \A d, e \in pendingDdl : d.n = e.n => d = e
  /\ \A n \in okays : n < ticket /\ n \notin fails
  /\ \A n \in fails : n < ticket

\* Outside a run the pool has nothing; while it closes it works off the rest.
IdleInv ==
  /\ pc \in {"idle", "clean", "fresh", "shutdown", "success"} => Items = {}
  /\ pc \notin Running => pendingDdl = {} /\ pendingLoads = {}
  /\ pc # "drain" => visit = {}
  /\ visit \subseteq pendingLoads

\* A checkpointed table is complete and nobody is going to touch it.
CkptInv ==
  /\ ~ckptExists => ckpt = {}
  /\ pc \in Running \ {"shutdown"} => ckptExists
  /\ \A t \in ckpt : Complete(t) /\ ~Busy(t)

\* Loads follow the CREATE TABLE of their table, even while the pool closes.
OrderInv ==
  /\ \A i \in Items : i.op = "load" =>
       /\ i.table \in exists
       /\ \A j \in Items : j.table = i.table => j.op = "load"
  /\ \A i \in Items : i.op = "create" =>
       \A c \in 1 .. Chunks[i.table] : rows[<<i.table, c>>] = 0

\* A table whose DDL is outstanding has no data yet.
DdlInv ==
  pc \in Running =>
    /\ \A i \in Items : i.op # "load" => DdlEntry(i) \in pendingDdl
    /\ \A d, e \in pendingDdl : d.table = e.table => d = e
    /\ \A d \in pendingDdl :
         /\ phase[d.table] = "open" /\ next[d.table] = 0
         /\ d.table \notin skipped \cup completed \cup ckpt
         /\ d.table \notin Silent
         /\ \A p \in pendingLoads : p.table # d.table
         /\ \/ \E i \in Items : i.op # "load" /\ DdlEntry(i) = d
            \/ d.n \in fails
            \/ d.n \in okays /\ d.table \in exists
                 /\ \A c \in 1 .. Chunks[d.table] : rows[<<d.table, c>>] = 0

\* Every load submitted and not yet accounted for is pending, exactly once.
LoadInv ==
  pc \in Running =>
    /\ \A i \in Items : i.op = "load" => LoadOf(i) \in pendingLoads
    /\ \A p, q \in pendingLoads :
         p.table = q.table /\ p.chunk = q.chunk => p = q
    /\ \A p \in pendingLoads :
         /\ phase[p.table] \in {"open", "closed"}
         /\ p.chunk \in 1 .. next[p.table]
         /\ p.table \notin skipped \cup completed \cup ckpt \cup ready
         /\ p.table \notin Silent
         /\ \/ /\ \E i \in Items : i.op = "load" /\ LoadOf(i) = p
               /\ rows[<<p.table, p.chunk>>] = 0
            \/ p.n \in okays /\ rows[<<p.table, p.chunk>>] = 1
            \/ p.n \in fails

\* What a table that has been read so far looks like in the database.
Loaded(t) ==
  /\ t \in exists
  /\ \A c \in 1 .. Chunks[t] :
       /\ c > next[t] => rows[<<t, c>>] = 0
       /\ c <= next[t] => \/ rows[<<t, c>>] = 1
                          \/ \E p \in pendingLoads : p.table = t /\ p.chunk = c

Opening(t) == (pc = "backup" /\ t \in cur) \/ DdlOf(t) # {}

\* Where the stream of a table stands, and what the loop and the checkpoint say.
TableInv(t) ==
  /\ phase[t] \in IF t \in Silent THEN {"tail", "closed"}
                  ELSE {"start", "open", "closed"}
  /\ phase[t] \in {"start", "tail"} =>
       /\ next[t] = 0 /\ t \notin skipped
       /\ t \in ckpt => t \in completed
  /\ phase[t] = "open" => t \in skipped \/ t \notin ckpt \cup completed
  /\ phase[t] \in {"open", "closed"} /\ t \notin skipped /\ t \notin Silent
       /\ ~Opening(t) => Loaded(t)
  /\ phase[t] = "closed" =>
       /\ next[t] = Chunks[t] /\ DdlOf(t) = {}
       /\ pc # "shutdown" => t \in deferred \cup ready \cup ckpt
  /\ t \in deferred \cup ready => phase[t] = "closed" /\ t \notin skipped
  /\ t \in skipped => t \in completed
  /\ t \in completed /\ pc # "shutdown" => t \in ckpt

StreamInv == pc \in Running => \A t \in Tables : TableInv(t)

BackupInv ==
  /\ pc = "backup" => \E t \in Tables : cur = {t}
  /\ pc = "backup" => \A t \in cur :
       /\ phase[t] = "open" /\ next[t] = 0
       /\ t \notin skipped \cup completed \cup ckpt \cup Silent
       /\ DdlOf(t) = {} /\ ~Busy(t)
       /\ \A p \in pendingLoads : p.table # t
       /\ t \in backups
  /\ pc = "dropBackup" => \A t \in cur : "local" \in saved[t] => t \in mine

\* Once Done is handled nothing is outstanding; the end is a complete import.
WindUpPcs == {"restore", "dropBackup", "after", "cleanup", "shutdown"}

DoneInv ==
  /\ pc \in WindUpPcs => streamDone /\ ready = {}
  /\ pc \in Running /\ streamDone =>
       /\ pc \in WindUpPcs \cup {"finalize"}
       /\ pendingDdl = {} /\ pendingLoads = {} /\ deferred = {}
  /\ (pc \in Running /\ streamDone) \/ pc = "drainAll" =>
       \A t \in Tables : phase[t] = "closed"
  /\ pc = "drainAll" => ready = {}
  /\ pc = "loop" => ready = {}
  /\ pc \in {"backup", "drain", "oldest"} => ready = {}
  /\ pc \in {"after", "cleanup", "shutdown", "success"} => backups = {}
  /\ pc \in {"shutdown", "success"} => \A t \in Tables : Complete(t)

\* The preserved rows: before a table is dropped they are in its backup.
PreserveInv ==
  /\ mine \subseteq exists
  /\ hadLocal \subseteq Preserved
  /\ \A t \in backups \cap mine : "local" \in saved[t]
  /\ \A i \in Items : i.op = "ddl" /\ i.table \in hadLocal \ discarded =>
       i.table \in backups /\ "local" \in saved[i.table]
  /\ PreservedRowsSafe

Core ==
  /\ TicketInv /\ IdleInv /\ CkptInv /\ OrderInv /\ DdlInv
  /\ LoadInv /\ StreamInv /\ BackupInv /\ DoneInv /\ PreserveInv

\* Nothing is dropped that is checkpointed and nothing is lost on the way: the
\* conjunction is preserved by every step of the loop, the pool and a crash.
IInv == TypeOK /\ Core
=============================================================================
