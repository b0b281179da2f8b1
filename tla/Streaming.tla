----------------------------- MODULE Streaming -----------------------------
(***************************************************************************)
(* The server while it streams (server/src/traversal.rs, main.rs): worker  *)
(* threads and the traversal thread send messages into one bounded         *)
(* channel, the main thread writes them to stdout through a buffer, and a  *)
(* listener turns the client's Shutdown, or its disappearance, into a flag *)
(* the main thread looks at.  The client reads the other end of the pipe.  *)
(*                                                                         *)
(* Which tables there are, and who streams them, is settled (modules       *)
(* Traversal, Ownership); here a table is the sequence of its messages.    *)
(***************************************************************************)
EXTENDS Ownership, SequencesExt

CONSTANTS
  Chunks,     \* Data messages of each table
  Silent,     \* aggregate tables for which the traversal thread finds no row
  ChannelCap, \* the bound of the channel (num_workers * 4)
  BufCap,     \* the capacity of the MessageWriter, in messages
  PipeCap,    \* the capacity of the pipe
  MaxFaults   \* bound: failing queries and clients that leave

ASSUME StreamingAssumption ==
  /\ Chunks \in [Tables -> Nat]
  /\ Silent \subseteq Aggregate /\ Aggregate \subseteq Tables
  /\ \A t \in Silent \cup Excluded : Chunks[t] = 0
  /\ Crew \in Nat \ {0} /\ Turn \in [Workers -> 1 .. Crew]
  /\ ChannelCap \in Nat \ {0} /\ BufCap \in Nat \ {0} /\ PipeCap \in Nat \ {0}

VARIABLES
  todo,      \* tables each thread has still to stream in full
  thread,    \* how far each thread has got
  sent,      \* messages of each table its thread has handed over
  faults,
  chan,      \* the channel
  pc,        \* the main thread
  buf,       \* the MessageWriter's buffer
  out,       \* what write_all has still to put into the pipe
  interrupt, \* the listener's flag
  pipe,      \* stdout, as far as the client has not read it
  client,
  got        \* messages of each table the client has read

producers == <<todo, thread, sent>>
writing   == <<buf, out>>
reading   == <<client, got>>
vars      == <<producers, faults, chan, pc, writing, interrupt, pipe, reading>>

-----------------------------------------------------------------------------
(* Messages *)

\* Number of messages of a table.
Total(t) == Chunks[t] + (IF t \in Silent THEN 1 ELSE 2)

\* All of a table's messages, in order; the n-th stands for its contents.
Messages(t) ==
  [n \in 1 .. Total(t) |->
     [table |-> t, n |-> n,
      kind |-> IF n = Total(t) THEN "TableDone" ELSE IF n = 1 THEN "Schema" ELSE "Data"]]

Control(kind) == [kind |-> kind]

\* Still to be sent of a table, other than its TableDone.
RowsLeft(t) == sent[t] < Total(t) - 1
Unsent(t)   == sent[t] < Total(t)

\* SyncSender::send blocks while the channel is full.
Room == Len(chan) < ChannelCap

\* The receiver lives in stream_all_tables.
ReceiverDropped ==
  pc \notin {"excluded", "check", "recv", "flush", "join", "cut", "interrupted"}

-----------------------------------------------------------------------------
(* The producers *)

Hand(m) == Room /\ ~ReceiverDropped /\ chan' = Append(chan, m)

SendNext(t) ==
  /\ Hand(Messages(t)[sent[t] + 1])
  /\ sent' = [sent EXCEPT ![t] = @ + 1]

Started == pc # "excluded"

\* stream_full_table_to_channel, one message after the other.
SendFull(w) ==
  /\ Started
  /\ thread[w] = (IF w = Bfs THEN "spare" ELSE "run") /\ todo[w] # << >>
  /\ LET t == Head(todo[w])
     IN /\ SendNext(t)
        /\ todo' = IF sent[t] + 1 = Total(t)
                   THEN [todo EXCEPT ![w] = Tail(@)] ELSE todo
  /\ UNCHANGED <<thread, faults, pc, writing, interrupt, pipe, reading>>

\* run_aggregate_bfs: Schema with a table's first row, then its chunks.
SendRows(t) ==
  /\ Started /\ thread[Bfs] = "run" /\ t \in Aggregate /\ RowsLeft(t)
  /\ SendNext(t)
  /\ UNCHANGED <<todo, thread, faults, pc, writing, interrupt, pipe, reading>>

\* After the last level: TableDone for each table, in any order.
SendTableDone(t) ==
  /\ Started /\ thread[Bfs] = "run" /\ t \in Aggregate
  /\ \A u \in Aggregate : ~RowsLeft(u)
  /\ Unsent(t)
  /\ SendNext(t)
  /\ UNCHANGED <<todo, thread, faults, pc, writing, interrupt, pipe, reading>>

BfsToSpare ==
  /\ Started /\ thread[Bfs] = "run" /\ \A t \in Aggregate : ~Unsent(t)
  /\ thread' = [thread EXCEPT ![Bfs] = "spare"]
  /\ UNCHANGED <<todo, sent, faults, chan, pc, writing, interrupt, pipe, reading>>

ThreadEnds(w) ==
  /\ Started /\ thread[w] = (IF w = Bfs THEN "spare" ELSE "run") /\ todo[w] = << >>
  /\ thread' = [thread EXCEPT ![w] = "ok"]
  /\ UNCHANGED <<todo, sent, faults, chan, pc, writing, interrupt, pipe, reading>>

\* A query fails: a worker reports it through the channel.  The traversal
\* thread, and a worker that cannot connect or panics, show it in the result
\* of the thread only.
ThreadFails(w) ==
  /\ Started /\ thread[w] \in {"run", "spare"} /\ faults < MaxFaults
  /\ faults' = faults + 1
  /\ \E how \in IF w = Bfs THEN {"err"} ELSE {"report", "err"} :
       thread' = [thread EXCEPT ![w] = how]
  /\ UNCHANGED <<todo, sent, chan, pc, writing, interrupt, pipe, reading>>

ReportError(w) ==
  /\ thread[w] = "report"
  /\ Hand(Control("Error"))
  /\ thread' = [thread EXCEPT ![w] = "err"]
  /\ UNCHANGED <<todo, sent, faults, pc, writing, interrupt, pipe, reading>>

\* The receiver is gone: send returns at once, and so does the thread.
SendFails(w) ==
  /\ ReceiverDropped /\ thread[w] \in {"run", "spare", "report"}
  /\ thread' = [thread EXCEPT ![w] = "err"]
  /\ UNCHANGED <<todo, sent, faults, chan, pc, writing, interrupt, pipe, reading>>

Producer(w) ==
  \/ SendFull(w) \/ ThreadEnds(w) \/ ReportError(w) \/ SendFails(w)
  \/ /\ w = Bfs
     /\ BfsToSpare \/ \E t \in Tables : SendRows(t) \/ SendTableDone(t)

-----------------------------------------------------------------------------
(* The main thread *)

\* write_message_noflush: the buffer is flushed when it is full.
Buffer(m) ==
  IF Len(buf) + 1 >= BufCap THEN out' = Append(buf, m) /\ buf' = << >>
  ELSE buf' = Append(buf, m) /\ UNCHANGED out

\* Variant: a large chunk overtakes what the buffer holds.
PreencodedFirst(m, big) ==
  IF big THEN out' = <<m>> /\ UNCHANGED buf
  ELSE IF Len(buf) + 1 <= BufCap THEN buf' = Append(buf, m) /\ UNCHANGED out
  ELSE out' = buf /\ buf' = <<m>>

\* write_preencoded: what does not fit is preceded by a flush; what is larger
\* than the buffer is written through.
Preencoded(m, big) ==
  IF ~big /\ Len(buf) + 1 <= BufCap THEN buf' = Append(buf, m) /\ UNCHANGED out
  ELSE IF big THEN out' = Append(buf, m) /\ buf' = << >>
  ELSE out' = buf /\ buf' = <<m>>

Idle == out = << >>

\* Excluded tables are written before the threads start.
WriteExcluded(t) ==
  /\ pc = "excluded" /\ Idle /\ t \in Excluded /\ Unsent(t)
  /\ sent' = [sent EXCEPT ![t] = @ + 1]
  /\ Buffer(Messages(t)[sent[t] + 1])
  /\ UNCHANGED <<todo, thread, faults, chan, pc, interrupt, pipe, reading>>

SpawnThreads ==
  /\ pc = "excluded" /\ Idle /\ \A t \in Excluded : ~Unsent(t)
  /\ pc' = "check"
  /\ UNCHANGED <<producers, faults, chan, writing, interrupt, pipe, reading>>

CheckInterrupt ==
  /\ pc = "check" /\ Idle
  /\ pc' = IF interrupt THEN "cut" ELSE "recv"
  /\ UNCHANGED <<producers, faults, chan, writing, interrupt, pipe, reading>>

AllEnded == \A w \in Threads : thread[w] \in {"ok", "err"}

\* Variant: the main thread has kept a sender.
DisconnectedNever == FALSE

\* recv_timeout: all senders are dropped and the channel is empty.
Disconnected == chan = << >> /\ AllEnded

Recv ==
  /\ pc = "recv" /\ chan # << >>
  /\ chan' = Tail(chan)
  /\ LET m == Head(chan)
     IN \/ m.kind = "Data" /\ \E big \in BOOLEAN : Preencoded(m, big)
        \/ m.kind # "Data" /\ Buffer(m)
  /\ pc' = "check"
  /\ UNCHANGED <<producers, faults, interrupt, pipe, reading>>

RecvNothing ==
  /\ pc = "recv" /\ chan = << >>
  /\ pc' = IF Disconnected THEN "flush" ELSE "check"
  /\ UNCHANGED <<producers, faults, chan, writing, interrupt, pipe, reading>>

\* The loop is left: flush, then join the threads, unless it was interrupted.
Flush ==
  /\ pc \in {"flush", "cut"} /\ Idle
  /\ out' = buf /\ buf' = << >>
  /\ pc' = IF pc = "cut" THEN "interrupted" ELSE "join"
  /\ UNCHANGED <<producers, faults, chan, interrupt, pipe, reading>>

\* Variant: the results of the threads are not looked at.
LastMessageUnjoined == IF pc = "join" THEN "Done" ELSE "Partial"

\* The result of stream_all_tables decides the last message: Ok is Done; of
\* the errors, one that meets the flag is a Done without dispositions and keys.
LastMessage ==
  IF pc = "join" /\ \A w \in Threads : thread[w] = "ok" THEN "Done"
  ELSE IF interrupt THEN "Partial" ELSE "Error"

Finish ==
  /\ Idle
  /\ \/ pc = "join" /\ AllEnded
     \/ pc = "interrupted"
  /\ out' = Append(buf, Control(LastMessage)) /\ buf' = << >>
  /\ pc' = IF LastMessage = "Error" THEN "exit" ELSE "listener"
  /\ UNCHANGED <<producers, faults, chan, interrupt, pipe, reading>>

\* listener_handle.join(): the listener ends when it has set the flag.
JoinListener ==
  /\ pc = "listener" /\ Idle /\ interrupt
  /\ pc' = "exit"
  /\ UNCHANGED <<producers, faults, chan, writing, interrupt, pipe, reading>>

\* write_all, a message at a time, blocking on a full pipe.
WriteAll ==
  /\ ~Idle /\ Len(pipe) < PipeCap
  /\ pipe' = Append(pipe, Head(out))
  /\ out' = Tail(out)
  /\ UNCHANGED <<producers, faults, chan, pc, buf, interrupt, reading>>

\* Nobody reads any more: the write fails and the server ends.
WriteFails ==
  /\ ~Idle /\ client = "gone"
  /\ pc' = "exit" /\ out' = << >> /\ buf' = << >>
  /\ UNCHANGED <<producers, faults, chan, interrupt, pipe, reading>>

Main ==
  \/ (\E t \in Tables : WriteExcluded(t)) \/ SpawnThreads \/ CheckInterrupt
  \/ Recv \/ RecvNothing \/ Flush \/ Finish \/ JoinListener
  \/ WriteAll \/ WriteFails

-----------------------------------------------------------------------------
(* The listener and the client *)

\* Shutdown has arrived, or stdin is closed.
HangsUp == client \in {"shutdown", "gone"}

Listen ==
  /\ ~interrupt /\ HangsUp
  /\ interrupt' = TRUE
  /\ UNCHANGED <<producers, faults, chan, pc, writing, pipe, reading>>

\* The client's loop goes on after a recoverable error, as those of MySQL are.
ClientRead ==
  /\ client = "reading" /\ pipe # << >>
  /\ pipe' = Tail(pipe)
  /\ LET m == Head(pipe)
     IN /\ got' = IF m.kind \in {"Schema", "Data", "TableDone"}
                  THEN [got EXCEPT ![m.table] = Append(@, m)] ELSE got
        /\ \/ m.kind \in {"Done", "Partial"} /\ client' = "done"
           \/ m.kind = "Error" /\ client' \in {"reading", "gone"}
           \/ m.kind \in {"Schema", "Data", "TableDone"} /\ UNCHANGED client
  /\ UNCHANGED <<producers, faults, chan, pc, writing, interrupt>>

\* End of file before Done.
ClientEof ==
  /\ client = "reading" /\ pipe = << >> /\ pc = "exit" /\ Idle
  /\ client' = "gone"
  /\ UNCHANGED <<producers, faults, chan, pc, writing, interrupt, pipe, got>>

ClientShutdown ==
  /\ client = "done"
  /\ client' = "shutdown"
  /\ UNCHANGED <<producers, faults, chan, pc, writing, interrupt, pipe, got>>

\* Ctrl-C, a local error, or the client dies; it takes the connection along.
ClientLeaves ==
  /\ client \in {"reading", "done"} /\ faults < MaxFaults
  /\ faults' = faults + 1
  /\ client' = "gone"
  /\ UNCHANGED <<producers, chan, pc, writing, interrupt, pipe, got>>

Client == ClientRead \/ ClientEof \/ ClientShutdown

-----------------------------------------------------------------------------
Init ==
  /\ todo = [w \in Threads |-> Duty(w)]
  /\ thread = [w \in Threads |-> "run"]
  /\ sent = [t \in Tables |-> 0]
  /\ faults = 0 /\ chan = << >> /\ pc = "excluded" /\ buf = << >> /\ out = << >>
  /\ interrupt = FALSE /\ pipe = << >> /\ client = "reading"
  /\ got = [t \in Tables |-> << >>]

Over == pc = "exit" /\ Idle /\ client \in {"shutdown", "gone"} /\ UNCHANGED vars

Next ==
  \/ \E w \in Threads : Producer(w) \/ ThreadFails(w)
  \/ Main \/ Listen \/ Client \/ ClientLeaves \/ Over

Spec == Init /\ [][Next]_vars

\* Every thread runs when it can, and so does the client.
FairSpec ==
  /\ Spec
  /\ \A w \in Threads : WF_vars(Producer(w))
  /\ WF_vars(Main) /\ WF_vars(Listen) /\ WF_vars(Client)

-----------------------------------------------------------------------------
(* Properties *)

\* The client's view of the stream.
Contract ==
  INSTANCE TableStream WITH
    Content <- [t \in Tables |-> Messages(t)],
    status  <- IF client = "reading" THEN "open"
               ELSE IF client = "gone" THEN "left" ELSE "complete"

\* The client is delivered each table in order: Schema first, each chunk,
\* TableDone last, nothing twice; the stream ends as complete only when all has
\* arrived, and nothing arrives after that.  The message loop relies on it
\* (protocol.rs:522, 613), although messages pass through the channel, the buffer
\* and around it.
RefinesTableStream == Contract!Spec

\* A client that has read Done has read all of every table: neither a thread
\* that failed nor an interruption ends in a Done it would take for success.
DoneMeansAll ==
  client \in {"done", "shutdown"} => \A t \in Tables : got[t] = Messages(t)

\* Everyone ends.  The server does, also when the client disappears while threads, channel,
\* buffer and pipe are full; and the client does not wait for ever: it reads Done or meets
\* the end of the pipe.
EveryoneEnds == <>(pc = "exit" /\ Idle) /\ <>(client # "reading")
=============================================================================
