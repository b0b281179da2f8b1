------------------------------- MODULE Deploy -------------------------------
(***************************************************************************)
(* Getting a server to talk to (client/src/import.rs, ssh.rs, dry_run.rs,  *)
(* protocol/src/handshake.rs, server/src/main.rs): clients of several      *)
(* builds look for their server binary on one host, upload it when it is   *)
(* not there, start it, exchange version preambles and agree on a plan.    *)
(*                                                                         *)
(* The path of a binary is derived from its hash, so clients with the same *)
(* build meet in the same file and nothing locks it.  A file says for each *)
(* block whose bytes it holds: uploads write each from their own offset,   *)
(* and a block not written since the last truncation is a hole.  The       *)
(* remote shell and kernel are external: open-for-write truncates and is   *)
(* refused while the file is being executed, exec is refused while it is   *)
(* open for writing.                                                       *)
(* What travels after Start is the subject of Streaming and ImportClient.  *)
(***************************************************************************)
EXTENDS Naturals, Sequences

CONSTANTS
  Clients,
  Builds,         \* server binaries, each with a path of its own
  None,
  Carried,        \* a set of functions: the binary each client carries for
                  \* the architecture of the host, or None
  DryRun,         \* the clients started with --dry-run
  ClientVersion,  \* PROTOCOL_VERSION each client was built with
  ServerVersion,  \* ... each binary was built with; 0: before the handshake
  Blocks,         \* blocks of a binary
  MaxLeaves       \* bound: clients killed or disconnected

ASSUME DeployAssumption ==
  /\ None \notin Clients \cup Builds
  /\ Carried \subseteq [Clients -> Builds \cup {None}]
  /\ DryRun \subseteq Clients
  /\ ClientVersion \in [Clients -> Nat \ {0}]
  /\ ServerVersion \in [Builds -> Nat]
  /\ Blocks \in Nat \ {0}
  /\ MaxLeaves \in Nat

VARIABLES
  blocks,    \* the file at the path of each binary: whose bytes it holds
  exec,      \* ... and whether it has the x bit
  last,      \* history: the client that last opened the path for writing
  cat,       \* the remote `cat > path && chmod +x path` of each client
  at,        \* ... and the blocks it has written
  client,    \* how far each client is
  server,    \* the process each client has started
  image,     \* ... and the file it was started from
  toServer,  \* its stdin
  toClient,  \* its stdout
  leaves,
  embedded   \* the binaries the clients carry; never changes

disk == <<blocks, exec, last>>
upload == <<cat, at>>
pipes == <<toServer, toClient>>
vars == <<disk, upload, client, server, image, pipes, leaves, embedded>>

Ended == {"done", "failed", "gone"}
Agreed == {"init", "ready", "report", "stream", "done"}
ClientPhases == {"detect", "test", "open", "upload", "start", "greeting"} \cup Agreed \cup Ended
ServerPhases == {"none", "old", "greet", "hello", "first", "init", "catalog", "report",
                 "start", "stream", "listen", "exit"}
Framed == {"Credentials", "Init", "DryInit", "Start", "Shutdown",
           "Ready", "DryRunReport", "Done", "Error"}

Preamble(v) == [kind |-> "preamble", version |-> v]
Msg(k) == [kind |-> k, version |-> 0]

Content == [1 .. Blocks -> Builds \cup {None}]
Binary(b) == [i \in 1 .. Blocks |-> b]
Empty == Binary(None)

\* Variant: one path for all builds.
GetServerPathShared(b) == CHOOSE p \in Builds : TRUE

\* /tmp/jibs-<hash of the binary>: a path is named by the binary whose hash
\* it carries, and different binaries have different hashes.
GetServerPath(b) == b

Path(c) == GetServerPath(embedded[c])
\* The remote shell has the path open for writing.
Writing(b) == \E c \in Clients : Path(c) = b /\ cat[c] \in {"open", "cut"}
Alive(c) == server[c] \notin {"none", "exit"}
Executing(b) == \E c \in Clients : Path(c) = b /\ Alive(c)

Init ==
  /\ blocks = [b \in Builds |-> Empty]
  /\ exec = [b \in Builds |-> FALSE]
  /\ last = [b \in Builds |-> None]
  /\ cat = [c \in Clients |-> "none"]
  /\ at = [c \in Clients |-> 0]
  /\ client = [c \in Clients |-> "detect"]
  /\ server = [c \in Clients |-> "none"]
  /\ image = [c \in Clients |-> Empty]
  /\ toServer = [c \in Clients |-> <<>>]
  /\ toClient = [c \in Clients |-> <<>>]
  /\ leaves = 0
  /\ embedded \in Carried

(* ------------------------------ deployment ----------------------------- *)

\* uname -m, and the embedded binary for that architecture.
GetServerBinary(c) ==
  /\ client[c] = "detect"
  /\ client' = [client EXCEPT ![c] = IF embedded[c] = None THEN "failed" ELSE "test"]
  /\ UNCHANGED <<disk, upload, server, image, pipes, leaves>>

\* `test -x path`: an executable file is taken for the server.
TestExecutable(c) ==
  /\ client[c] = "test"
  /\ client' = [client EXCEPT ![c] = IF exec[Path(c)] THEN "start" ELSE "open"]
  /\ UNCHANGED <<disk, upload, server, image, pipes, leaves>>

\* The remote shell opens the path: it is emptied, its mode kept.
OpenUpload(c) ==
  /\ client[c] = "open" /\ ~Executing(Path(c))
  /\ client' = [client EXCEPT ![c] = "upload"]
  /\ blocks' = [blocks EXCEPT ![Path(c)] = Empty]
  /\ last' = [last EXCEPT ![Path(c)] = c]
  /\ cat' = [cat EXCEPT ![c] = "open"]
  /\ at' = [at EXCEPT ![c] = 0]
  /\ UNCHANGED <<exec, server, image, pipes, leaves>>

\* "Text file busy": the command fails, and the upload with it.
OpenRefused(c) ==
  /\ client[c] = "open" /\ Executing(Path(c))
  /\ client' = [client EXCEPT ![c] = "failed"]
  /\ UNCHANGED <<disk, upload, server, image, pipes, leaves>>

\* The remote cat has not had all of the binary yet.
Unwritten(c) == cat[c] \in {"open", "cut"} /\ at[c] < Blocks

WriteBlock(c) ==
  /\ Unwritten(c)
  /\ at' = [at EXCEPT ![c] = @ + 1]
  /\ blocks' = [blocks EXCEPT ![Path(c)] = [@ EXCEPT ![at[c] + 1] = embedded[c]]]
  /\ UNCHANGED <<exec, last, cat, client, server, image, pipes, leaves>>

\* cat ends at the end of its input: the client closes it after the last
\* block, a connection that breaks closes it anywhere.
CatMayEnd(c) == \/ cat[c] = "open" /\ at[c] = Blocks
                \/ cat[c] = "cut"

CatEnds(c) ==
  /\ CatMayEnd(c)
  /\ cat' = [cat EXCEPT ![c] = "closed"]
  /\ UNCHANGED <<disk, at, client, server, image, pipes, leaves>>

\* The client, if it is still there, learns that the command succeeded.
Chmod(c) ==
  /\ cat[c] = "closed"
  /\ cat' = [cat EXCEPT ![c] = "ended"]
  /\ exec' = [exec EXCEPT ![Path(c)] = TRUE]
  /\ client' = [client EXCEPT ![c] = IF @ = "upload" THEN "start" ELSE @]
  /\ UNCHANGED <<blocks, last, at, server, image, pipes, leaves>>

\* cat cannot write (the disk is full): no chmod, and the upload fails.
WriteFails(c) ==
  /\ Unwritten(c)
  /\ cat' = [cat EXCEPT ![c] = "ended"]
  /\ client' = [client EXCEPT ![c] = IF @ = "upload" THEN "failed" ELSE @]
  /\ UNCHANGED <<disk, at, server, image, pipes, leaves>>

(* --------------------- client: start, handshake, Init ------------------ *)

\* What exec finds at the path: nothing while somebody writes to it.
Image(c) == IF Writing(Path(c)) THEN Empty ELSE blocks[Path(c)]

\* ssh starts the command, and the client's preamble goes to its stdin.
\* Without its first block the file is not a program and ends at once.
StartProcess(c) ==
  /\ client[c] = "start"
  /\ image' = [image EXCEPT ![c] = Image(c)]
  /\ server' = [server EXCEPT ![c] =
        IF Image(c)[1] = None THEN "exit"
        ELSE IF ServerVersion[Image(c)[1]] = 0 THEN "old" ELSE "greet"]
  /\ toServer' = [toServer EXCEPT ![c] = <<Preamble(ClientVersion[c])>>]
  /\ client' = [client EXCEPT ![c] = "greeting"]
  /\ UNCHANGED <<disk, upload, toClient, leaves>>

\* Variant: any greeting will do.
ValidMagic(m, v) == m.kind = "preamble"

\* The peer's magic and version are this side's.
ValidPreamble(m, v) == m.kind = "preamble" /\ m.version = v

\* Both sides have written before they read.  The credentials follow at once.
AcceptGreeting(c) ==
  /\ client[c] = "greeting" /\ toClient[c] # <<>>
  /\ ValidPreamble(Head(toClient[c]), ClientVersion[c])
  /\ toClient' = [toClient EXCEPT ![c] = Tail(@)]
  /\ toServer' = [toServer EXCEPT ![c] = Append(@, Msg("Credentials"))]
  /\ client' = [client EXCEPT ![c] = "init"]
  /\ UNCHANGED <<disk, upload, server, image, leaves>>

RefuseGreeting(c) ==
  /\ client[c] = "greeting" /\ toClient[c] # <<>>
  /\ ~ValidPreamble(Head(toClient[c]), ClientVersion[c])
  /\ toClient' = [toClient EXCEPT ![c] = Tail(@)]
  /\ client' = [client EXCEPT ![c] = "failed"]
  /\ UNCHANGED <<disk, upload, server, image, toServer, leaves>>

\* Variant: the client waits for as long as it takes.
ImpatientNever(c) == FALSE

\* Ten seconds without a greeting; the server may only be slow.
Impatient(c) == client[c] = "greeting" /\ toClient[c] = <<>>

GreetingTimeout(c) ==
  /\ Impatient(c)
  /\ client' = [client EXCEPT ![c] = "failed"]
  /\ UNCHANGED <<disk, upload, server, image, pipes, leaves>>

SendInit(c) ==
  /\ client[c] = "init"
  /\ toServer' = [toServer EXCEPT ![c] =
                    Append(@, Msg(IF c \in DryRun THEN "DryInit" ELSE "Init"))]
  /\ client' = [client EXCEPT ![c] = "ready"]
  /\ UNCHANGED <<disk, upload, server, image, toClient, leaves>>

\* The phase an answer leads to: Ready, then the report of a dry run, or the
\* stream.  Anything else is an error.
AfterAnswer(c, k) ==
  CASE client[c] = "ready" /\ k = "Ready" -> IF c \in DryRun THEN "report" ELSE "stream"
    [] client[c] = "report" /\ k = "DryRunReport" -> "done"
    [] client[c] = "stream" /\ k = "Done" -> "done"
    [] OTHER -> "failed"

\* Start asks for the stream, Shutdown ends the conversation after it.
Receive(c) ==
  /\ client[c] \in {"ready", "report", "stream"} /\ toClient[c] # <<>>
  /\ LET next == AfterAnswer(c, Head(toClient[c]).kind)
     IN /\ client' = [client EXCEPT ![c] = next]
        /\ toServer' = [toServer EXCEPT ![c] =
             IF next = "stream" THEN Append(@, Msg("Start"))
             ELSE IF next = "done" /\ c \notin DryRun THEN Append(@, Msg("Shutdown"))
             ELSE @]
  /\ toClient' = [toClient EXCEPT ![c] = Tail(@)]
  /\ UNCHANGED <<disk, upload, server, image, leaves>>

\* During the stream an Error the server calls recoverable is only logged.
Warn(c) ==
  /\ client[c] = "stream" /\ toClient[c] # <<>> /\ Head(toClient[c]).kind = "Error"
  /\ toClient' = [toClient EXCEPT ![c] = Tail(@)]
  /\ UNCHANGED <<disk, upload, client, server, image, toServer, leaves>>

\* The server's end of the pipe is closed and everything has been read.
ClientReadsEof(c) ==
  /\ client[c] \in {"greeting", "ready", "report", "stream"}
  /\ server[c] = "exit" /\ toClient[c] = <<>>
  /\ client' = [client EXCEPT ![c] = "failed"]
  /\ UNCHANGED <<disk, upload, server, image, pipes, leaves>>

\* The client is killed, loses its connection, or fails in what it does
\* locally between these steps; its upload, if any, is cut short.
Leave(c) ==
  /\ client[c] \notin Ended /\ leaves < MaxLeaves
  /\ leaves' = leaves + 1
  /\ client' = [client EXCEPT ![c] = "gone"]
  /\ cat' = [cat EXCEPT ![c] = IF @ = "open" THEN "cut" ELSE @]
  /\ UNCHANGED <<disk, at, server, image, pipes>>

(* -------------------------------- server ------------------------------- *)

\* The version the code in the started image announces.
Version(c) == ServerVersion[image[c][1]]

\* The server of client c goes to phase p and writes the messages ms.
Serve(c, p, ms) ==
  /\ server' = [server EXCEPT ![c] = p]
  /\ toClient' = [toClient EXCEPT ![c] = @ \o ms]
  /\ UNCHANGED <<disk, upload, client, image, leaves>>

Greet(c) ==
  /\ server[c] = "greet"
  /\ Serve(c, "hello", <<Preamble(Version(c))>>)
  /\ UNCHANGED toServer

\* The client's preamble; on a mismatch a framed Error follows the greeting.
ReadPreamble(c) ==
  /\ server[c] = "hello" /\ toServer[c] # <<>>
  /\ IF ValidPreamble(Head(toServer[c]), Version(c))
     THEN Serve(c, "first", <<>>)
     ELSE Serve(c, "exit", <<Msg("Error")>>)
  /\ toServer' = [toServer EXCEPT ![c] = Tail(@)]

\* Variant: after the credentials only the plan of an import is taken.
AfterMessageNoDryRun(p, k) ==
  CASE p = "first" /\ k = "Credentials" -> "init"
    [] p = "first" /\ k \in {"Init", "DryInit"} -> "catalog"
    [] p = "init" /\ k = "Init" -> "catalog"
    [] p = "start" /\ k = "Start" -> "stream"
    [] p = "listen" /\ k # "Shutdown" -> "listen"
    [] OTHER -> "exit"

\* The phase a message leads to: Credentials and Init, or Init alone; Start;
\* the listener of the interrupt waits for Shutdown.  Any other message ends
\* the process.
AfterMessage(p, k) ==
  CASE p = "first" /\ k = "Credentials" -> "init"
    [] p \in {"first", "init"} /\ k \in {"Init", "DryInit"} -> "catalog"
    [] p = "start" /\ k = "Start" -> "stream"
    [] p = "listen" /\ k # "Shutdown" -> "listen"
    [] OTHER -> "exit"

ReadMessage(c) ==
  /\ server[c] \in {"first", "init", "start", "listen"} /\ toServer[c] # <<>>
  /\ Serve(c, AfterMessage(server[c], Head(toServer[c]).kind), <<>>)
  /\ toServer' = [toServer EXCEPT ![c] = Tail(@)]

\* The tables are known: Ready, and the report if it is a dry run.
Ready(c) ==
  /\ server[c] = "catalog"
  /\ Serve(c, IF c \in DryRun THEN "report" ELSE "start", <<Msg("Ready")>>)
  /\ UNCHANGED toServer

Report(c) ==
  /\ server[c] = "report"
  /\ Serve(c, "exit", <<Msg("DryRunReport")>>)
  /\ UNCHANGED toServer

StreamAll(c) ==
  /\ server[c] = "stream"
  /\ Serve(c, "listen", <<Msg("Done")>>)
  /\ UNCHANGED toServer

\* The source database refuses: the process just ends before the stream and
\* while its traverser is set up, during the stream the client is told.
SourceFails(c) ==
  /\ server[c] \in {"catalog", "report", "stream"}
  /\ \/ Serve(c, "exit", <<>>)
     \/ server[c] = "stream" /\ Serve(c, "exit", <<Msg("Error")>>)
  /\ UNCHANGED toServer

\* Reading, and the client's end of the pipe is closed.
ServerReadsEof(c) ==
  /\ server[c] \in {"old", "hello", "first", "init", "start", "listen"}
  /\ toServer[c] = <<>> \/ server[c] = "old"
  /\ client[c] \in Ended
  /\ Serve(c, "exit", <<>>)
  /\ UNCHANGED toServer

\* A server that predates the handshake may give up on the preamble it takes
\* for a frame; a program with a hole in it may crash.
ServerDies(c) ==
  /\ \/ server[c] = "old"
     \/ Alive(c) /\ image[c] # Binary(embedded[c])
  /\ Serve(c, "exit", <<>>)
  /\ UNCHANGED toServer

(* ---------------------------- specification ---------------------------- *)

ClientStep(c) ==
  \/ GetServerBinary(c) \/ TestExecutable(c) \/ OpenUpload(c) \/ OpenRefused(c)
  \/ StartProcess(c) \/ AcceptGreeting(c) \/ RefuseGreeting(c) \/ GreetingTimeout(c)
  \/ SendInit(c) \/ Receive(c) \/ Warn(c) \/ ClientReadsEof(c)
UploadStep(c) == WriteBlock(c) \/ CatEnds(c) \/ Chmod(c) \/ WriteFails(c)
ServerStep(c) ==
  \/ Greet(c) \/ ReadPreamble(c) \/ ReadMessage(c) \/ Ready(c) \/ Report(c)
  \/ StreamAll(c) \/ SourceFails(c) \/ ServerReadsEof(c)

Next ==
  /\ \E c \in Clients :
       ClientStep(c) \/ UploadStep(c) \/ ServerStep(c) \/ ServerDies(c) \/ Leave(c)
  /\ UNCHANGED embedded

Spec == Init /\ [][Next]_vars

\* Each process goes on while it can; nothing makes a client leave or a
\* server die.
FairSpec ==
  /\ Spec
  /\ \A c \in Clients : /\ WF_vars(ClientStep(c) /\ UNCHANGED embedded)
                        /\ WF_vars(UploadStep(c) /\ UNCHANGED embedded)
                        /\ WF_vars(ServerStep(c) /\ UNCHANGED embedded)

(* ------------------------------ properties ----------------------------- *)

Messages == [kind : Framed \cup {"preamble"}, version : Nat]

\* The types of the variables; in particular no upload writes more blocks
\* than the binary has (ssh.rs upload_file closes stdin after the last).
TypeOK ==
  /\ blocks \in [Builds -> Content] /\ exec \in [Builds -> BOOLEAN]
  /\ last \in [Builds -> Clients \cup {None}]
  /\ cat \in [Clients -> {"none", "open", "cut", "closed", "ended"}]
  /\ at \in [Clients -> 0 .. Blocks]
  /\ client \in [Clients -> ClientPhases]
  /\ server \in [Clients -> ServerPhases] /\ image \in [Clients -> Content]
  /\ toServer \in [Clients -> Seq(Messages)]
  /\ toClient \in [Clients -> Seq(Messages)]
  /\ leaves \in 0 .. MaxLeaves
  /\ embedded \in Carried

\* However many clients upload a binary to its path at once, what a client
\* starts is exactly the binary it carries, unless the upload that emptied the path last did
\* not reach its end: deploy_server locks nothing (ssh.rs upload_file writes
\* in place), so an early `test -x` may find a file that is emptied again.
RunsItsOwn ==
  \A c \in Clients : Alive(c) =>
    LET b == Path(c) IN
      /\ last[b] \in Clients
      /\ at[last[b]] = Blocks => image[c] = Binary(embedded[c])

\* Credentials and plans are only ever sent to, and answers accepted from, a
\* server with the client's own protocol version (perform_handshake on both
\* sides runs before any framed message).
PeersAgree ==
  \A c \in Clients :
    \/ client[c] \in Agreed
    \/ server[c] \in {"first", "init", "catalog", "report", "start", "stream", "listen"}
    \/ \E i \in DOMAIN toServer[c] : toServer[c][i].kind \in Framed
    => Version(c) = ClientVersion[c]

\* What a server reads next in each phase, and what it does not read at all.
ServerExpects(c) ==
  CASE server[c] \in {"greet", "hello"} -> {"preamble"}
    [] server[c] = "first" -> {"Credentials"}
    [] server[c] = "init" -> {IF c \in DryRun THEN "DryInit" ELSE "Init"}
    [] server[c] = "start" -> {"Start"}
    [] server[c] = "listen" -> {"Shutdown"}
    [] OTHER -> {}

\* What a client reads next in each phase; an Error only from a server that
\* gave up during the stream.
ClientExpects(c) ==
  CASE client[c] = "greeting" -> {"preamble"}
    [] client[c] = "ready" -> {"Ready"}
    [] client[c] = "report" -> {"DryRunReport"}
    [] client[c] = "stream" -> IF server[c] = "exit" THEN {"Done", "Error"} ELSE {"Done"}
    [] OTHER -> {}

\* Client and server take the messages in the order they were meant.  The
\* next message in each pipe is the one its reader's phase is for, and the
\* reader goes on with it: the Error and Unexpected-message arms of
\* protocol.rs, dry_run.rs and server main.rs are reached only through a
\* failing source.  This holds for what a client that is gone has left
\* behind, too; it does not speak of servers older than the handshake.  A
\* server that ends has read everything, unless its binary is incomplete.
InStep ==
  \A c \in Clients :
    /\ toServer[c] # <<>> /\ server[c] \notin {"old", "exit"} =>
         /\ Head(toServer[c]).kind \in ServerExpects(c)
         /\ server[c] \in {"first", "init", "start"} =>
              AfterMessage(server[c], Head(toServer[c]).kind) # "exit"
    /\ toClient[c] # <<>> /\ client[c] \notin {"failed", "gone"} =>
         /\ Head(toClient[c]).kind \in ClientExpects(c)
         /\ Head(toClient[c]).kind \notin {"preamble", "Error"} =>
              AfterAnswer(c, Head(toClient[c]).kind) # "failed"
    /\ server[c] = "exit" /\ toServer[c] # <<>> /\ client[c] \in Agreed =>
         image[c] # Binary(embedded[c])
    /\ client[c] = "done" => server[c] = "exit" \/ (server[c] = "listen" /\ c \notin DryRun)
    /\ server[c] = "stream" => client[c] \in {"stream", "gone"}

\* Every client ends with success or an error message and leaves neither a
\* process nor an upload behind on the host: the handshake cannot deadlock,
\* a silent or crashing server is noticed, a client that is gone is noticed.
RunsEnd ==
  \A c \in Clients :
    <>[](client[c] \in Ended /\ ~Alive(c) /\ cat[c] \in {"none", "ended"})
=============================================================================
