---------------------------- MODULE DeployProofs ----------------------------
(***************************************************************************)
(* For any clients, builds, versions and faults: a client that starts a    *)
(* server after the last upload to its path has reached its end runs its   *)
(* own binary, credentials only meet a server of the same version, and the *)
(* two take each other's messages in the order they were meant.            *)
(***************************************************************************)
EXTENDS Deploy, TLAPS

USE DeployAssumption

(* ------------------------------- types --------------------------------- *)

\* A client that has got past looking for its binary carries one, and so does
\* every upload and every process; a process has the first block.
Carries ==
  \A c \in Clients :
    /\ client[c] \notin {"detect"} \cup Ended => embedded[c] \in Builds
    /\ cat[c] # "none" => embedded[c] \in Builds
    /\ Alive(c) => embedded[c] \in Builds /\ image[c][1] \in Builds

TypeInv == TypeOK /\ Carries

\* The initial state is well typed.
LEMMA TypeInit == Init => TypeInv
BY DEF Init, TypeInv, TypeOK, Carries, Content, Empty, Binary, ClientPhases, ServerPhases,
   Alive, Ended

\* A file has its blocks, a message its fields.
LEMMA Shapes ==
  /\ Empty \in Content
  /\ \A f \in Content : f[1] \in Builds \cup {None}
  /\ \A k \in Framed : Msg(k) \in Messages /\ Msg(k).kind = k
  /\ \A v \in Nat : /\ Preamble(v) \in Messages
                    /\ Preamble(v).kind = "preamble" /\ Preamble(v).version = v
BY DEF Empty, Binary, Content, Msg, Messages, Preamble

\* Reading a message from a pipe and writing one to it.
LEMMA PipeTypes ==
  ASSUME NEW f \in [Clients -> Seq(Messages)], NEW c \in Clients
  PROVE  /\ f[c] # <<>> => [f EXCEPT ![c] = Tail(@)] \in [Clients -> Seq(Messages)]
         /\ \A m \in Messages : [f EXCEPT ![c] = Append(@, m)] \in [Clients -> Seq(Messages)]
         /\ \A m \in Messages : [f EXCEPT ![c] = <<m>>] \in [Clients -> Seq(Messages)]
         /\ \A ms \in Seq(Messages) : [f EXCEPT ![c] = @ \o ms] \in [Clients -> Seq(Messages)]
OBVIOUS

\* Every step of a client keeps the types.
LEMMA TypeClient ==
  ASSUME TypeInv, UNCHANGED embedded, NEW c \in Clients, ClientStep(c)
  PROVE  TypeInv'
<1> USE DEF TypeInv, TypeOK, Carries, disk, upload, pipes, ClientPhases, ServerPhases,
            Ended, Agreed, Alive
<1>1. CASE GetServerBinary(c)
  BY <1>1 DEF GetServerBinary
<1>2. CASE TestExecutable(c)
  BY <1>2 DEF TestExecutable
<1>3. CASE OpenUpload(c)
  <2>1. embedded[c] \in Builds /\ Path(c) = embedded[c]
    BY <1>3 DEF OpenUpload, Path, GetServerPath
  <2>2. blocks' \in [Builds -> Content]
    BY <1>3, <2>1, Shapes DEF OpenUpload
  <2>3. last' \in [Builds -> Clients \cup {None}]
    BY <1>3, <2>1 DEF OpenUpload
  <2>4. at' \in [Clients -> 0 .. Blocks]
    BY <1>3 DEF OpenUpload
  <2>5. Carries'
    BY <1>3, <2>1 DEF OpenUpload
  <2> QED
    BY <1>3, <2>2, <2>3, <2>4, <2>5 DEF OpenUpload
<1>4. CASE StartProcess(c)
  <2>1. Image(c) \in Content /\ Image(c)[1] \in Builds \cup {None}
    BY <1>4, Shapes DEF StartProcess, Image, Path, GetServerPath
  <2>2. Preamble(ClientVersion[c]) \in Messages
    BY Shapes
  <2>3. toServer' \in [Clients -> Seq(Messages)]
    BY <1>4, <2>2, PipeTypes DEF StartProcess
  <2>4. server' \in [Clients -> ServerPhases] /\ image' \in [Clients -> Content]
    BY <1>4, <2>1 DEF StartProcess
  <2>5. TypeOK'
    BY <1>4, <2>3, <2>4 DEF StartProcess
  <2>6. Carries'
    BY <1>4, <2>1 DEF StartProcess
  <2> QED
    BY <2>5, <2>6
<1>5. CASE AcceptGreeting(c)
  <2>1. toClient' \in [Clients -> Seq(Messages)]
    BY <1>5, PipeTypes DEF AcceptGreeting
  <2>2. Msg("Credentials") \in Messages
    BY Shapes DEF Framed
  <2>3. toServer' \in [Clients -> Seq(Messages)]
    BY <1>5, <2>2, PipeTypes DEF AcceptGreeting
  <2> QED
    BY <1>5, <2>1, <2>3 DEF AcceptGreeting
<1>6. CASE GreetingTimeout(c)
  BY <1>6 DEF GreetingTimeout, Impatient
<1>7. CASE SendInit(c)
  BY <1>7, Shapes, PipeTypes DEF SendInit, Framed
<1>8. CASE Receive(c)
  <2>1. /\ toClient' \in [Clients -> Seq(Messages)]
        /\ toServer' \in [Clients -> Seq(Messages)]
    BY <1>8, Shapes, PipeTypes DEF Receive, AfterAnswer, Framed
  <2> QED
    BY <1>8, <2>1 DEF Receive, AfterAnswer
<1>9. CASE ClientReadsEof(c)
  BY <1>9 DEF ClientReadsEof
<1>10. CASE OpenRefused(c)
  BY <1>10 DEF OpenRefused
<1>11. CASE RefuseGreeting(c)
  BY <1>11 DEF RefuseGreeting
<1>12. CASE Warn(c)
  BY <1>12 DEF Warn
<1> QED
  BY <1>1, <1>2, <1>3, <1>4, <1>5, <1>6, <1>7, <1>8, <1>9, <1>10, <1>11, <1>12 DEF ClientStep

\* Every step of an upload keeps the types.
LEMMA TypeUpload ==
  ASSUME TypeInv, UNCHANGED embedded, NEW c \in Clients, UploadStep(c)
  PROVE  TypeInv'
<1> USE DEF TypeInv, TypeOK, Carries, disk, upload, pipes, Content, ClientPhases, Ended, Agreed, Alive
<1>1. CASE WriteBlock(c)
  BY <1>1 DEF WriteBlock, Unwritten, Path, GetServerPath
<1>2. CASE CatEnds(c)
  BY <1>2 DEF CatEnds, CatMayEnd
<1>3. CASE Chmod(c)
  BY <1>3 DEF Chmod, Path, GetServerPath
<1>4. CASE WriteFails(c)
  BY <1>4 DEF WriteFails, Unwritten
<1> QED
  BY <1>1, <1>2, <1>3, <1>4 DEF UploadStep

\* A server's step that writes messages and does not come back to life.
LEMMA TypeServe ==
  ASSUME TypeInv, UNCHANGED embedded, NEW c \in Clients, Alive(c),
         NEW p \in ServerPhases, NEW ms \in Seq(Messages), Serve(c, p, ms),
         toServer' \in [Clients -> Seq(Messages)]
  PROVE  TypeInv'
<1>1. toClient' \in [Clients -> Seq(Messages)]
  BY PipeTypes DEF TypeInv, TypeOK, Serve
<1> QED
  BY <1>1 DEF TypeInv, TypeOK, Carries, disk, upload, Serve, Alive

\* Every step of a server keeps the types.
LEMMA TypeServer ==
  ASSUME TypeInv, UNCHANGED embedded, NEW c \in Clients, ServerStep(c) \/ ServerDies(c)
  PROVE  TypeInv'
<1> DEFINE T == [Clients -> Seq(Messages)]
<1>0. /\ toServer \in T
      /\ <<>> \in Seq(Messages)
      /\ \A k \in Framed : <<Msg(k)>> \in Seq(Messages)
      /\ Alive(c) => <<Preamble(Version(c))>> \in Seq(Messages)
      /\ toServer[c] # <<>> => [toServer EXCEPT ![c] = Tail(@)] \in T
  BY Shapes, PipeTypes DEF TypeInv, TypeOK, Carries, Version
<1> USE DEF ServerPhases, Alive
<1>1. CASE Greet(c)
  BY <1>0, <1>1, TypeServe DEF Greet
<1>2. CASE ReadPreamble(c)
  BY <1>0, <1>2, TypeServe DEF ReadPreamble, Framed
<1>3. CASE ReadMessage(c)
  <2>1. AfterMessage(server[c], Head(toServer[c]).kind) \in ServerPhases
    BY DEF AfterMessage
  <2>2. Alive(c) /\ toServer' \in T
    BY <1>0, <1>3 DEF ReadMessage
  <2>3. Serve(c, AfterMessage(server[c], Head(toServer[c]).kind), <<>>)
    BY <1>3 DEF ReadMessage
  <2> HIDE DEF ServerPhases, Alive
  <2> QED
    BY <1>0, <2>1, <2>2, <2>3, TypeServe
<1>4. CASE Ready(c)
  BY <1>0, <1>4, TypeServe DEF Ready, Framed
<1>5. CASE Report(c)
  BY <1>0, <1>5, TypeServe DEF Report, Framed
<1>6. CASE StreamAll(c)
  BY <1>0, <1>6, TypeServe DEF StreamAll, Framed
<1>7. CASE SourceFails(c)
  BY <1>0, <1>7, TypeServe DEF SourceFails, Framed
<1>8. CASE ServerReadsEof(c)
  BY <1>0, <1>8, TypeServe DEF ServerReadsEof
<1>9. CASE ServerDies(c)
  BY <1>0, <1>9, TypeServe DEF ServerDies
<1> QED
  BY <1>1, <1>2, <1>3, <1>4, <1>5, <1>6, <1>7, <1>8, <1>9 DEF ServerStep

\* A client that leaves keeps the types.
LEMMA TypeLeave ==
  ASSUME TypeInv, UNCHANGED embedded, NEW c \in Clients, Leave(c)
  PROVE  TypeInv'
BY DEF Leave, TypeInv, TypeOK, Carries, disk, upload, pipes, ClientPhases, Ended, Agreed, Alive

\* The strengthened type invariant is inductive.
THEOREM TypeInvariant == Spec => []TypeInv
<1>1. TypeInv /\ [Next]_vars => TypeInv'
  <2> SUFFICES ASSUME TypeInv, [Next]_vars PROVE TypeInv'
    OBVIOUS
  <2>1. CASE UNCHANGED vars
    BY <2>1 DEF vars, disk, upload, pipes, TypeInv, TypeOK, Carries, Alive
  <2>2. CASE Next
    BY <2>2, TypeClient, TypeUpload, TypeServer, TypeLeave DEF Next
  <2> QED
    BY <2>1, <2>2
<1> QED
  BY <1>1, TypeInit, PTL DEF Spec

\* The variables keep their types whatever clients, shells and servers do.
THEOREM DeployTypeCorrect == Spec => []TypeOK
<1>1. TypeInv => TypeOK
  BY DEF TypeInv
<1> QED
  BY <1>1, TypeInvariant, PTL

(* ---------------------------- what is executed ------------------------- *)

\* The file holds everything the upload that emptied it last has written.
FileInv ==
  \A b \in Builds :
    /\ last[b] = None => blocks[b] = Empty
    /\ last[b] # None => /\ embedded[last[b]] = b
                        /\ \A i \in 1 .. at[last[b]] : blocks[b][i] = b

\* A file that is being executed is not open for writing, and has not changed
\* since the process was started.
ImageInv ==
  /\ \A c \in Clients : cat[c] # "none" => last[embedded[c]] # None
  /\ \A c \in Clients : Alive(c) =>
       /\ last[embedded[c]] # None
       /\ image[c] = blocks[embedded[c]]
       /\ \A d \in Clients : embedded[d] = embedded[c] => cat[d] \notin {"open", "cut"}

ExecInv == FileInv /\ ImageInv

\* Opening the path: nobody is executing it.
LEMMA ExecOpen ==
  ASSUME TypeInv, ExecInv, UNCHANGED embedded, NEW c \in Clients, OpenUpload(c)
  PROVE  ExecInv'
<1> USE DEF ExecInv, TypeInv, TypeOK, Carries, Ended
<1>1. embedded[c] \in Builds /\ Path(c) = embedded[c]
  BY DEF OpenUpload, Path, GetServerPath
<1>2. \A d \in Clients : Alive(d) => embedded[d] # embedded[c]
  BY <1>1 DEF OpenUpload, Executing, Path, GetServerPath
<1>3. FileInv'
  BY <1>1 DEF OpenUpload, FileInv, pipes
<1>4. ImageInv'
  BY <1>1, <1>2 DEF OpenUpload, ImageInv, Alive, pipes
<1> QED
  BY <1>3, <1>4

\* Writing a block: nobody is executing the file.
LEMMA ExecWrite ==
  ASSUME TypeInv, ExecInv, UNCHANGED embedded, NEW c \in Clients, WriteBlock(c)
  PROVE  ExecInv'
<1> USE DEF ExecInv, TypeInv, TypeOK, Carries
<1>1. embedded[c] \in Builds /\ Path(c) = embedded[c] /\ at[c] + 1 \in 1 .. Blocks
  BY DEF WriteBlock, Unwritten, Path, GetServerPath
<1>2. last[embedded[c]] # None
  BY DEF ImageInv, WriteBlock, Unwritten
<1>3. \A d \in Clients : Alive(d) => embedded[d] # embedded[c]
  BY DEF ImageInv, WriteBlock, Unwritten
<1>4. \A b \in Builds : \A i \in 1 .. Blocks :
        blocks'[b][i] = IF b = embedded[c] /\ i = at[c] + 1 THEN b ELSE blocks[b][i]
  BY <1>1 DEF WriteBlock, Content
<1>5. \A b \in Builds : b # embedded[c] => blocks'[b] = blocks[b]
  BY <1>1 DEF WriteBlock
<1>6. FileInv'
  BY <1>1, <1>2, <1>4, <1>5 DEF WriteBlock, FileInv
<1>7. ImageInv'
  BY <1>1, <1>3, <1>5 DEF WriteBlock, ImageInv, Alive, disk, pipes
<1> QED
  BY <1>6, <1>7

\* Starting a process: nobody has the file open.
LEMMA ExecStart ==
  ASSUME TypeInv, ExecInv, UNCHANGED embedded, NEW c \in Clients, StartProcess(c)
  PROVE  ExecInv'
<1> USE DEF ExecInv, TypeInv, TypeOK, Carries, Ended
<1>1. embedded[c] \in Builds /\ Path(c) = embedded[c]
  BY DEF StartProcess, Path, GetServerPath
<1>2. Empty[1] = None
  BY DEF Empty, Binary
<1>3. FileInv'
  BY DEF StartProcess, FileInv, disk, upload
<1>4. Alive(c)' => /\ image'[c] = blocks[embedded[c]]
                   /\ last[embedded[c]] # None
                   /\ ~Writing(Path(c))
  BY <1>1, <1>2 DEF StartProcess, Alive, Image, FileInv
<1>5. Alive(c)' => \A d \in Clients : embedded[d] = embedded[c] => cat[d] \notin {"open", "cut"}
  BY <1>1, <1>4 DEF Writing, Path, GetServerPath
<1>6. ImageInv'
  BY <1>4, <1>5 DEF StartProcess, ImageInv, Alive, disk, upload
<1> QED
  BY <1>3, <1>6

\* Any other step opens no file, writes none and starts no process.
LEMMA ExecOther ==
  ASSUME TypeInv, ExecInv, UNCHANGED <<embedded, blocks, last, at, image>>,
         cat' \in [Clients -> {"none", "open", "cut", "closed", "ended"}],
         \A d \in Clients : /\ cat[d] = "none" => cat'[d] = "none"
                            /\ cat[d] \notin {"open", "cut"} => cat'[d] \notin {"open", "cut"}
                            /\ Alive(d)' => Alive(d)
  PROVE  ExecInv'
<1>1. FileInv'
  BY DEF ExecInv, FileInv
<1>2. ImageInv'
  BY DEF ExecInv, ImageInv
<1> QED
  BY <1>1, <1>2 DEF ExecInv

\* The steps of clients, uploads and servers other than those three.
LEMMA ExecStep == TypeInv /\ ExecInv /\ [Next]_vars => ExecInv'
<1> SUFFICES ASSUME TypeInv, ExecInv, [Next]_vars PROVE ExecInv'
  OBVIOUS
<1>1. CASE UNCHANGED vars
  BY <1>1 DEF vars, disk, upload, pipes, ExecInv, FileInv, ImageInv, Alive
<1>2. ASSUME NEW c \in Clients, UNCHANGED embedded,
             ClientStep(c) \/ UploadStep(c) \/ ServerStep(c) \/ ServerDies(c) \/ Leave(c)
      PROVE  ExecInv'
  <2> USE <1>2
  <2>1. CASE OpenUpload(c) \/ WriteBlock(c) \/ StartProcess(c)
    BY <2>1, ExecOpen, ExecWrite, ExecStart
  <2> DEFINE Quiet == /\ UNCHANGED <<embedded, blocks, last, at, image>>
                      /\ cat' \in [Clients -> {"none", "open", "cut", "closed", "ended"}]
                      /\ \A d \in Clients :
                           /\ cat[d] = "none" => cat'[d] = "none"
                           /\ cat[d] \notin {"open", "cut"} => cat'[d] \notin {"open", "cut"}
                           /\ Alive(d)' => Alive(d)
  <2> USE DEF TypeInv, TypeOK, disk, upload, pipes, Alive
  <2>2. CASE \/ GetServerBinary(c) \/ TestExecutable(c) \/ OpenRefused(c)
             \/ AcceptGreeting(c) \/ RefuseGreeting(c) \/ GreetingTimeout(c)
             \/ SendInit(c) \/ Receive(c) \/ Warn(c) \/ ClientReadsEof(c)
    <3>1. UNCHANGED <<embedded, disk, upload, server, image>>
      BY <2>2 DEF GetServerBinary, TestExecutable, OpenRefused, AcceptGreeting,
           RefuseGreeting, GreetingTimeout, SendInit, Receive, AfterAnswer, Warn, ClientReadsEof
    <3> QED
      BY <3>1, ExecOther
  <2>3. CASE CatEnds(c) \/ Chmod(c) \/ WriteFails(c) \/ Leave(c)
    <3>1. Quiet
      BY <2>3 DEF CatEnds, Chmod, WriteFails, Leave, CatMayEnd, Unwritten
    <3> QED
      BY <3>1, ExecOther
  <2>4. CASE ServerStep(c) \/ ServerDies(c)
    <3>1. server[c] \notin {"none", "exit"} /\ UNCHANGED <<disk, upload, image>>
      BY <2>4 DEF ServerStep, Greet, ReadPreamble, ReadMessage, Ready, Report, StreamAll,
           SourceFails, ServerReadsEof, ServerDies, Serve
    <3>2. \A d \in Clients : d # c => server'[d] = server[d]
      BY <2>4 DEF ServerStep, Greet, ReadPreamble, ReadMessage, Ready, Report, StreamAll,
           SourceFails, ServerReadsEof, ServerDies, Serve
    <3>3. Quiet
      BY <3>1, <3>2
    <3> QED
      BY <3>3, ExecOther
  <2> QED
    BY <2>1, <2>2, <2>3, <2>4 DEF ClientStep, UploadStep
<1> QED
  BY <1>1, <1>2 DEF Next

\* However many clients deploy at once, and wherever uploads fail: what a
\* client runs is its own binary if the upload that emptied its path last
\* got to its end.
THEOREM ClientsRunTheirOwn == Spec => []RunsItsOwn
<1>1. Init => ExecInv
  BY DEF Init, ExecInv, FileInv, ImageInv, Alive
<1>2. TypeInv /\ ExecInv => RunsItsOwn
  <2> SUFFICES ASSUME TypeInv, ExecInv, NEW c \in Clients, Alive(c)
               PROVE  /\ last[Path(c)] \in Clients
                      /\ at[last[Path(c)]] = Blocks => image[c] = Binary(embedded[c])
    BY DEF RunsItsOwn
  <2>1. embedded[c] \in Builds /\ Path(c) = embedded[c] /\ last[embedded[c]] # None
    BY DEF TypeInv, Carries, ExecInv, ImageInv, Path, GetServerPath
  <2>2. last[Path(c)] \in Clients
    BY <2>1 DEF TypeInv, TypeOK
  <2>3. ASSUME at[last[Path(c)]] = Blocks PROVE image[c] = Binary(embedded[c])
    <3>1. image[c] = blocks[embedded[c]] /\ image[c] \in Content
      BY DEF TypeInv, TypeOK, ExecInv, ImageInv
    <3>2. \A i \in 1 .. Blocks : image[c][i] = embedded[c]
      BY <2>1, <2>3, <3>1 DEF ExecInv, FileInv
    <3> QED
      BY <3>1, <3>2 DEF Binary, Content
  <2> QED
    BY <2>2, <2>3
<1> QED
  BY <1>1, <1>2, ExecStep, TypeInvariant, PTL DEF Spec

(* ----------------------------- the handshake --------------------------- *)

Serving == {"first", "init", "catalog", "report", "start", "stream", "listen"}

\* Before the process is started the pipes are empty; afterwards a preamble in
\* a pipe tells the version of its sender; and what PeersAgree says.
QuietBefore(c) ==
  client[c] \in {"detect", "test", "open", "upload", "start"} =>
    server[c] = "none" /\ toServer[c] = <<>> /\ toClient[c] = <<>>
HonestClient(c) ==
  \A i \in DOMAIN toServer[c] :
    /\ toServer[c][i].kind = "preamble" => toServer[c][i].version = ClientVersion[c]
    /\ toServer[c][i].kind \in Framed => Version(c) = ClientVersion[c]
HonestServer(c) ==
  \A i \in DOMAIN toClient[c] :
    toClient[c][i].kind = "preamble" => toClient[c][i].version = Version(c)
SameVersion(c) ==
  client[c] \in Agreed \/ server[c] \in Serving => Version(c) = ClientVersion[c]

AgreeOf(c) == QuietBefore(c) /\ HonestClient(c) /\ HonestServer(c) /\ SameVersion(c)

\* The elements of a pipe after a message is read or written.
LEMMA PipeElements ==
  ASSUME NEW s \in Seq(Messages)
  PROVE  /\ s # <<>> => /\ 1 \in DOMAIN s /\ Head(s) = s[1]
                        /\ \A i \in DOMAIN Tail(s) : i + 1 \in DOMAIN s /\ Tail(s)[i] = s[i + 1]
         /\ \A m \in Messages : \A i \in DOMAIN Append(s, m) :
              Append(s, m)[i] = m \/ (i \in DOMAIN s /\ Append(s, m)[i] = s[i])
         /\ \A m \in Messages : s \o <<m>> = Append(s, m)
         /\ s \o <<>> = s
OBVIOUS

\* A step of one client leaves the others alone.
LEMMA AgreeFrame ==
  ASSUME NEW d \in Clients, AgreeOf(d), client'[d] = client[d], server'[d] = server[d],
         image'[d] = image[d], toServer'[d] = toServer[d], toClient'[d] = toClient[d]
  PROVE  AgreeOf(d)'
BY DEF AgreeOf, QuietBefore, HonestClient, HonestServer, SameVersion, Version

\* A step of the client after its process was started, or of one that ends.
LEMMA AgreeClient ==
  ASSUME TypeInv, NEW c \in Clients, AgreeOf(c), ClientStep(c) \/ Leave(c)
  PROVE  AgreeOf(c)'
<1> USE DEF AgreeOf, SameVersion, Version
<1> toServer[c] \in Seq(Messages) /\ toClient[c] \in Seq(Messages)
  BY DEF TypeInv, TypeOK
<1> client \in [Clients -> ClientPhases] /\ server \in [Clients -> ServerPhases]
    /\ image \in [Clients -> Content]
    /\ toServer \in [Clients -> Seq(Messages)] /\ toClient \in [Clients -> Seq(Messages)]
  BY DEF TypeInv, TypeOK
<1> USE DEF disk, upload, pipes, Agreed, Ended
<1>1. CASE \/ GetServerBinary(c) \/ TestExecutable(c) \/ OpenUpload(c) \/ OpenRefused(c)
           \/ GreetingTimeout(c) \/ ClientReadsEof(c) \/ Leave(c)
  <2>1. /\ UNCHANGED <<server, image, toServer, toClient>>
        /\ client'[c] \in {"failed", "gone", "test", "start", "open", "upload"}
        /\ client'[c] \in {"test", "start", "open", "upload"} =>
             client[c] \in {"detect", "test", "open", "upload", "start"}
    BY <1>1 DEF GetServerBinary, TestExecutable, OpenUpload, OpenRefused, GreetingTimeout,
         Impatient, ClientReadsEof, Leave
  <2> QED
    BY <2>1 DEF QuietBefore, HonestClient, HonestServer
<1>2. CASE StartProcess(c)
  <2>1. /\ toServer'[c] = <<Preamble(ClientVersion[c])>> /\ toClient'[c] = <<>>
        /\ client'[c] = "greeting" /\ server'[c] \in {"exit", "old", "greet"}
    BY <1>2 DEF StartProcess, QuietBefore
  <2>2. HonestClient(c)'
    BY <2>1 DEF HonestClient, Preamble, Framed
  <2> QED
    BY <2>1, <2>2 DEF QuietBefore, HonestServer, Serving
<1>3. CASE AcceptGreeting(c)
  <2>1. /\ UNCHANGED <<server, image>> /\ client'[c] = "init"
        /\ toClient[c] # <<>> /\ toClient'[c] = Tail(toClient[c])
        /\ toServer'[c] = Append(toServer[c], Msg("Credentials"))
        /\ ValidPreamble(Head(toClient[c]), ClientVersion[c])
    BY <1>3 DEF AcceptGreeting
  <2>2. Version(c) = ClientVersion[c]
    BY <2>1, PipeElements DEF ValidPreamble, HonestServer
  <2>3. Msg("Credentials") \in Messages /\ Msg("Credentials").kind = "Credentials"
    BY Shapes DEF Framed
  <2>4. HonestClient(c)'
    BY <2>1, <2>2, <2>3, PipeElements DEF HonestClient
  <2>5. HonestServer(c)'
    BY <2>1, PipeElements DEF HonestServer
  <2> QED
    BY <2>1, <2>2, <2>4, <2>5 DEF QuietBefore
<1>4. CASE RefuseGreeting(c)
  <2>1. /\ UNCHANGED <<server, image, toServer>> /\ client'[c] = "failed"
        /\ toClient[c] # <<>> /\ toClient'[c] = Tail(toClient[c])
    BY <1>4 DEF RefuseGreeting
  <2>2. HonestServer(c)'
    BY <2>1, PipeElements DEF HonestServer
  <2> QED
    BY <2>1, <2>2 DEF QuietBefore, HonestClient
<1>5. CASE SendInit(c)
  <2>1. PICK k \in {"DryInit", "Init"} : toServer'[c] = Append(toServer[c], Msg(k))
    BY <1>5 DEF SendInit
  <2>2. /\ UNCHANGED <<server, image, toClient>>
        /\ client[c] = "init" /\ client'[c] = "ready"
    BY <1>5 DEF SendInit
  <2>3. Msg(k) \in Messages /\ Msg(k).kind = k /\ k # "preamble"
    BY Shapes DEF Framed
  <2>4. HonestClient(c)'
    BY <2>1, <2>2, <2>3, PipeElements DEF HonestClient
  <2> QED
    BY <2>2, <2>4 DEF QuietBefore, HonestServer
<1>6. CASE Receive(c)
  <2>1. /\ UNCHANGED <<server, image>>
        /\ client[c] \in Agreed /\ client'[c] \in {"report", "stream", "done", "failed"}
        /\ toClient[c] # <<>> /\ toClient'[c] = Tail(toClient[c])
    BY <1>6 DEF Receive, AfterAnswer
  <2>2. PICK k \in {"Start", "Shutdown"} :
          toServer'[c] = toServer[c] \/ toServer'[c] = Append(toServer[c], Msg(k))
    BY <1>6 DEF Receive, AfterAnswer
  <2>3. Msg(k) \in Messages /\ Msg(k).kind = k /\ k # "preamble"
    BY Shapes DEF Framed
  <2>4. HonestClient(c)'
    <3>1. CASE toServer'[c] = toServer[c]
      BY <2>1, <3>1 DEF HonestClient
    <3>2. CASE toServer'[c] = Append(toServer[c], Msg(k))
      BY <2>1, <2>3, <3>2, PipeElements DEF HonestClient
    <3> QED
      BY <2>2, <3>1, <3>2
  <2>5. HonestServer(c)'
    BY <2>1, PipeElements DEF HonestServer
  <2> QED
    BY <2>1, <2>4, <2>5 DEF QuietBefore
<1>7. CASE Warn(c)
  <2>1. /\ UNCHANGED <<client, server, image, toServer>>
        /\ toClient[c] # <<>> /\ toClient'[c] = Tail(toClient[c])
        /\ client[c] = "stream"
    BY <1>7 DEF Warn
  <2>2. HonestServer(c)'
    BY <2>1, PipeElements DEF HonestServer
  <2> QED
    BY <2>1, <2>2 DEF QuietBefore, HonestClient
<1> QED
  BY <1>1, <1>2, <1>3, <1>4, <1>5, <1>6, <1>7 DEF ClientStep

\* A step of the server that the client has started.
LEMMA AgreeServe ==
  ASSUME TypeInv, NEW c \in Clients, AgreeOf(c), Alive(c), NEW p, NEW ms, Serve(c, p, ms),
         \/ ms = <<>>
         \/ \E m \in Messages : ms = <<m>> /\ (m.kind = "preamble" => m.version = Version(c)),
         p \in Serving => Version(c) = ClientVersion[c],
         toServer'[c] = toServer[c] \/ (toServer[c] # <<>> /\ toServer'[c] = Tail(toServer[c]))
  PROVE  AgreeOf(c)'
<1> USE DEF AgreeOf, SameVersion, Version
<1> toServer[c] \in Seq(Messages) /\ toClient[c] \in Seq(Messages)
    /\ server \in [Clients -> ServerPhases] /\ toClient \in [Clients -> Seq(Messages)]
  BY DEF TypeInv, TypeOK
<1>1. /\ UNCHANGED <<client, image>> /\ server'[c] = p
      /\ toClient'[c] = toClient[c] \o ms
  BY DEF Serve
<1>2. HonestClient(c)'
  <2>1. CASE toServer'[c] = toServer[c]
    BY <1>1, <2>1 DEF HonestClient
  <2>2. CASE toServer[c] # <<>> /\ toServer'[c] = Tail(toServer[c])
    BY <1>1, <2>2, PipeElements DEF HonestClient
  <2> QED
    BY <2>1, <2>2
<1>3. HonestServer(c)'
  <2>1. CASE ms = <<>>
    <3>1. toClient'[c] = toClient[c]
      BY <1>1, <2>1, PipeElements
    <3> QED
      BY <1>1, <3>1 DEF HonestServer
  <2>2. ASSUME NEW m \in Messages, ms = <<m>>, m.kind = "preamble" => m.version = Version(c)
        PROVE  HonestServer(c)'
    <3>1. toClient'[c] = Append(toClient[c], m)
      BY <1>1, <2>2, PipeElements
    <3> QED
      BY <1>1, <2>2, <3>1, PipeElements DEF HonestServer
  <2> QED
    BY <2>1, <2>2
<1>4. QuietBefore(c)'
  BY <1>1 DEF QuietBefore, Alive
<1> QED
  BY <1>1, <1>2, <1>3, <1>4

\* What the server reads it believes: only a preamble of its own version leads
\* on to the first framed message.
LEMMA AgreeServer ==
  ASSUME TypeInv, NEW c \in Clients, AgreeOf(c), ServerStep(c) \/ ServerDies(c)
  PROVE  AgreeOf(c)'
<1> toServer[c] \in Seq(Messages) /\ toServer \in [Clients -> Seq(Messages)]
  BY DEF TypeInv, TypeOK
<1>0. /\ \A k \in Framed : Msg(k) \in Messages /\ Msg(k).kind = k /\ k # "preamble"
      /\ Alive(c) => /\ Preamble(Version(c)) \in Messages
                     /\ Preamble(Version(c)).version = Version(c)
  BY Shapes DEF Framed, TypeInv, Carries, Version
<1>1. CASE Greet(c)
  <2>1. Serve(c, "hello", <<Preamble(Version(c))>>) /\ toServer' = toServer /\ Alive(c)
    BY <1>1 DEF Greet, Alive
  <2> QED
    BY <1>0, <2>1, AgreeServe DEF Serving
<1>2. CASE ReadPreamble(c)
  <2>1. toServer[c] # <<>> /\ toServer'[c] = Tail(toServer[c]) /\ Alive(c)
    BY <1>2 DEF ReadPreamble, Alive
  <2>2. CASE ValidPreamble(Head(toServer[c]), Version(c))
    <3>1. Serve(c, "first", <<>>)
      BY <1>2, <2>2 DEF ReadPreamble
    <3>2. Version(c) = ClientVersion[c]
      BY <2>1, <2>2, PipeElements DEF ValidPreamble, AgreeOf, HonestClient
    <3> QED
      BY <2>1, <3>1, <3>2, AgreeServe
  <2>3. CASE ~ValidPreamble(Head(toServer[c]), Version(c))
    <3>1. Serve(c, "exit", <<Msg("Error")>>)
      BY <1>2, <2>3 DEF ReadPreamble
    <3> QED
      BY <1>0, <2>1, <3>1, AgreeServe DEF Serving, Framed
  <2> QED
    BY <2>2, <2>3
<1>3. CASE ReadMessage(c)
  <2>1. /\ toServer[c] # <<>> /\ toServer'[c] = Tail(toServer[c]) /\ Alive(c)
        /\ server[c] \in Serving
    BY <1>3 DEF ReadMessage, Alive, Serving
  <2>2. Serve(c, AfterMessage(server[c], Head(toServer[c]).kind), <<>>)
    BY <1>3 DEF ReadMessage
  <2>3. Version(c) = ClientVersion[c]
    BY <2>1 DEF AgreeOf, SameVersion
  <2> QED
    BY <2>1, <2>2, <2>3, AgreeServe
<1>4. CASE Ready(c) \/ Report(c) \/ StreamAll(c) \/ SourceFails(c)
  <2>1. Alive(c) /\ toServer' = toServer /\ server[c] \in Serving
    BY <1>4 DEF Ready, Report, StreamAll, SourceFails, Alive, Serving
  <2>2. Version(c) = ClientVersion[c]
    BY <2>1 DEF AgreeOf, SameVersion
  <2>3. PICK p \in ServerPhases, k \in Framed : Serve(c, p, <<Msg(k)>>) \/ Serve(c, p, <<>>)
    BY <1>4 DEF Ready, Report, StreamAll, SourceFails, ServerPhases, Framed
  <2> QED
    BY <1>0, <2>1, <2>2, <2>3, AgreeServe
<1>5. CASE ServerReadsEof(c) \/ ServerDies(c)
  <2>1. Alive(c) /\ toServer' = toServer /\ Serve(c, "exit", <<>>)
    BY <1>5 DEF ServerReadsEof, ServerDies, Alive
  <2> QED
    BY <2>1, AgreeServe DEF Serving
<1> QED
  BY <1>1, <1>2, <1>3, <1>4, <1>5 DEF ServerStep

\* A step of one client or of its server leaves the other clients alone.
LEMMA OtherClients ==
  ASSUME TypeInv, NEW c \in Clients, NEW d \in Clients, d # c,
         ClientStep(c) \/ ServerStep(c) \/ ServerDies(c) \/ Leave(c)
  PROVE  /\ client'[d] = client[d] /\ server'[d] = server[d] /\ image'[d] = image[d]
         /\ toServer'[d] = toServer[d] /\ toClient'[d] = toClient[d]
BY DEF TypeInv, TypeOK, pipes, ClientStep, ServerStep, Leave, ServerDies,
   GetServerBinary, TestExecutable, OpenUpload, OpenRefused, StartProcess,
   AcceptGreeting, RefuseGreeting, GreetingTimeout, SendInit, Receive, Warn, ClientReadsEof,
   Greet, ReadPreamble, ReadMessage, Ready, Report, StreamAll, SourceFails,
   ServerReadsEof, Serve

\* A step is one client's, or one client's server's or upload's.
LEMMA AgreeStep ==
  TypeInv /\ (\A c \in Clients : AgreeOf(c)) /\ [Next]_vars => (\A c \in Clients : AgreeOf(c))'
<1> SUFFICES ASSUME TypeInv, \A c \in Clients : AgreeOf(c), [Next]_vars, NEW d \in Clients
             PROVE  AgreeOf(d)'
  OBVIOUS
<1>1. CASE UNCHANGED vars
  BY <1>1, AgreeFrame DEF vars, pipes
<1>2. ASSUME NEW c \in Clients,
             ClientStep(c) \/ UploadStep(c) \/ ServerStep(c) \/ ServerDies(c) \/ Leave(c)
      PROVE  AgreeOf(d)'
  <2>1. CASE d = c /\ ~UploadStep(c)
    BY <1>2, <2>1, AgreeClient, AgreeServer
  <2>2. CASE d # c /\ ~UploadStep(c)
    <3>1. /\ client'[d] = client[d] /\ server'[d] = server[d] /\ image'[d] = image[d]
          /\ toServer'[d] = toServer[d] /\ toClient'[d] = toClient[d]
      BY <1>2, <2>2, OtherClients
    <3> QED
      BY <3>1, AgreeFrame
  <2>3. CASE UploadStep(c)
    <3>1. /\ UNCHANGED <<server, image, toServer, toClient>>
          /\ client'[d] # client[d] => client[d] = "upload" /\ client'[d] \in {"start", "failed"}
      BY <2>3 DEF TypeInv, TypeOK, pipes, UploadStep, WriteBlock, CatEnds, Chmod, WriteFails
    <3> QED
      BY <3>1, AgreeFrame DEF AgreeOf, QuietBefore, HonestClient, HonestServer, SameVersion,
           Version, Agreed
  <2> QED
    BY <2>1, <2>2, <2>3
<1> QED
  BY <1>1, <1>2 DEF Next

\* Before anything has happened the pipes are empty.
LEMMA AgreeInit == Init => \A c \in Clients : AgreeOf(c)
<1> SUFFICES ASSUME Init, NEW c \in Clients PROVE AgreeOf(c)
  OBVIOUS
<1>1. /\ client[c] = "detect" /\ server[c] = "none"
      /\ toServer[c] = <<>> /\ toClient[c] = <<>>
  BY DEF Init
<1>2. HonestClient(c) /\ HonestServer(c)
  BY <1>1 DEF HonestClient, HonestServer
<1> QED
  BY <1>1, <1>2 DEF AgreeOf, QuietBefore, SameVersion, Agreed, Serving

\* For all clients and builds, credentials and plans go only to, and answers
\* come only from, a server that speaks the client's protocol version.
THEOREM PeersSpeakOneVersion == Spec => []PeersAgree
<1>1. (\A c \in Clients : AgreeOf(c)) => PeersAgree
  <2> SUFFICES ASSUME NEW c \in Clients, AgreeOf(c),
                      \/ client[c] \in Agreed
                      \/ server[c] \in Serving
                      \/ \E i \in DOMAIN toServer[c] : toServer[c][i].kind \in Framed
               PROVE  Version(c) = ClientVersion[c]
    BY Zenon DEF PeersAgree, Serving
  <2> QED
    BY DEF AgreeOf, HonestClient, SameVersion
<1> QED
  BY <1>1, AgreeInit, AgreeStep, TypeInvariant, PTL DEF Spec

(* ------------------------------ the dialogue --------------------------- *)

\* What is on the way between a client and its server.
OnTheWay(c, s, r) == toServer[c] = s /\ toClient[c] = r
Own(c) == image[c] = Binary(embedded[c])
PlanOf(c) == Msg(IF c \in DryRun THEN "DryInit" ELSE "Init")
FromClient(c) == Preamble(ClientVersion[c])
FromServer(c) == Preamble(Version(c))

\* For each phase of a client, the phases its server can be in, and what is
\* then on the way: the messages one has sent and the other has not yet read.
\* A server ends early only if its image is not the client's own, if the
\* versions differ or if the source fails after the plan was read.
Greeting(c) ==
  \/ server[c] \in {"old", "greet"} /\ OnTheWay(c, <<FromClient(c)>>, <<>>)
  \/ server[c] = "hello" /\ OnTheWay(c, <<FromClient(c)>>, <<FromServer(c)>>)
  \/ server[c] = "first" /\ OnTheWay(c, <<>>, <<FromServer(c)>>)
  \/ server[c] = "exit" /\ toClient[c] = <<>>
  \/ server[c] = "exit" /\ toClient[c] = <<FromServer(c)>> /\ ~Own(c)
  \/ /\ server[c] = "exit" /\ toClient[c] = <<FromServer(c), Msg("Error")>>
     /\ Version(c) # ClientVersion[c]
Planning(c) ==
  \/ server[c] = "hello" /\ OnTheWay(c, <<FromClient(c), Msg("Credentials")>>, <<>>)
  \/ server[c] = "first" /\ OnTheWay(c, <<Msg("Credentials")>>, <<>>)
  \/ server[c] = "init" /\ OnTheWay(c, <<>>, <<>>)
  \/ server[c] = "exit" /\ ~Own(c)
Waiting(c) ==
  \/ server[c] = "hello" /\ OnTheWay(c, <<FromClient(c), Msg("Credentials"), PlanOf(c)>>, <<>>)
  \/ server[c] = "first" /\ OnTheWay(c, <<Msg("Credentials"), PlanOf(c)>>, <<>>)
  \/ server[c] = "init" /\ OnTheWay(c, <<PlanOf(c)>>, <<>>)
  \/ server[c] = "catalog" /\ OnTheWay(c, <<>>, <<>>)
  \/ /\ server[c] = (IF c \in DryRun THEN "report" ELSE "start")
     /\ OnTheWay(c, <<>>, <<Msg("Ready")>>)
  \/ server[c] = "exit" /\ (toServer[c] = <<>> \/ ~Own(c))
Reporting(c) ==
  /\ c \in DryRun
  /\ \/ server[c] = "report" /\ OnTheWay(c, <<>>, <<>>)
     \/ server[c] = "exit"
Streams(c) ==
  /\ c \notin DryRun
  /\ \/ server[c] = "start" /\ OnTheWay(c, <<Msg("Start")>>, <<>>)
     \/ server[c] = "stream" /\ OnTheWay(c, <<>>, <<>>)
     \/ server[c] = "listen" /\ OnTheWay(c, <<>>, <<Msg("Done")>>)
     \/ server[c] = "exit"
Done(c) == server[c] = "exit" \/ (server[c] = "listen" /\ c \notin DryRun)
Failed(c) ==
  \/ server[c] \in {"none", "old", "exit"}
  \/ server[c] \in {"greet", "hello"} /\ toServer[c] = <<FromClient(c)>>
  \/ server[c] = "first" /\ toServer[c] = <<>>

Dialogue(c) ==
  /\ client[c] = "greeting" => Greeting(c)
  /\ client[c] = "init" => Planning(c)
  /\ client[c] = "ready" => Waiting(c)
  /\ client[c] = "report" => Reporting(c)
  /\ client[c] = "stream" => Streams(c)
  /\ client[c] = "done" => Done(c)
  /\ client[c] = "failed" => Failed(c)

\* Two pipes with the same messages are the same.
LEMMA SamePipe ==
  ASSUME NEW S, NEW u \in Seq(S), NEW v \in Seq(S), Len(u) = Len(v),
         \A i \in 1 .. Len(u) : u[i] = v[i]
  PROVE  u = v
OBVIOUS

\* A second and a third message enter a pipe.
LEMMA GrowingPipes ==
  ASSUME NEW a, NEW b, NEW d
  PROVE  /\ Append(<<a>>, b) = <<a, b>>
         /\ Append(<<a, b>>, d) = <<a, b, d>>
         /\ <<a>> \o <<b>> = <<a, b>>
<1> DEFINE S == {a, b, d}
<1>1. ASSUME NEW u \in Seq(S), NEW v \in Seq(S), Len(u) = 2, Len(v) = 2, u[1] = v[1], u[2] = v[2]
      PROVE  u = v
  <2> HIDE DEF S
  <2> QED
    BY <1>1, SamePipe
<1>2. ASSUME NEW u \in Seq(S), NEW v \in Seq(S), Len(u) = 3, Len(v) = 3,
             u[1] = v[1], u[2] = v[2], u[3] = v[3]
      PROVE  u = v
  <2> HIDE DEF S
  <2> QED
    BY <1>2, SamePipe
<1>3. /\ <<a, b>> \in Seq(S) /\ Len(<<a, b>>) = 2 /\ <<a, b>>[1] = a /\ <<a, b>>[2] = b
      /\ <<a, b, d>> \in Seq(S) /\ Len(<<a, b, d>>) = 3
      /\ <<a, b, d>>[1] = a /\ <<a, b, d>>[2] = b /\ <<a, b, d>>[3] = d
  OBVIOUS
<1>4. /\ Append(<<a>>, b) \in Seq(S) /\ Len(Append(<<a>>, b)) = 2
      /\ Append(<<a>>, b)[1] = a /\ Append(<<a>>, b)[2] = b
  OBVIOUS
<1>5. /\ Append(<<a, b>>, d) \in Seq(S) /\ Len(Append(<<a, b>>, d)) = 3
      /\ Append(<<a, b>>, d)[1] = a /\ Append(<<a, b>>, d)[2] = b /\ Append(<<a, b>>, d)[3] = d
  OBVIOUS
<1>6. /\ <<a>> \o <<b>> \in Seq(S) /\ Len(<<a>> \o <<b>>) = 2
      /\ (<<a>> \o <<b>>)[1] = a /\ (<<a>> \o <<b>>)[2] = b
  OBVIOUS
<1> HIDE DEF S
<1>7. Append(<<a>>, b) = <<a, b>>
  BY <1>1, <1>3, <1>4, Zenon
<1>8. Append(<<a, b>>, d) = <<a, b, d>>
  BY <1>2, <1>3, <1>5, Zenon
<1>9. <<a>> \o <<b>> = <<a, b>>
  BY <1>1, <1>3, <1>6, Zenon
<1> QED
  BY <1>7, <1>8, <1>9

\* Pipes with few messages in them.
LEMMA ShortPipes ==
  ASSUME NEW a, NEW b, NEW d
  PROVE  /\ <<a>> # <<>> /\ <<a, b>> # <<>> /\ <<a, b, d>> # <<>>
         /\ Head(<<a>>) = a /\ Head(<<a, b>>) = a /\ Head(<<a, b, d>>) = a
         /\ Tail(<<a>>) = <<>> /\ Tail(<<a, b>>) = <<b>> /\ Tail(<<a, b, d>>) = <<b, d>>
         /\ Append(<<>>, a) = <<a>> /\ <<>> \o <<a>> = <<a>> /\ <<>> \o <<>> = <<>>
OBVIOUS

\* The kinds of the messages tell them apart.
LEMMA Kinds ==
  /\ \A k : Msg(k).kind = k
  /\ \A v : Preamble(v).kind = "preamble" /\ Preamble(v).version = v
BY DEF Msg, Preamble

\* A step of one client leaves the others alone.
LEMMA DialogueFrame ==
  ASSUME NEW d \in Clients, Dialogue(d), client'[d] = client[d], server'[d] = server[d],
         image'[d] = image[d], toServer'[d] = toServer[d], toClient'[d] = toClient[d],
         UNCHANGED embedded
  PROVE  Dialogue(d)'
BY DEF Dialogue, Greeting, Planning, Waiting, Reporting, Streams, Done, Failed, OnTheWay, Own,
   FromServer, FromClient, Version

\* Each step of a client takes it to a phase that suits its server's.
LEMMA DialogueClient ==
  ASSUME TypeInv, UNCHANGED embedded, NEW c \in Clients, AgreeOf(c), Dialogue(c),
         ClientStep(c) \/ Leave(c)
  PROVE  Dialogue(c)'
<1> client \in [Clients -> ClientPhases] /\ server \in [Clients -> ServerPhases]
    /\ image \in [Clients -> Content]
    /\ toServer \in [Clients -> Seq(Messages)] /\ toClient \in [Clients -> Seq(Messages)]
  BY DEF TypeInv, TypeOK
<1> USE DEF disk, upload, pipes, OnTheWay, Own, FromServer, FromClient, Version
<1>1. CASE GetServerBinary(c) \/ TestExecutable(c) \/ OpenUpload(c) \/ OpenRefused(c) \/ Leave(c)
  <2>1. /\ UNCHANGED <<server, image, toServer, toClient>>
        /\ client'[c] \in {"failed", "gone", "test", "start", "open", "upload"}
        /\ client'[c] = "failed" => client[c] \in {"detect", "open"}
    BY <1>1 DEF GetServerBinary, TestExecutable, OpenUpload, OpenRefused, Leave
  <2>2. client'[c] = "failed" => server'[c] = "none"
    BY <2>1 DEF AgreeOf, QuietBefore
  <2> QED
    BY <2>1, <2>2 DEF Dialogue, Failed
<1>2. CASE StartProcess(c)
  <2>1. /\ toServer'[c] = <<FromClient(c)>> /\ toClient'[c] = <<>>
        /\ client'[c] = "greeting" /\ server'[c] \in {"exit", "old", "greet"}
    BY <1>2 DEF StartProcess, AgreeOf, QuietBefore
  <2>2. Greeting(c)'
    BY <2>1 DEF Greeting
  <2> QED
    BY <2>1, <2>2 DEF Dialogue
<1>3. CASE AcceptGreeting(c)
  <2>1. /\ UNCHANGED <<server, image>> /\ client[c] = "greeting" /\ client'[c] = "init"
        /\ toClient[c] # <<>> /\ toClient'[c] = Tail(toClient[c])
        /\ toServer'[c] = Append(toServer[c], Msg("Credentials"))
        /\ ValidPreamble(Head(toClient[c]), ClientVersion[c])
    BY <1>3 DEF AcceptGreeting
  <2>2. Greeting(c)
    BY <2>1 DEF Dialogue
  <2>3. Head(toClient[c]) = FromServer(c)
    BY <2>1, <2>2, ShortPipes DEF Greeting
  <2>4. Version(c) = ClientVersion[c]
    BY <2>1, <2>3, Kinds DEF ValidPreamble
  <2>5. CASE server[c] = "hello"
    <3>1. toServer[c] = <<FromClient(c)>> /\ toClient[c] = <<FromServer(c)>>
      BY <2>2, <2>5 DEF Greeting
    <3>2. Append(<<FromClient(c)>>, Msg("Credentials")) = <<FromClient(c), Msg("Credentials")>>
      BY GrowingPipes
    <3>3. toServer'[c] = <<FromClient(c), Msg("Credentials")>> /\ toClient'[c] = <<>>
      BY <2>1, <3>1, <3>2, ShortPipes
    <3> QED
      BY <2>1, <2>5, <3>3 DEF Dialogue, Planning
  <2>6. CASE server[c] = "first"
    <3>1. toServer'[c] = <<Msg("Credentials")>> /\ toClient'[c] = <<>>
      BY <2>1, <2>2, <2>6, ShortPipes DEF Greeting
    <3> QED
      BY <2>1, <2>6, <3>1 DEF Dialogue, Planning
  <2>7. CASE server[c] = "exit"
    <3>1. ~Own(c)
      BY <2>1, <2>2, <2>4, <2>7 DEF Greeting
    <3> QED
      BY <2>1, <2>7, <3>1 DEF Dialogue, Planning
  <2> QED
    BY <2>1, <2>2, <2>5, <2>6, <2>7 DEF Greeting
<1>4. CASE RefuseGreeting(c)
  <2>1. /\ UNCHANGED <<server, image, toServer>>
        /\ client[c] = "greeting" /\ client'[c] = "failed"
    BY <1>4 DEF RefuseGreeting
  <2>2. Failed(c)'
    BY <2>1 DEF Dialogue, Greeting, Failed
  <2> QED
    BY <2>1, <2>2 DEF Dialogue
<1>5. CASE GreetingTimeout(c)
  <2>1. /\ UNCHANGED <<server, image, toServer>>
        /\ client[c] = "greeting" /\ client'[c] = "failed"
    BY <1>5 DEF GreetingTimeout, Impatient
  <2>2. Failed(c)'
    BY <2>1 DEF Dialogue, Greeting, Failed
  <2> QED
    BY <2>1, <2>2 DEF Dialogue
<1>6. CASE SendInit(c)
  <2>1. /\ UNCHANGED <<server, image, toClient>>
        /\ client[c] = "init" /\ client'[c] = "ready"
        /\ toServer'[c] = Append(toServer[c], PlanOf(c))
    BY <1>6 DEF SendInit, PlanOf
  <2>2. Planning(c)
    BY <2>1 DEF Dialogue
  <2>3. CASE server[c] = "hello"
    <3>1. toServer'[c] = Append(<<FromClient(c), Msg("Credentials")>>, PlanOf(c)) /\ toClient'[c] = <<>>
      BY <2>1, <2>2, <2>3 DEF Planning
    <3>2. toServer'[c] = <<FromClient(c), Msg("Credentials"), PlanOf(c)>>
      BY <3>1, GrowingPipes
    <3> QED
      BY <2>1, <2>3, <3>1, <3>2 DEF Dialogue, Waiting, PlanOf
  <2>4. CASE server[c] = "first"
    <3>1. toServer'[c] = Append(<<Msg("Credentials")>>, PlanOf(c)) /\ toClient'[c] = <<>>
      BY <2>1, <2>2, <2>4 DEF Planning
    <3>2. toServer'[c] = <<Msg("Credentials"), PlanOf(c)>>
      BY <3>1, GrowingPipes
    <3> QED
      BY <2>1, <2>4, <3>1, <3>2 DEF Dialogue, Waiting, PlanOf
  <2>5. CASE server[c] = "init"
    <3>1. toServer'[c] = <<PlanOf(c)>> /\ toClient'[c] = <<>>
      BY <2>1, <2>2, <2>5, ShortPipes DEF Planning
    <3> QED
      BY <2>1, <2>5, <3>1 DEF Dialogue, Waiting, PlanOf
  <2>6. CASE server[c] = "exit"
    BY <2>1, <2>2, <2>6 DEF Planning, Dialogue, Waiting
  <2> QED
    BY <2>2, <2>3, <2>4, <2>5, <2>6 DEF Planning
<1>7. CASE Receive(c)
  <2> DEFINE k == Head(toClient[c]).kind
  <2>0. /\ UNCHANGED <<server, image>> /\ client[c] \in {"ready", "report", "stream"}
        /\ toClient[c] # <<>> /\ toClient'[c] = Tail(toClient[c])
    BY <1>7 DEF Receive, AfterAnswer
  <2>1. CASE client[c] = "ready"
    <3>1. Waiting(c)
      BY <2>1 DEF Dialogue
    <3>2. server[c] = "exit" \/ toClient[c] = <<Msg("Ready")>>
      BY <2>0, <3>1 DEF Waiting
    <3>3. CASE server[c] = "exit"
      <4>1. client'[c] \in {"report", "stream", "failed"}
            /\ (client'[c] = "report" <=> c \in DryRun /\ client'[c] # "failed")
        BY <1>7, <2>1 DEF Receive, AfterAnswer
      <4> QED
        BY <2>0, <3>3, <4>1 DEF Dialogue, Reporting, Streams, Failed
    <3>4. CASE server[c] # "exit"
      <4>1. k = "Ready" /\ toClient'[c] = <<>>
        BY <2>0, <3>2, <3>4, Kinds, ShortPipes
      <4>2. /\ server[c] = (IF c \in DryRun THEN "report" ELSE "start")
            /\ toServer[c] = <<>>
        BY <2>0, <3>1, <3>2, <3>4 DEF Waiting
      <4>3. client'[c] = (IF c \in DryRun THEN "report" ELSE "stream")
        BY <1>7, <2>1, <4>1 DEF Receive, AfterAnswer
      <4>4. toServer'[c] = IF c \in DryRun THEN <<>> ELSE <<Msg("Start")>>
        BY <1>7, <2>1, <4>1, <4>2, ShortPipes DEF Receive, AfterAnswer
      <4> QED
        BY <2>0, <4>1, <4>2, <4>3, <4>4 DEF Dialogue, Reporting, Streams
    <3> QED
      BY <3>3, <3>4
  <2>2. CASE client[c] = "report"
    <3>1. server[c] = "exit"
      BY <2>0, <2>2 DEF Dialogue, Reporting
    <3>2. client'[c] \in {"done", "failed"}
      BY <1>7, <2>2 DEF Receive, AfterAnswer
    <3> QED
      BY <2>0, <3>1, <3>2 DEF Dialogue, Done, Failed
  <2>3. CASE client[c] = "stream"
    <3>1. c \notin DryRun /\ (server[c] = "exit" \/ (server[c] = "listen" /\ toClient[c] = <<Msg("Done")>>))
      BY <2>0, <2>3 DEF Dialogue, Streams
    <3>2. client'[c] \in {"done", "failed"} /\ (k = "Done" => client'[c] = "done")
      BY <1>7, <2>3 DEF Receive, AfterAnswer
    <3>3. server[c] = "listen" => client'[c] = "done"
      BY <3>1, <3>2, Kinds, ShortPipes
    <3> QED
      BY <2>0, <3>1, <3>2, <3>3 DEF Dialogue, Done, Failed
  <2> QED
    BY <2>0, <2>1, <2>2, <2>3
<1>8. CASE Warn(c)
  <2>1. /\ UNCHANGED <<client, server, image, toServer>>
        /\ toClient[c] # <<>> /\ Head(toClient[c]).kind = "Error"
        /\ client[c] = "stream"
    BY <1>8 DEF Warn
  <2>2. c \notin DryRun /\ server[c] = "exit"
    BY <2>1, Kinds, ShortPipes DEF Dialogue, Streams
  <2> QED
    BY <2>1, <2>2 DEF Dialogue, Streams
<1>9. CASE ClientReadsEof(c)
  BY <1>9 DEF ClientReadsEof, Dialogue, Failed
<1> QED
  BY <1>1, <1>2, <1>3, <1>4, <1>5, <1>6, <1>7, <1>8, <1>9 DEF ClientStep

\* A server that ends: a client that still waits for it meets no message it
\* does not expect, unless the image was not its own.
LEMMA DialogueExit ==
  ASSUME UNCHANGED embedded, NEW c \in Clients, client'[c] = client[c], image'[c] = image[c],
         server'[c] = "exit",
         client[c] = "greeting" =>
           \/ toClient'[c] = <<>>
           \/ toClient'[c] = <<FromServer(c)>> /\ ~Own(c)
           \/ toClient'[c] = <<FromServer(c), Msg("Error")>> /\ Version(c) # ClientVersion[c],
         client[c] = "init" => ~Own(c),
         client[c] = "ready" => toServer'[c] = <<>> \/ ~Own(c),
         client[c] = "report" => c \in DryRun,
         client[c] = "stream" => c \notin DryRun
  PROVE  Dialogue(c)'
<1> USE DEF FromServer, Version, Own
<1>1. client[c] = "greeting" => Greeting(c)'
  BY DEF Greeting
<1>2. client[c] = "init" => Planning(c)'
  BY DEF Planning
<1>3. client[c] = "ready" => Waiting(c)'
  BY DEF Waiting
<1>4. client[c] = "report" => Reporting(c)'
  BY DEF Reporting
<1>5. client[c] = "stream" => Streams(c)'
  BY DEF Streams
<1>6. Done(c)' /\ Failed(c)'
  BY DEF Done, Failed
<1> QED
  BY <1>1, <1>2, <1>3, <1>4, <1>5, <1>6 DEF Dialogue

\* Each step of a server suits the phase of its client.
LEMMA DialogueServer ==
  ASSUME TypeInv, UNCHANGED embedded, NEW c \in Clients, AgreeOf(c), Dialogue(c),
         ServerStep(c) \/ ServerDies(c)
  PROVE  Dialogue(c)'
<1> USE DEF OnTheWay, Own, FromServer, FromClient, Version, PlanOf
<1>0. /\ toServer[c] \in Seq(Messages) /\ toClient[c] \in Seq(Messages)
      /\ server \in [Clients -> ServerPhases] /\ client[c] \in ClientPhases
      /\ toServer \in [Clients -> Seq(Messages)] /\ toClient \in [Clients -> Seq(Messages)]
  BY DEF TypeInv, TypeOK
<1>a. ASSUME NEW p, NEW ms, Serve(c, p, ms)
      PROVE  /\ client'[c] = client[c] /\ image'[c] = image[c] /\ server'[c] = p
             /\ toClient'[c] = toClient[c] \o ms
             /\ ms = <<>> => toClient'[c] = toClient[c]
  <2>1. /\ client'[c] = client[c] /\ image'[c] = image[c] /\ server'[c] = p
        /\ toClient'[c] = toClient[c] \o ms
    BY <1>0, <1>a DEF Serve
  <2>2. toClient[c] \o <<>> = toClient[c]
    BY <1>0
  <2> QED
    BY <2>1, <2>2
<1>b. ASSUME server[c] \notin {"none"}
      PROVE  client[c] \in {"greeting", "init", "ready", "report", "stream", "done", "failed", "gone"}
  BY <1>0, <1>b DEF AgreeOf, QuietBefore, ClientPhases, Agreed, Ended
<1>1. CASE Greet(c)
  <2>1. /\ server[c] = "greet" /\ server'[c] = "hello" /\ toServer' = toServer
        /\ client'[c] = client[c] /\ image'[c] = image[c]
        /\ toClient'[c] = toClient[c] \o <<FromServer(c)>>
    BY <1>1, <1>a DEF Greet
  <2>2. client[c] \in {"greeting", "failed", "gone"}
    BY <1>b, <2>1 DEF Dialogue, Planning, Waiting, Reporting, Streams, Done
  <2>3. CASE client[c] = "greeting"
    <3>1. toServer'[c] = <<FromClient(c)>> /\ toClient'[c] = <<FromServer(c)>>
      BY <2>1, <2>3, ShortPipes DEF Dialogue, Greeting
    <3>2. Greeting(c)'
      BY <2>1, <3>1 DEF Greeting
    <3> QED
      BY <2>1, <2>3, <3>2 DEF Dialogue
  <2>4. CASE client[c] = "failed"
    <3>1. Failed(c)'
      BY <2>1, <2>4 DEF Dialogue, Failed
    <3> QED
      BY <2>1, <2>4, <3>1 DEF Dialogue
  <2>5. CASE client[c] = "gone"
    BY <2>1, <2>5 DEF Dialogue
  <2> QED
    BY <2>2, <2>3, <2>4, <2>5
<1>2. CASE ReadPreamble(c)
  <2>1. /\ server[c] = "hello" /\ toServer'[c] = Tail(toServer[c])
        /\ client'[c] = client[c] /\ image'[c] = image[c]
    BY <1>0, <1>2, <1>a DEF ReadPreamble
  <2>2. client[c] \in {"greeting", "init", "ready", "failed", "gone"}
    BY <1>b, <2>1 DEF Dialogue, Reporting, Streams, Done
  <2>3. client[c] # "gone" => Head(toServer[c]) = FromClient(c)
    BY <2>1, <2>2, ShortPipes DEF Dialogue, Greeting, Planning, Waiting, Failed
  <2>4. ValidPreamble(FromClient(c), Version(c)) <=> Version(c) = ClientVersion[c]
    BY Kinds DEF ValidPreamble
  <2>5. CASE client[c] = "gone"
    BY <2>1, <2>5 DEF Dialogue
  <2>6. CASE client[c] # "gone" /\ Version(c) = ClientVersion[c]
    <3>1. server'[c] = "first" /\ toClient'[c] = toClient[c]
      BY <1>2, <1>a, <2>3, <2>4, <2>6 DEF ReadPreamble
    <3>2. CASE client[c] = "greeting"
      <4>1. Greeting(c)'
        BY <2>1, <3>1, <3>2, ShortPipes DEF Dialogue, Greeting
      <4> QED
        BY <2>1, <3>2, <4>1 DEF Dialogue
    <3>3. CASE client[c] = "init"
      <4>1. Planning(c)'
        <5>1. toServer[c] = <<FromClient(c), Msg("Credentials")>> /\ toClient[c] = <<>>
          BY <2>1, <3>3 DEF Dialogue, Planning
        <5>2. toServer'[c] = <<Msg("Credentials")>> /\ toClient'[c] = <<>>
          BY <2>1, <3>1, <5>1, ShortPipes
        <5> QED
          BY <3>1, <5>2 DEF Planning
      <4> QED
        BY <2>1, <3>3, <4>1 DEF Dialogue
    <3>4. CASE client[c] = "ready"
      <4>1. Waiting(c)'
        <5>1. toServer[c] = <<FromClient(c), Msg("Credentials"), PlanOf(c)>> /\ toClient[c] = <<>>
          BY <2>1, <3>4 DEF Dialogue, Waiting
        <5>2. toServer'[c] = <<Msg("Credentials"), PlanOf(c)>> /\ toClient'[c] = <<>>
          BY <2>1, <3>1, <5>1, ShortPipes
        <5> QED
          BY <3>1, <5>2 DEF Waiting
      <4> QED
        BY <2>1, <3>4, <4>1 DEF Dialogue
    <3>5. CASE client[c] = "failed"
      <4>1. Failed(c)'
        BY <2>1, <3>1, <3>5, ShortPipes DEF Dialogue, Failed
      <4> QED
        BY <2>1, <3>5, <4>1 DEF Dialogue
    <3> QED
      BY <2>2, <2>6, <3>2, <3>3, <3>4, <3>5
  <2>7. CASE client[c] # "gone" /\ Version(c) # ClientVersion[c]
    <3>1. server'[c] = "exit" /\ toClient'[c] = toClient[c] \o <<Msg("Error")>>
      BY <1>2, <1>a, <2>3, <2>4, <2>7 DEF ReadPreamble
    <3>2. client[c] \in {"greeting", "failed"}
      BY <2>2, <2>7 DEF AgreeOf, SameVersion, Agreed
    <3>3. client[c] = "greeting" => toClient[c] = <<FromServer(c)>>
      BY <2>1 DEF Dialogue, Greeting
    <3>4. <<FromServer(c)>> \o <<Msg("Error")>> = <<FromServer(c), Msg("Error")>>
      BY GrowingPipes
    <3>5. client[c] = "greeting" => toClient'[c] = <<FromServer(c), Msg("Error")>>
      BY <3>1, <3>3, <3>4
    <3> QED
      BY <2>1, <2>7, <3>1, <3>2, <3>5, DialogueExit
  <2> QED
    BY <2>5, <2>6, <2>7
<1>3. CASE ReadMessage(c)
  <2> DEFINE k == Head(toServer[c]).kind
  <2>1. /\ server[c] \in {"first", "init", "start", "listen"} /\ toServer[c] # <<>>
        /\ toServer'[c] = Tail(toServer[c]) /\ server'[c] = AfterMessage(server[c], k)
        /\ client'[c] = client[c] /\ image'[c] = image[c] /\ toClient'[c] = toClient[c]
    BY <1>0, <1>3, <1>a DEF ReadMessage
  <2>2. client[c] \in {"init", "ready", "stream", "done", "gone"}
    BY <1>b, <2>1 DEF Dialogue, Greeting, Reporting, Failed
  <2>3. CASE client[c] = "init"
    <3>1. server[c] = "first" /\ toServer[c] = <<Msg("Credentials")>> /\ toClient[c] = <<>>
      BY <2>1, <2>3 DEF Dialogue, Planning
    <3>2. k = "Credentials" /\ toServer'[c] = <<>>
      BY <2>1, <3>1, ShortPipes, Kinds
    <3>3. server'[c] = "init"
      BY <2>1, <3>1, <3>2 DEF AfterMessage
    <3> QED
      BY <2>1, <2>3, <3>1, <3>2, <3>3 DEF Dialogue, Planning
  <2>4. CASE client[c] = "ready" /\ server[c] = "first"
    <3>1. toServer[c] = <<Msg("Credentials"), PlanOf(c)>> /\ toClient[c] = <<>>
      BY <2>1, <2>4 DEF Dialogue, Waiting
    <3>2. k = "Credentials" /\ toServer'[c] = <<PlanOf(c)>>
      BY <2>1, <3>1, ShortPipes, Kinds
    <3>3. server'[c] = "init"
      BY <2>1, <2>4, <3>2 DEF AfterMessage
    <3>4. Waiting(c)'
      BY <2>1, <3>1, <3>2, <3>3 DEF Waiting
    <3> QED
      BY <2>1, <2>4, <3>4 DEF Dialogue
  <2>5. CASE client[c] = "ready" /\ server[c] = "init"
    <3>1. toServer[c] = <<PlanOf(c)>> /\ toClient[c] = <<>>
      BY <2>1, <2>5 DEF Dialogue, Waiting
    <3>2. k \in {"Init", "DryInit"} /\ toServer'[c] = <<>>
      BY <2>1, <3>1, ShortPipes, Kinds
    <3>3. server'[c] = "catalog"
      BY <2>1, <2>5, <3>2 DEF AfterMessage
    <3>4. Waiting(c)'
      BY <2>1, <3>1, <3>2, <3>3 DEF Waiting
    <3> QED
      BY <2>1, <2>5, <3>4 DEF Dialogue
  <2>6. CASE client[c] = "stream"
    <3>1. /\ server[c] = "start" /\ toServer[c] = <<Msg("Start")>> /\ toClient[c] = <<>>
          /\ c \notin DryRun
      BY <2>1, <2>6 DEF Dialogue, Streams
    <3>2. k = "Start" /\ toServer'[c] = <<>>
      BY <2>1, <3>1, ShortPipes, Kinds
    <3>3. server'[c] = "stream"
      BY <2>1, <3>1, <3>2 DEF AfterMessage
    <3> QED
      BY <2>1, <2>6, <3>1, <3>2, <3>3 DEF Dialogue, Streams
  <2>7. CASE client[c] = "done"
    <3>1. server[c] = "listen" /\ c \notin DryRun
      BY <2>1, <2>7 DEF Dialogue, Done
    <3>2. server'[c] \in {"listen", "exit"}
      BY <2>1, <3>1 DEF AfterMessage
    <3> QED
      BY <2>1, <2>7, <3>1, <3>2 DEF Dialogue, Done
  <2>8. CASE client[c] = "gone"
    BY <2>1, <2>8 DEF Dialogue
  <2>9. client[c] = "ready" => server[c] \in {"first", "init"}
    BY <2>1 DEF Dialogue, Waiting
  <2> QED
    BY <2>2, <2>3, <2>4, <2>5, <2>6, <2>7, <2>8, <2>9
<1>4. CASE Ready(c)
  <2>1. /\ server[c] = "catalog" /\ toServer' = toServer
        /\ server'[c] = (IF c \in DryRun THEN "report" ELSE "start")
        /\ client'[c] = client[c] /\ image'[c] = image[c]
        /\ toClient'[c] = toClient[c] \o <<Msg("Ready")>>
    BY <1>4, <1>a DEF Ready
  <2>2. client[c] \in {"ready", "gone"}
    BY <1>b, <2>1 DEF Dialogue, Greeting, Planning, Reporting, Streams, Done, Failed
  <2>3. client[c] = "ready" => toServer'[c] = <<>> /\ toClient'[c] = <<Msg("Ready")>>
    BY <2>1, ShortPipes DEF Dialogue, Waiting
  <2>4. client[c] = "ready" => Waiting(c)'
    BY <2>1, <2>3 DEF Waiting
  <2> QED
    BY <2>1, <2>2, <2>4 DEF Dialogue
<1>5. CASE Report(c)
  <2>1. /\ server[c] = "report" /\ toServer' = toServer /\ server'[c] = "exit"
        /\ client'[c] = client[c] /\ image'[c] = image[c]
    BY <1>5, <1>a DEF Report
  <2>2. client[c] \in {"ready", "report", "gone"}
    BY <1>b, <2>1 DEF Dialogue, Greeting, Planning, Streams, Done, Failed
  <2>3. /\ client[c] = "ready" => toServer'[c] = <<>>
        /\ client[c] = "report" => c \in DryRun
    BY <2>1 DEF Dialogue, Waiting, Reporting
  <2> QED
    BY <2>1, <2>2, <2>3, DialogueExit
<1>6. CASE StreamAll(c)
  <2>1. /\ server[c] = "stream" /\ toServer' = toServer /\ server'[c] = "listen"
        /\ client'[c] = client[c] /\ image'[c] = image[c]
        /\ toClient'[c] = toClient[c] \o <<Msg("Done")>>
    BY <1>6, <1>a DEF StreamAll
  <2>2. client[c] \in {"stream", "gone"}
    BY <1>b, <2>1 DEF Dialogue, Greeting, Planning, Waiting, Reporting, Done, Failed
  <2>3. client[c] = "stream" =>
          c \notin DryRun /\ toServer'[c] = <<>> /\ toClient'[c] = <<Msg("Done")>>
    BY <2>1, ShortPipes DEF Dialogue, Streams
  <2> QED
    BY <2>1, <2>2, <2>3 DEF Dialogue, Streams
<1>7. CASE SourceFails(c)
  <2>1. /\ server[c] \in {"catalog", "report", "stream"} /\ toServer' = toServer
        /\ server'[c] = "exit" /\ client'[c] = client[c] /\ image'[c] = image[c]
    BY <1>7, <1>a DEF SourceFails
  <2>2. client[c] \in {"ready", "report", "stream", "gone"}
    BY <1>b, <2>1 DEF Dialogue, Greeting, Planning, Done, Failed
  <2>3. /\ client[c] = "ready" => toServer'[c] = <<>>
        /\ client[c] = "report" => c \in DryRun
        /\ client[c] = "stream" => c \notin DryRun
    BY <2>1 DEF Dialogue, Waiting, Reporting, Streams
  <2> QED
    BY <2>1, <2>2, <2>3, DialogueExit
<1>8. CASE ServerReadsEof(c)
  <2>1. /\ client[c] \in {"done", "failed", "gone"} /\ server'[c] = "exit"
        /\ client'[c] = client[c] /\ image'[c] = image[c]
    BY <1>8, <1>a DEF ServerReadsEof, Ended
  <2> QED
    BY <2>1, DialogueExit
<1>9. CASE ServerDies(c)
  <2>1. /\ server[c] = "old" \/ (Alive(c) /\ ~Own(c))
        /\ toServer' = toServer /\ toClient'[c] = toClient[c] /\ server'[c] = "exit"
        /\ client'[c] = client[c] /\ image'[c] = image[c]
    BY <1>9, <1>a DEF ServerDies
  <2>2. /\ client[c] = "report" => c \in DryRun
        /\ client[c] = "stream" => c \notin DryRun
    BY DEF Dialogue, Reporting, Streams
  <2>3. CASE server[c] = "old"
    <3>1. client[c] \in {"greeting", "failed", "gone"}
      BY <1>b, <2>3 DEF Dialogue, Planning, Waiting, Reporting, Streams, Done
    <3>2. client[c] = "greeting" => toClient'[c] = <<>>
      BY <2>1, <2>3 DEF Dialogue, Greeting
    <3> QED
      BY <2>1, <3>1, <3>2, DialogueExit
  <2>4. CASE Alive(c) /\ ~Own(c)
    <3>1. client[c] = "greeting" => toClient'[c] = <<>> \/ toClient'[c] = <<FromServer(c)>>
      BY <2>1, <2>4 DEF Dialogue, Greeting, Alive
    <3> QED
      BY <2>1, <2>2, <2>4, <3>1, DialogueExit
  <2> QED
    BY <2>1, <2>3, <2>4
<1> QED
  BY <1>1, <1>2, <1>3, <1>4, <1>5, <1>6, <1>7, <1>8, <1>9 DEF ServerStep

\* A step is one client's, or one client's server's or upload's.
LEMMA DialogueStep ==
  /\ TypeInv /\ (\A c \in Clients : AgreeOf(c)) /\ (\A c \in Clients : Dialogue(c))
  /\ [Next]_vars
  => (\A c \in Clients : Dialogue(c))'
<1> SUFFICES ASSUME TypeInv, \A c \in Clients : AgreeOf(c), \A c \in Clients : Dialogue(c),
                    [Next]_vars, NEW d \in Clients
             PROVE  Dialogue(d)'
  OBVIOUS
<1>1. CASE UNCHANGED vars
  BY <1>1, DialogueFrame DEF vars, pipes
<1>2. ASSUME NEW c \in Clients, UNCHANGED embedded,
             ClientStep(c) \/ UploadStep(c) \/ ServerStep(c) \/ ServerDies(c) \/ Leave(c)
      PROVE  Dialogue(d)'
  <2>1. CASE d = c /\ ~UploadStep(c)
    BY <1>2, <2>1, DialogueClient, DialogueServer
  <2>2. CASE d # c /\ ~UploadStep(c)
    <3>1. /\ client'[d] = client[d] /\ server'[d] = server[d] /\ image'[d] = image[d]
          /\ toServer'[d] = toServer[d] /\ toClient'[d] = toClient[d]
      BY <1>2, <2>2, OtherClients
    <3> QED
      BY <1>2, <3>1, DialogueFrame
  <2>3. CASE UploadStep(c)
    <3>1. /\ UNCHANGED <<server, image, toServer, toClient>>
          /\ client'[d] # client[d] => client[d] = "upload" /\ client'[d] \in {"start", "failed"}
      BY <2>3 DEF TypeInv, TypeOK, pipes, UploadStep, WriteBlock, CatEnds, Chmod, WriteFails
    <3>2. client[d] = "upload" => server'[d] = "none"
      BY <3>1 DEF AgreeOf, QuietBefore
    <3>3. CASE client'[d] = client[d]
      BY <1>2, <3>1, <3>3, DialogueFrame
    <3>4. CASE client'[d] # client[d]
      BY <3>1, <3>2, <3>4 DEF Dialogue, Failed
    <3> QED
      BY <3>3, <3>4
  <2> QED
    BY <2>1, <2>2, <2>3
<1> QED
  BY <1>1, <1>2 DEF Next

\* What a server has still to read in each of its phases, also from a client
\* that is gone.  One that ended has read all, or its binary is incomplete.
ToRead(c) ==
  /\ server[c] = "none" => toServer[c] = <<>>
  /\ server[c] \in {"greet", "hello"} =>
       \/ toServer[c] = <<FromClient(c)>>
       \/ toServer[c] = <<FromClient(c), Msg("Credentials")>>
       \/ toServer[c] = <<FromClient(c), Msg("Credentials"), PlanOf(c)>>
  /\ server[c] = "first" => \/ toServer[c] = <<>>
                            \/ toServer[c] = <<Msg("Credentials")>>
                            \/ toServer[c] = <<Msg("Credentials"), PlanOf(c)>>
  /\ server[c] = "init" => toServer[c] = <<>> \/ toServer[c] = <<PlanOf(c)>>
  /\ server[c] \in {"catalog", "report", "stream"} => toServer[c] = <<>>
  /\ server[c] = "start" => toServer[c] = <<>> \/ toServer[c] = <<Msg("Start")>>
  /\ server[c] = "listen" => toServer[c] = <<>> \/ toServer[c] = <<Msg("Shutdown")>>
  /\ server[c] = "exit" /\ client[c] \in Agreed => toServer[c] = <<>> \/ ~Own(c)

\* What a client has still to read from a server that has ended, and that it
\* has read everything when it is done.
ToHear(c) ==
  /\ client[c] = "done" => toClient[c] = <<>>
  /\ server[c] = "exit" =>
       /\ client[c] = "init" => toClient[c] = <<>>
       /\ client[c] = "ready" =>
            \/ toClient[c] = <<>>
            \/ toClient[c] = <<Msg("Ready")>> /\ (c \in DryRun \/ ~Own(c))
            \/ toClient[c] = <<Msg("Ready"), Msg("DryRunReport")>> /\ c \in DryRun
       /\ client[c] = "report" => toClient[c] = <<>> \/ toClient[c] = <<Msg("DryRunReport")>>
       /\ client[c] = "stream" => \/ toClient[c] = <<>> \/ toClient[c] = <<Msg("Error")>>
                                  \/ toClient[c] = <<Msg("Done")>> /\ ~Own(c)

\* A step of one client leaves the pipes of the others alone.
LEMMA PipesFrame ==
  ASSUME NEW d \in Clients, ToRead(d), ToHear(d), client'[d] = client[d],
         server'[d] = server[d], image'[d] = image[d], toServer'[d] = toServer[d],
         toClient'[d] = toClient[d], UNCHANGED embedded
  PROVE  ToRead(d)' /\ ToHear(d)'
BY DEF ToRead, ToHear, Own, FromClient, PlanOf

\* In a conversation that goes on, Dialogue says what there is to read.
LEMMA ReadInDialogue ==
  ASSUME NEW c \in Clients, Dialogue(c)', server'[c] # "exit",
         client'[c] \in {"greeting", "init", "ready", "report", "stream"}
  PROVE  ToRead(c)'
<1> USE DEF OnTheWay, FromClient, PlanOf
<1>1. CASE client'[c] = "greeting"
  BY <1>1 DEF Dialogue, Greeting, ToRead
<1>2. CASE client'[c] = "init"
  BY <1>2 DEF Dialogue, Planning, ToRead
<1>3. CASE client'[c] = "ready"
  BY <1>3 DEF Dialogue, Waiting, ToRead
<1>4. CASE client'[c] = "report"
  BY <1>4 DEF Dialogue, Reporting, ToRead
<1>5. CASE client'[c] = "stream"
  BY <1>5 DEF Dialogue, Streams, ToRead
<1> QED
  BY <1>1, <1>2, <1>3, <1>4, <1>5

\* A client reads and writes in turn.
LEMMA PipesClient ==
  ASSUME TypeInv, UNCHANGED embedded, NEW c \in Clients, AgreeOf(c), Dialogue(c), Dialogue(c)',
         ToRead(c), ToHear(c), ClientStep(c) \/ Leave(c)
  PROVE  ToRead(c)' /\ ToHear(c)'
<1> USE DEF disk, upload, pipes
<1>0. /\ client \in [Clients -> ClientPhases] /\ server \in [Clients -> ServerPhases]
      /\ image \in [Clients -> Content]
      /\ toServer \in [Clients -> Seq(Messages)] /\ toClient \in [Clients -> Seq(Messages)]
  BY DEF TypeInv, TypeOK
<1>a. ASSUME UNCHANGED <<server, image, toServer>>,
             client'[c] \notin {"init", "ready", "report", "stream", "done"}
      PROVE  ToRead(c)' /\ ToHear(c)'
  <2>1. client'[c] \notin Agreed
    BY <1>a DEF Agreed
  <2> QED
    BY <1>a, <2>1 DEF ToRead, ToHear, FromClient, PlanOf, Own
<1>1. CASE \/ GetServerBinary(c) \/ TestExecutable(c) \/ OpenUpload(c) \/ OpenRefused(c) \/ Leave(c)
           \/ RefuseGreeting(c) \/ GreetingTimeout(c) \/ ClientReadsEof(c)
  <2>1. /\ UNCHANGED <<server, image, toServer>>
        /\ client'[c] \in {"failed", "gone", "test", "start", "open", "upload"}
    BY <1>0, <1>1 DEF GetServerBinary, TestExecutable, OpenUpload, OpenRefused, Leave, RefuseGreeting,
       GreetingTimeout, ClientReadsEof
  <2> QED
    BY <1>a, <2>1
<1>2. CASE StartProcess(c)
  <2>1. client'[c] = "greeting" /\ client'[c] \notin Agreed
    BY <1>0, <1>2 DEF StartProcess, Agreed
  <2>2. CASE server'[c] = "exit"
    BY <2>1, <2>2 DEF ToRead, ToHear
  <2>3. CASE server'[c] # "exit"
    BY <2>1, <2>3, ReadInDialogue DEF ToHear
  <2> QED
    BY <2>2, <2>3
<1>3. CASE AcceptGreeting(c)
  <2>1. /\ UNCHANGED <<server, image>> /\ client[c] = "greeting" /\ client'[c] = "init"
        /\ toClient[c] # <<>> /\ toClient'[c] = Tail(toClient[c])
        /\ ValidPreamble(Head(toClient[c]), ClientVersion[c])
    BY <1>0, <1>3 DEF AcceptGreeting
  <2>2. CASE server[c] = "exit"
    <3>1. \/ toClient[c] = <<FromServer(c)>>
          \/ /\ toClient[c] = <<FromServer(c), Msg("Error")>> /\ Version(c) # ClientVersion[c]
      BY <2>1, <2>2 DEF Dialogue, Greeting
    <3>2. Head(toClient[c]) = FromServer(c)
      BY <3>1, ShortPipes
    <3>3. Version(c) = ClientVersion[c]
      BY <2>1, <3>2, Kinds DEF ValidPreamble, FromServer
    <3>4. toClient'[c] = <<>>
      BY <2>1, <3>1, <3>3, ShortPipes
    <3>5. ~Own(c)'
      BY <2>1, <2>2 DEF Dialogue, Planning
    <3> QED
      BY <2>1, <2>2, <3>4, <3>5 DEF ToRead, ToHear
  <2>3. CASE server[c] # "exit"
    BY <2>1, <2>3, ReadInDialogue DEF ToHear
  <2> QED
    BY <2>2, <2>3
<1>4. CASE SendInit(c)
  <2>1. /\ UNCHANGED <<server, image, toClient>> /\ client[c] = "init" /\ client'[c] = "ready"
    BY <1>0, <1>4 DEF SendInit
  <2>2. CASE server[c] = "exit"
    <3>1. toClient'[c] = <<>>
      BY <2>1, <2>2 DEF ToHear
    <3>2. toServer'[c] = <<>> \/ ~Own(c)'
      BY <2>1, <2>2 DEF Dialogue, Waiting
    <3> QED
      BY <2>1, <2>2, <3>1, <3>2 DEF ToRead, ToHear
  <2>3. CASE server[c] # "exit"
    BY <2>1, <2>3, ReadInDialogue DEF ToHear
  <2> QED
    BY <2>2, <2>3
<1>5. CASE Receive(c)
  <2> DEFINE k == Head(toClient[c]).kind
  <2>1. /\ UNCHANGED <<server, image>> /\ client[c] \in {"ready", "report", "stream"}
        /\ toClient[c] # <<>> /\ toClient'[c] = Tail(toClient[c])
        /\ client'[c] = AfterAnswer(c, k)
        /\ toServer'[c] = IF client'[c] = "stream" THEN Append(toServer[c], Msg("Start"))
                          ELSE IF client'[c] = "done" /\ c \notin DryRun
                          THEN Append(toServer[c], Msg("Shutdown"))
                          ELSE toServer[c]
    BY <1>0, <1>5 DEF Receive
  <2>2. CASE client'[c] = "failed"
    <3>1. toServer'[c] = toServer[c] /\ client'[c] \notin Agreed
      BY <2>1, <2>2 DEF Agreed
    <3> QED
      BY <2>1, <2>2, <3>1 DEF ToRead, ToHear, FromClient, PlanOf, Own
  <2>3. CASE client[c] = "ready" /\ client'[c] # "failed"
    <3>1. client'[c] = (IF c \in DryRun THEN "report" ELSE "stream")
      BY <2>1, <2>3 DEF AfterAnswer
    <3>2. CASE server[c] # "exit"
      BY <2>1, <3>1, <3>2, ReadInDialogue DEF ToHear
    <3>3. CASE server[c] = "exit" /\ c \in DryRun
      <4>1. toServer'[c] = <<>> \/ ~Own(c)'
        BY <2>1, <2>3, <3>1, <3>3 DEF ToRead, Agreed, Own
      <4>2. \/ toClient[c] = <<Msg("Ready")>>
            \/ toClient[c] = <<Msg("Ready"), Msg("DryRunReport")>>
        BY <2>1, <2>3, <3>3 DEF ToHear
      <4>3. toClient'[c] = <<>> \/ toClient'[c] = <<Msg("DryRunReport")>>
        <5>1. CASE toClient[c] = <<Msg("Ready")>>
          BY <2>1, <5>1, ShortPipes
        <5>2. CASE toClient[c] = <<Msg("Ready"), Msg("DryRunReport")>>
          BY <2>1, <5>2, ShortPipes
        <5> QED
          BY <4>2, <5>1, <5>2
      <4> QED
        BY <2>1, <3>1, <3>3, <4>1, <4>3 DEF ToRead, ToHear
    <3>4. CASE server[c] = "exit" /\ c \notin DryRun
      <4>1. toClient[c] = <<Msg("Ready")>> /\ ~Own(c)
        BY <2>1, <2>3, <3>4 DEF ToHear
      <4>2. toClient'[c] = <<>> /\ ~Own(c)'
        BY <2>1, <4>1, ShortPipes DEF Own
      <4> QED
        BY <2>1, <3>1, <3>4, <4>2 DEF ToRead, ToHear
    <3> QED
      BY <3>2, <3>3, <3>4
  <2>4. CASE client[c] = "report" /\ client'[c] # "failed"
    <3>1. client'[c] = "done"
      BY <2>1, <2>4 DEF AfterAnswer
    <3>2. server[c] = "exit" /\ c \in DryRun
      BY <2>1, <2>4 DEF Dialogue, Reporting, OnTheWay
    <3>3. toClient'[c] = <<>>
      BY <2>1, <2>4, <3>2, ShortPipes DEF ToHear
    <3>4. toServer'[c] = <<>> \/ ~Own(c)'
      BY <2>1, <2>4, <3>1, <3>2 DEF ToRead, Agreed, Own
    <3> QED
      BY <2>1, <3>1, <3>2, <3>3, <3>4 DEF ToRead, ToHear
  <2>5. CASE client[c] = "stream" /\ client'[c] # "failed"
    <3>1. client'[c] = "done" /\ k = "Done"
      BY <2>1, <2>5 DEF AfterAnswer
    <3>2. c \notin DryRun /\ \/ server[c] = "exit"
                             \/ /\ server[c] = "listen" /\ toServer[c] = <<>>
                                /\ toClient[c] = <<Msg("Done")>>
      BY <2>1, <2>5 DEF Dialogue, Streams, OnTheWay
    <3>3. CASE server[c] = "exit"
      <4>1. toClient[c] = <<Msg("Done")>> /\ ~Own(c)
        BY <2>1, <2>5, <3>1, <3>3, ShortPipes, Kinds DEF ToHear
      <4>2. toClient'[c] = <<>> /\ ~Own(c)'
        BY <2>1, <4>1, ShortPipes DEF Own
      <4> QED
        BY <2>1, <3>1, <3>3, <4>2 DEF ToRead, ToHear
    <3>4. CASE server[c] = "listen" /\ toServer[c] = <<>> /\ toClient[c] = <<Msg("Done")>>
      <4>1. toClient'[c] = <<>> /\ toServer'[c] = <<Msg("Shutdown")>>
        BY <2>1, <3>1, <3>2, <3>4, ShortPipes
      <4> QED
        BY <2>1, <3>1, <3>4, <4>1 DEF ToRead, ToHear
    <3> QED
      BY <3>2, <3>3, <3>4
  <2> QED
    BY <2>1, <2>2, <2>3, <2>4, <2>5
<1>6. CASE Warn(c)
  <2>1. /\ UNCHANGED <<client, server, image, toServer>> /\ client[c] = "stream"
        /\ toClient[c] # <<>> /\ toClient'[c] = Tail(toClient[c]) /\ Head(toClient[c]).kind = "Error"
    BY <1>0, <1>6 DEF Warn
  <2>2. server[c] = "exit"
    BY <2>1, Kinds, ShortPipes DEF Dialogue, Streams, OnTheWay
  <2>3. toClient[c] = <<Msg("Error")>> \/ toClient[c] = <<Msg("Done")>>
    BY <2>1, <2>2 DEF ToHear
  <2>4. toClient'[c] = <<>>
    BY <2>1, <2>3, ShortPipes
  <2> QED
    BY <2>1, <2>2, <2>4 DEF ToRead, ToHear, Own
<1> QED
  BY <1>1, <1>2, <1>3, <1>4, <1>5, <1>6 DEF ClientStep

\* A server reads what its phase is for; what it leaves when it ends follows
\* from the phase it ends in.
LEMMA PipesServer ==
  ASSUME TypeInv, UNCHANGED embedded, NEW c \in Clients, AgreeOf(c), Dialogue(c),
         ToRead(c), ToHear(c), ServerStep(c) \/ ServerDies(c)
  PROVE  ToRead(c)' /\ ToHear(c)'
<1> USE DEF OnTheWay, FromClient, PlanOf
<1>0. /\ toServer[c] \in Seq(Messages) /\ toClient[c] \in Seq(Messages)
      /\ server \in [Clients -> ServerPhases] /\ client[c] \in ClientPhases
      /\ toServer \in [Clients -> Seq(Messages)] /\ toClient \in [Clients -> Seq(Messages)]
  BY DEF TypeInv, TypeOK
<1>a. ASSUME NEW p, NEW ms, Serve(c, p, ms)
      PROVE  /\ client'[c] = client[c] /\ image'[c] = image[c] /\ server'[c] = p
             /\ toClient'[c] = toClient[c] \o ms
             /\ ms = <<>> => toClient'[c] = toClient[c]
  <2>1. /\ client'[c] = client[c] /\ image'[c] = image[c] /\ server'[c] = p
        /\ toClient'[c] = toClient[c] \o ms
    BY <1>0, <1>a DEF Serve
  <2>2. toClient[c] \o <<>> = toClient[c]
    BY <1>0
  <2> QED
    BY <2>1, <2>2
<1>b. /\ client[c] = "done" => server[c] \in {"exit", "listen"}
      /\ client[c] = "init" => server[c] \in {"hello", "first", "init", "exit"}
      /\ client[c] = "report" => server[c] \in {"report", "exit"}
      /\ client[c] = "stream" => server[c] \in {"start", "stream", "listen", "exit"}
      /\ client[c] = "ready" => server[c] \notin {"old", "greet", "stream", "listen"}
  BY DEF Dialogue, Done, Planning, Waiting, Reporting, Streams
<1>1. CASE Greet(c)
  <2>1. /\ server[c] = "greet" /\ server'[c] = "hello" /\ toServer'[c] = toServer[c]
        /\ client'[c] = client[c]
    BY <1>1, <1>a DEF Greet
  <2> QED
    BY <1>b, <2>1 DEF ToRead, ToHear
<1>2. CASE ReadPreamble(c)
  <2>1. /\ server[c] = "hello" /\ toServer'[c] = Tail(toServer[c]) /\ client'[c] = client[c]
    BY <1>0, <1>2, <1>a DEF ReadPreamble
  <2>2. CASE ValidPreamble(Head(toServer[c]), Version(c))
    <3>1. server'[c] = "first"
      BY <1>2, <1>a, <2>2 DEF ReadPreamble
    <3>a. \/ toServer[c] = <<FromClient(c)>>
          \/ toServer[c] = <<FromClient(c), Msg("Credentials")>>
          \/ toServer[c] = <<FromClient(c), Msg("Credentials"), PlanOf(c)>>
      BY <2>1 DEF ToRead
    <3>b. \/ toServer'[c] = <<>>
          \/ toServer'[c] = <<Msg("Credentials")>>
          \/ toServer'[c] = <<Msg("Credentials"), PlanOf(c)>>
      <4>1. CASE toServer[c] = <<FromClient(c)>>
        BY <2>1, <4>1, ShortPipes
      <4>2. CASE toServer[c] = <<FromClient(c), Msg("Credentials")>>
        BY <2>1, <4>2, ShortPipes
      <4>3. CASE toServer[c] = <<FromClient(c), Msg("Credentials"), PlanOf(c)>>
        BY <2>1, <4>3, ShortPipes
      <4> QED
        BY <3>a, <4>1, <4>2, <4>3
    <3>2. ToRead(c)'
      BY <3>1, <3>b DEF ToRead
    <3> QED
      BY <1>b, <2>1, <3>1, <3>2 DEF ToHear
  <2>3. CASE ~ValidPreamble(Head(toServer[c]), Version(c))
    <3>1. server'[c] = "exit"
      BY <1>2, <1>a, <2>3 DEF ReadPreamble
    <3>2. Head(toServer[c]) = FromClient(c)
      BY <2>1, ShortPipes DEF ToRead
    <3>3. Version(c) # ClientVersion[c]
      BY <2>3, <3>2, Kinds DEF ValidPreamble
    <3>4. client'[c] \notin Agreed
      BY <2>1, <3>3 DEF AgreeOf, SameVersion
    <3> QED
      BY <3>1, <3>4 DEF ToRead, ToHear, Agreed
  <2> QED
    BY <2>2, <2>3
<1>3. CASE ReadMessage(c)
  <2> DEFINE k == Head(toServer[c]).kind
  <2>1. /\ server[c] \in {"first", "init", "start", "listen"} /\ toServer[c] # <<>>
        /\ toServer'[c] = Tail(toServer[c]) /\ server'[c] = AfterMessage(server[c], k)
        /\ client'[c] = client[c] /\ image'[c] = image[c] /\ toClient'[c] = toClient[c]
    BY <1>0, <1>3, <1>a DEF ReadMessage
  <2>2. CASE server[c] = "first"
    <3>0. toServer[c] = <<Msg("Credentials")>> \/ toServer[c] = <<Msg("Credentials"), PlanOf(c)>>
      BY <2>1, <2>2 DEF ToRead
    <3>1. k = "Credentials" /\ (toServer'[c] = <<>> \/ toServer'[c] = <<PlanOf(c)>>)
      <4>1. CASE toServer[c] = <<Msg("Credentials")>>
        BY <2>1, <4>1, ShortPipes, Kinds
      <4>2. CASE toServer[c] = <<Msg("Credentials"), PlanOf(c)>>
        BY <2>1, <4>2, ShortPipes, Kinds
      <4> QED
        BY <3>0, <4>1, <4>2
    <3>2. server'[c] = "init"
      BY <2>1, <2>2, <3>1 DEF AfterMessage
    <3> QED
      BY <1>b, <2>1, <2>2, <3>1, <3>2 DEF ToRead, ToHear
  <2>3. CASE server[c] = "init"
    <3>0. toServer[c] = <<PlanOf(c)>>
      BY <2>1, <2>3 DEF ToRead
    <3>1. k \in {"Init", "DryInit"} /\ toServer'[c] = <<>>
      BY <2>1, <3>0, ShortPipes, Kinds
    <3>2. server'[c] = "catalog"
      BY <2>1, <2>3, <3>1 DEF AfterMessage
    <3> QED
      BY <1>b, <2>1, <2>3, <3>1, <3>2 DEF ToRead, ToHear
  <2>4. CASE server[c] = "start"
    <3>0. toServer[c] = <<Msg("Start")>>
      BY <2>1, <2>4 DEF ToRead
    <3>1. k = "Start" /\ toServer'[c] = <<>>
      BY <2>1, <3>0, ShortPipes, Kinds
    <3>2. server'[c] = "stream"
      BY <2>1, <2>4, <3>1 DEF AfterMessage
    <3> QED
      BY <1>b, <2>1, <2>4, <3>1, <3>2 DEF ToRead, ToHear
  <2>5. CASE server[c] = "listen"
    <3>0. toServer[c] = <<Msg("Shutdown")>>
      BY <2>1, <2>5 DEF ToRead
    <3>1. toServer'[c] = <<>> /\ k = "Shutdown"
      BY <2>1, <3>0, ShortPipes, Kinds
    <3>2. server'[c] = "exit"
      BY <2>1, <2>5, <3>1 DEF AfterMessage
    <3>3. client[c] # "stream"
      BY <2>1, <2>5 DEF Dialogue, Streams
    <3> QED
      BY <1>b, <2>1, <2>5, <3>1, <3>2, <3>3 DEF ToRead, ToHear
  <2> QED
    BY <2>1, <2>2, <2>3, <2>4, <2>5
<1>4. CASE Ready(c)
  <2>1. /\ server[c] = "catalog" /\ toServer'[c] = toServer[c] /\ client'[c] = client[c]
        /\ server'[c] \in {"report", "start"}
    BY <1>4, <1>a DEF Ready
  <2> QED
    BY <1>b, <2>1 DEF ToRead, ToHear
<1>5. CASE Report(c)
  <2>1. /\ server[c] = "report" /\ toServer'[c] = toServer[c] /\ server'[c] = "exit"
        /\ client'[c] = client[c] /\ image'[c] = image[c]
        /\ toClient'[c] = toClient[c] \o <<Msg("DryRunReport")>>
    BY <1>5, <1>a DEF Report
  <2>2. ASSUME client[c] = "ready"
        PROVE  /\ c \in DryRun
               /\ toClient'[c] = <<Msg("Ready"), Msg("DryRunReport")>>
    <3>1. c \in DryRun /\ toClient[c] = <<Msg("Ready")>>
      BY <2>1, <2>2 DEF Dialogue, Waiting
    <3> QED
      BY <2>1, <3>1, GrowingPipes
  <2>3. ASSUME client[c] = "report" PROVE toClient'[c] = <<Msg("DryRunReport")>>
    BY <2>1, <2>3, ShortPipes DEF Dialogue, Reporting
  <2>4. toServer'[c] = <<>>
    BY <2>1 DEF ToRead
  <2> QED
    BY <1>b, <2>1, <2>2, <2>3, <2>4 DEF ToRead, ToHear
<1>6. CASE StreamAll(c)
  <2>1. /\ server[c] = "stream" /\ toServer'[c] = toServer[c] /\ server'[c] = "listen"
        /\ client'[c] = client[c]
    BY <1>6, <1>a DEF StreamAll
  <2> QED
    BY <1>b, <2>1 DEF ToRead, ToHear
<1>7. CASE SourceFails(c)
  <2>1. /\ server[c] \in {"catalog", "report", "stream"} /\ toServer'[c] = toServer[c]
        /\ server'[c] = "exit" /\ client'[c] = client[c] /\ image'[c] = image[c]
        /\ \/ toClient'[c] = toClient[c]
           \/ server[c] = "stream" /\ toClient'[c] = toClient[c] \o <<Msg("Error")>>
    BY <1>7, <1>a DEF SourceFails
  <2>2. ASSUME client[c] = "ready"
        PROVE  \/ toClient'[c] = <<>>
               \/ toClient'[c] = <<Msg("Ready")>> /\ c \in DryRun
    BY <1>b, <2>1, <2>2 DEF Dialogue, Waiting
  <2>3. ASSUME client[c] = "report" PROVE toClient'[c] = <<>>
    BY <1>b, <2>1, <2>3 DEF Dialogue, Reporting
  <2>4. ASSUME client[c] = "stream" PROVE toClient'[c] = <<>> \/ toClient'[c] = <<Msg("Error")>>
    <3>1. toClient[c] = <<>>
      BY <2>1, <2>4 DEF Dialogue, Streams
    <3> QED
      BY <2>1, <3>1, ShortPipes
  <2>5. toServer'[c] = <<>>
    BY <2>1 DEF ToRead
  <2> QED
    BY <1>b, <2>1, <2>2, <2>3, <2>4, <2>5 DEF ToRead, ToHear
<1>8. CASE ServerReadsEof(c)
  <2>1. /\ client[c] \in {"done", "failed", "gone"} /\ server'[c] = "exit"
        /\ toServer[c] = <<>> \/ server[c] = "old"
        /\ client'[c] = client[c] /\ toClient'[c] = toClient[c] /\ toServer'[c] = toServer[c]
    BY <1>8, <1>a DEF ServerReadsEof, Ended
  <2>2. client[c] = "done" => toServer'[c] = <<>>
    BY <1>b, <2>1
  <2> QED
    BY <2>1, <2>2 DEF ToRead, ToHear, Agreed
<1>9. CASE ServerDies(c)
  <2>1. /\ server[c] = "old" \/ (Alive(c) /\ ~Own(c))
        /\ toServer'[c] = toServer[c] /\ toClient'[c] = toClient[c] /\ server'[c] = "exit"
        /\ client'[c] = client[c] /\ image'[c] = image[c]
    BY <1>9, <1>a DEF ServerDies, Own
  <2>2. CASE server[c] = "old"
    <3>1. client[c] \notin Agreed
      BY <1>b, <2>2 DEF Agreed
    <3> QED
      BY <2>1, <3>1 DEF ToRead, ToHear, Agreed
  <2>3. CASE server[c] # "old"
    <3>1. ~Own(c)' /\ server[c] # "exit"
      BY <2>1, <2>3 DEF Own, Alive
    <3>2. client[c] = "init" => toClient'[c] = <<>>
      BY <2>1, <3>1 DEF Dialogue, Planning
    <3>3. client[c] = "ready" => toClient'[c] = <<>> \/ toClient'[c] = <<Msg("Ready")>>
      BY <2>1, <3>1 DEF Dialogue, Waiting
    <3>4. client[c] = "report" => toClient'[c] = <<>>
      BY <2>1, <3>1 DEF Dialogue, Reporting
    <3>5. client[c] = "stream" => toClient'[c] = <<>> \/ toClient'[c] = <<Msg("Done")>>
      BY <2>1, <3>1 DEF Dialogue, Streams
    <3> QED
      BY <2>1, <3>1, <3>2, <3>3, <3>4, <3>5 DEF ToRead, ToHear
  <2> QED
    BY <2>2, <2>3
<1> QED
  BY <1>1, <1>2, <1>3, <1>4, <1>5, <1>6, <1>7, <1>8, <1>9 DEF ServerStep

\* The dialogue and what there is to read, step by step.
PipesInv == \A c \in Clients : ToRead(c) /\ ToHear(c)

LEMMA PipesStep ==
  /\ TypeInv /\ (\A c \in Clients : AgreeOf(c)) /\ (\A c \in Clients : Dialogue(c)) /\ PipesInv
  /\ [Next]_vars
  => PipesInv'
<1> SUFFICES ASSUME TypeInv, \A c \in Clients : AgreeOf(c), \A c \in Clients : Dialogue(c),
                    \A c \in Clients : ToRead(c) /\ ToHear(c), [Next]_vars, NEW d \in Clients
             PROVE  (ToRead(d) /\ ToHear(d))'
  BY DEF PipesInv
<1>0. Dialogue(d)'
  BY DialogueStep
<1>1. CASE UNCHANGED vars
  BY <1>1, PipesFrame DEF vars, pipes
<1>2. ASSUME NEW c \in Clients, UNCHANGED embedded,
             ClientStep(c) \/ UploadStep(c) \/ ServerStep(c) \/ ServerDies(c) \/ Leave(c)
      PROVE  (ToRead(d) /\ ToHear(d))'
  <2>1. CASE d = c /\ ~UploadStep(c)
    <3>1. CASE ClientStep(c) \/ Leave(c)
      BY <1>0, <1>2, <2>1, <3>1, PipesClient
    <3>2. CASE ServerStep(c) \/ ServerDies(c)
      BY <1>2, <2>1, <3>2, PipesServer
    <3> QED
      BY <1>2, <2>1, <3>1, <3>2
  <2>2. CASE d # c /\ ~UploadStep(c)
    <3>1. /\ client'[d] = client[d] /\ server'[d] = server[d] /\ image'[d] = image[d]
          /\ toServer'[d] = toServer[d] /\ toClient'[d] = toClient[d]
      BY <1>2, <2>2, OtherClients
    <3> QED
      BY <1>2, <3>1, PipesFrame
  <2>3. CASE UploadStep(c)
    <3>1. /\ UNCHANGED <<server, image, toServer, toClient>>
          /\ client'[d] # client[d] => client[d] = "upload" /\ client'[d] \in {"start", "failed"}
      BY <2>3 DEF TypeInv, TypeOK, pipes, UploadStep, WriteBlock, CatEnds, Chmod, WriteFails
    <3>2. CASE client'[d] = client[d]
      BY <1>2, <3>1, <3>2, PipesFrame
    <3>3. CASE client'[d] # client[d]
      <4>1. server'[d] = "none" /\ toServer'[d] = <<>>
        BY <3>1, <3>3 DEF AgreeOf, QuietBefore
      <4> QED
        BY <3>1, <3>3, <4>1 DEF ToRead, ToHear
    <3> QED
      BY <3>2, <3>3
  <2> QED
    BY <2>1, <2>2, <2>3
<1> QED
  BY <1>1, <1>2 DEF Next

\* What a server has still to read begins with what its phase is for.
LEMMA ServerInStep ==
  ASSUME TypeInv, NEW c \in Clients, ToRead(c), toServer[c] # <<>>,
         server[c] \notin {"old", "exit"}
  PROVE  /\ Head(toServer[c]).kind \in ServerExpects(c)
         /\ server[c] \in {"first", "init", "start"} =>
              AfterMessage(server[c], Head(toServer[c]).kind) # "exit"
<1> DEFINE k == Head(toServer[c]).kind
<1>1. server[c] \in ServerPhases
  BY DEF TypeInv, TypeOK
<1>2. CASE server[c] \in {"greet", "hello"}
  <2>1. k = "preamble"
    BY <1>2, ShortPipes, Kinds DEF ToRead, FromClient
  <2> QED
    BY <1>2, <2>1 DEF ServerExpects
<1>3. CASE server[c] = "first"
  <2>1. k = "Credentials"
    BY <1>3, ShortPipes, Kinds DEF ToRead
  <2> QED
    BY <1>3, <2>1 DEF ServerExpects, AfterMessage
<1>4. CASE server[c] = "init"
  <2>1. k = IF c \in DryRun THEN "DryInit" ELSE "Init"
    BY <1>4, ShortPipes, Kinds DEF ToRead, PlanOf
  <2> QED
    BY <1>4, <2>1 DEF ServerExpects, AfterMessage
<1>5. CASE server[c] = "start"
  <2>1. k = "Start"
    BY <1>5, ShortPipes, Kinds DEF ToRead
  <2> QED
    BY <1>5, <2>1 DEF ServerExpects, AfterMessage
<1>6. CASE server[c] = "listen"
  <2>1. k = "Shutdown"
    BY <1>6, ShortPipes, Kinds DEF ToRead
  <2> QED
    BY <1>6, <2>1 DEF ServerExpects
<1> QED
  BY <1>1, <1>2, <1>3, <1>4, <1>5, <1>6 DEF ServerPhases, ToRead

\* What a client has still to read begins with what its phase is for.
LEMMA ClientInStep ==
  ASSUME TypeInv, NEW c \in Clients, AgreeOf(c), Dialogue(c), ToHear(c), toClient[c] # <<>>,
         client[c] \notin {"failed", "gone"}
  PROVE  /\ Head(toClient[c]).kind \in ClientExpects(c)
         /\ Head(toClient[c]).kind \notin {"preamble", "Error"} =>
              AfterAnswer(c, Head(toClient[c]).kind) # "failed"
<1> DEFINE k == Head(toClient[c]).kind
<1>1. client[c] \in {"greeting", "init", "ready", "report", "stream", "done"}
  BY DEF TypeInv, TypeOK, AgreeOf, QuietBefore, ClientPhases, Agreed, Ended
<1>2. CASE client[c] = "greeting"
  <2>1. k = "preamble"
    BY <1>2, ShortPipes, Kinds DEF Dialogue, Greeting, OnTheWay, FromServer
  <2> QED
    BY <1>2, <2>1 DEF ClientExpects
<1>3. CASE client[c] = "init"
  BY <1>3 DEF Dialogue, Planning, OnTheWay, ToHear
<1>4. CASE client[c] = "ready"
  <2>1. toClient[c] = <<Msg("Ready")>> \/ toClient[c] = <<Msg("Ready"), Msg("DryRunReport")>>
    BY <1>4 DEF Dialogue, Waiting, OnTheWay, ToHear
  <2>2. k = "Ready"
    BY <2>1, ShortPipes, Kinds
  <2> QED
    BY <1>4, <2>2 DEF ClientExpects, AfterAnswer
<1>5. CASE client[c] = "report"
  <2>1. toClient[c] = <<Msg("DryRunReport")>>
    BY <1>5 DEF Dialogue, Reporting, OnTheWay, ToHear
  <2>2. k = "DryRunReport"
    BY <2>1, ShortPipes, Kinds
  <2> QED
    BY <1>5, <2>2 DEF ClientExpects, AfterAnswer
<1>6. CASE client[c] = "stream"
  <2>1. \/ toClient[c] = <<Msg("Done")>>
        \/ toClient[c] = <<Msg("Error")>> /\ server[c] = "exit"
    BY <1>6 DEF Dialogue, Streams, OnTheWay, ToHear
  <2>2. k = "Done" \/ (k = "Error" /\ server[c] = "exit")
    BY <2>1, ShortPipes, Kinds
  <2> QED
    BY <1>6, <2>2 DEF ClientExpects, AfterAnswer
<1>7. CASE client[c] = "done"
  BY <1>7 DEF ToHear
<1> QED
  BY <1>1, <1>2, <1>3, <1>4, <1>5, <1>6, <1>7

\* For all clients, builds, versions and faults, the next message in each pipe
\* is one that its reader's phase is for and that takes the reader on, and a
\* complete server that ends has read everything.
THEOREM MessagesInStep == Spec => []InStep
<1>1. Init => (\A c \in Clients : Dialogue(c)) /\ PipesInv
  BY DEF Init, Dialogue, PipesInv, ToRead, ToHear
<1>2. /\ TypeInv /\ (\A c \in Clients : AgreeOf(c)) /\ (\A c \in Clients : Dialogue(c)) /\ PipesInv
      => InStep
  <2> SUFFICES ASSUME TypeInv, NEW c \in Clients, AgreeOf(c), Dialogue(c), ToRead(c), ToHear(c)
      PROVE
        /\ toServer[c] # <<>> /\ server[c] \notin {"old", "exit"} =>
             /\ Head(toServer[c]).kind \in ServerExpects(c)
             /\ server[c] \in {"first", "init", "start"} =>
                  AfterMessage(server[c], Head(toServer[c]).kind) # "exit"
        /\ toClient[c] # <<>> /\ client[c] \notin {"failed", "gone"} =>
             /\ Head(toClient[c]).kind \in ClientExpects(c)
             /\ Head(toClient[c]).kind \notin {"preamble", "Error"} =>
                  AfterAnswer(c, Head(toClient[c]).kind) # "failed"
        /\ server[c] = "exit" /\ toServer[c] # <<>> /\ client[c] \in Agreed =>
             image[c] # Binary(embedded[c])
        /\ client[c] = "done" => server[c] = "exit" \/ (server[c] = "listen" /\ c \notin DryRun)
        /\ server[c] = "stream" => client[c] \in {"stream", "gone"}
    BY Zenon DEF InStep, PipesInv
  <2>1. server[c] = "exit" /\ toServer[c] # <<>> /\ client[c] \in Agreed =>
          image[c] # Binary(embedded[c])
    BY DEF ToRead, Own
  <2>2. client[c] = "done" => server[c] = "exit" \/ (server[c] = "listen" /\ c \notin DryRun)
    BY DEF Dialogue, Done
  <2>3. ASSUME server[c] = "stream" PROVE client[c] \in {"stream", "gone"}
    <3>1. client[c] \in ClientPhases
      BY DEF TypeInv, TypeOK
    <3> QED
      BY <2>3, <3>1 DEF AgreeOf, QuietBefore, ClientPhases, Agreed, Ended, Dialogue, Greeting,
         Planning, Waiting, Reporting, Done, Failed
  <2> QED
    BY <2>1, <2>2, <2>3, ServerInStep, ClientInStep
<1> QED
  BY <1>1, <1>2, AgreeInit, AgreeStep, DialogueStep, PipesStep, TypeInvariant, PTL DEF Spec

(* ------------------------------- progress ------------------------------ *)

\* The server has work to do, or a message to read.
ServerGoesOn(c) ==
  \/ server[c] \in {"greet", "catalog", "report", "stream"}
  \/ server[c] \in {"hello", "first", "init", "start", "listen"} /\ toServer[c] # <<>>

\* The client has work to do, a message to read, or a timer running.
ClientGoesOn(c) ==
  \/ client[c] \in {"detect", "test", "open", "start", "greeting", "init"}
  \/ client[c] \in {"ready", "report", "stream"} /\ toClient[c] # <<>>

\* Client and server never wait for each other.  A client that waits for the
\* upload has a remote shell that still writes, or is about to make the file
\* executable; one that waits for a message has a server that goes on, or
\* that is gone, and sees the end of the pipe; a server that waits for a
\* message has a client that goes on, or that is gone.
NobodyWaitsInVain ==
  \A c \in Clients :
    /\ client[c] = "upload" => Unwritten(c) \/ CatMayEnd(c) \/ cat[c] = "closed"
    /\ client[c] \in {"ready", "report", "stream"} /\ toClient[c] = <<>> =>
         ServerGoesOn(c) \/ server[c] = "exit"
    /\ server[c] \in {"hello", "first", "init", "start", "listen"} /\ toServer[c] = <<>> =>
         ClientGoesOn(c) \/ client[c] \in Ended

ShellInv ==
  \A c \in Clients : client[c] = "upload" => cat[c] \in {"open", "closed"}

\* How far the client, the shell of its upload and its server have got.
ClientRank(p) ==
  CASE p = "detect" -> 9 [] p = "test" -> 8 [] p = "open" -> 7 [] p = "upload" -> 6
    [] p = "start" -> 5 [] p = "greeting" -> 4 [] p = "init" -> 3 [] p = "ready" -> 2
    [] p \in {"report", "stream"} -> 1 [] p \in Ended -> 0
CatRank(s) ==
  CASE s = "open" -> 3 [] s = "cut" -> 2 [] s = "closed" -> 1 [] s \in {"ended", "none"} -> 0
ServerRank(p) ==
  CASE p = "old" -> 8 [] p = "greet" -> 8 [] p = "hello" -> 7 [] p = "first" -> 6
    [] p = "init" -> 5 [] p = "catalog" -> 4 [] p \in {"report", "start"} -> 3
    [] p = "stream" -> 2 [] p = "listen" -> 1 [] p \in {"exit", "none"} -> 0

\* One of a client's processes goes on, or reads what was sent to it.
Reads(c) ==
  \/ Len(toClient'[c]) < Len(toClient[c])
  \/ toClient'[c] = toClient[c] /\ Len(toServer'[c]) < Len(toServer[c])
Descends(c) ==
  \/ ClientRank(client'[c]) < ClientRank(client[c])
  \/ /\ client'[c] = client[c]
     /\ \/ CatRank(cat'[c]) < CatRank(cat[c])
        \/ /\ cat'[c] = cat[c]
           /\ \/ at[c] < at'[c]
              \/ /\ at'[c] = at[c]
                 /\ \/ ServerRank(server'[c]) < ServerRank(server[c])
                    \/ server'[c] = server[c] /\ Reads(c)
Rests(c) ==
  /\ client'[c] = client[c] /\ cat'[c] = cat[c] /\ at'[c] = at[c] /\ server'[c] = server[c]
  /\ toServer'[c] = toServer[c] /\ toClient'[c] = toClient[c]

EveryStepCounts == [][\E c \in Clients : Descends(c) /\ \A d \in Clients \ {c} : Rests(d)]_vars

\* While the client waits for its upload the remote shell is at work.
LEMMA ShellStep == TypeInv /\ ShellInv /\ [Next]_vars => ShellInv'
<1> SUFFICES ASSUME TypeInv, ShellInv, [Next]_vars, NEW d \in Clients, client'[d] = "upload"
             PROVE  cat'[d] \in {"open", "closed"}
  BY DEF ShellInv
<1>0. client \in [Clients -> ClientPhases] /\ DOMAIN cat = Clients
  BY DEF TypeInv, TypeOK
<1>1. CASE UNCHANGED vars
  BY <1>1 DEF vars, upload, ShellInv
<1>2. ASSUME NEW c \in Clients, ClientStep(c) PROVE cat'[d] \in {"open", "closed"}
  <2>1. CASE OpenUpload(c)
    BY <1>0, <2>1 DEF OpenUpload, ShellInv
  <2>2. CASE ~OpenUpload(c)
    <3>1. UNCHANGED cat /\ client'[d] = client[d]
      BY <1>0, <1>2, <2>2 DEF ClientStep, GetServerBinary, TestExecutable, OpenRefused, StartProcess,
         AcceptGreeting, RefuseGreeting, GreetingTimeout, SendInit, Receive, AfterAnswer, Warn, ClientReadsEof,
         upload
    <3> QED
      BY <3>1 DEF ShellInv
  <2> QED
    BY <2>1, <2>2
<1>3. ASSUME NEW c \in Clients, UploadStep(c) PROVE cat'[d] \in {"open", "closed"}
  BY <1>0, <1>3 DEF UploadStep, WriteBlock, CatEnds, Chmod, WriteFails, CatMayEnd, ShellInv
<1>4. ASSUME NEW c \in Clients, ServerStep(c) \/ ServerDies(c) PROVE cat'[d] \in {"open", "closed"}
  <2>1. UNCHANGED <<cat, client>>
    BY <1>4 DEF ServerStep, ServerDies, Greet, ReadPreamble, ReadMessage, Ready, Report, StreamAll,
       SourceFails, ServerReadsEof, Serve, upload
  <2> QED
    BY <2>1 DEF ShellInv
<1>5. ASSUME NEW c \in Clients, Leave(c) PROVE cat'[d] \in {"open", "closed"}
  BY <1>0, <1>5 DEF Leave, ShellInv
<1> QED
  BY <1>1, <1>2, <1>3, <1>4, <1>5 DEF Next

\* Neither the upload, nor the greeting, nor anything after it can deadlock, for
\* any number of clients and any mixture of builds and departures: whoever waits
\* (ssh.rs upload_file, perform_handshake and recv_message on both sides)
\* waits for somebody who goes on or is gone.
THEOREM NoCircularWait == Spec => []NobodyWaitsInVain
<1>1. Init => (\A c \in Clients : Dialogue(c)) /\ ShellInv
  BY DEF Init, Dialogue, ShellInv
<1>2. /\ TypeInv /\ (\A c \in Clients : AgreeOf(c)) /\ (\A c \in Clients : Dialogue(c)) /\ ShellInv
      => NobodyWaitsInVain
  <2>0. \A a, b, d : <<a>> # <<>> /\ <<a, b>> # <<>> /\ <<a, b, d>> # <<>>
    OBVIOUS
  <2> SUFFICES ASSUME TypeInv, ShellInv, NEW c \in Clients, AgreeOf(c), Dialogue(c)
      PROVE /\ client[c] = "upload" => Unwritten(c) \/ CatMayEnd(c) \/ cat[c] = "closed"
            /\ client[c] \in {"ready", "report", "stream"} /\ toClient[c] = <<>> =>
                 ServerGoesOn(c) \/ server[c] = "exit"
            /\ server[c] \in {"hello", "first", "init", "start", "listen"} /\ toServer[c] = <<>> =>
                 ClientGoesOn(c) \/ client[c] \in Ended
    BY DEF NobodyWaitsInVain
  <2>1. ASSUME client[c] = "upload" PROVE Unwritten(c) \/ CatMayEnd(c) \/ cat[c] = "closed"
    <3>1. cat[c] \in {"open", "closed"} /\ at[c] \in 0 .. Blocks
      BY <2>1 DEF ShellInv, TypeInv, TypeOK
    <3>2. at[c] < Blocks \/ at[c] = Blocks
      BY <3>1, DeployAssumption
    <3> QED
      BY <3>1, <3>2 DEF Unwritten, CatMayEnd
  <2>2. ASSUME client[c] \in {"ready", "report", "stream"}, toClient[c] = <<>>
        PROVE  ServerGoesOn(c) \/ server[c] = "exit"
    <3>1. CASE client[c] = "ready"
      <4>1. \/ server[c] \in {"hello", "first", "init"} /\ toServer[c] # <<>>
            \/ server[c] \in {"catalog", "report", "exit"} \/ toClient[c] = <<Msg("Ready")>>
        BY <2>0, <3>1 DEF Dialogue, Waiting, OnTheWay
      <4> QED
        BY <2>2, <2>0, <4>1 DEF ServerGoesOn
    <3>2. CASE client[c] = "report"
      BY <2>2, <3>2 DEF Dialogue, Reporting, ServerGoesOn
    <3>3. CASE client[c] = "stream"
      BY <2>2, <3>3, ShortPipes DEF Dialogue, Streams, OnTheWay, ServerGoesOn
    <3> QED
      BY <2>2, <3>1, <3>2, <3>3
  <2>3. ASSUME server[c] \in {"hello", "first", "init", "start", "listen"}, toServer[c] = <<>>
        PROVE  ClientGoesOn(c) \/ client[c] \in Ended
    <3>1. client[c] \in ClientPhases
      BY DEF TypeInv, TypeOK
    <3>2. CASE client[c] \in {"detect", "test", "open", "start", "greeting", "init"} \cup Ended
      BY <3>2 DEF ClientGoesOn
    <3>3. CASE client[c] = "upload"
      BY <2>3, <3>3 DEF AgreeOf, QuietBefore
    <3>4. CASE client[c] = "ready"
      <4>1. toServer[c] # <<>> \/ server[c] \in {"catalog", "exit"} \/ toClient[c] = <<Msg("Ready")>>
        BY <2>0, <3>4 DEF Dialogue, Waiting, OnTheWay
      <4> QED
        BY <2>3, <3>4, <2>0, <4>1 DEF ClientGoesOn
    <3>5. CASE client[c] = "report"
      BY <2>3, <3>5 DEF Dialogue, Reporting
    <3>6. CASE client[c] = "stream"
      BY <2>3, <3>6, ShortPipes DEF Dialogue, Streams, OnTheWay, ClientGoesOn
    <3>7. CASE client[c] = "done"
      BY <3>7 DEF Ended
    <3> QED
      BY <3>1, <3>2, <3>3, <3>4, <3>5, <3>6, <3>7 DEF ClientPhases, Agreed
  <2> QED
    BY <2>1, <2>2, <2>3
<1> QED
  BY <1>1, <1>2, ShellStep, AgreeInit, AgreeStep, DialogueStep, TypeInvariant, PTL DEF Spec

\* The ranks of the phases.
LEMMA ClientRanks ==
  /\ ClientRank("detect") = 9 /\ ClientRank("test") = 8 /\ ClientRank("open") = 7
  /\ ClientRank("upload") = 6 /\ ClientRank("start") = 5 /\ ClientRank("greeting") = 4
  /\ ClientRank("init") = 3 /\ ClientRank("ready") = 2 /\ ClientRank("report") = 1
  /\ ClientRank("stream") = 1 /\ \A p \in Ended : ClientRank(p) = 0
BY DEF ClientRank, Ended

LEMMA CatRanks ==
  /\ CatRank("open") = 3 /\ CatRank("cut") = 2 /\ CatRank("closed") = 1
  /\ CatRank("ended") = 0 /\ CatRank("none") = 0
BY DEF CatRank

LEMMA ServerRanks ==
  /\ ServerRank("old") = 8 /\ ServerRank("greet") = 8 /\ ServerRank("hello") = 7
  /\ ServerRank("first") = 6 /\ ServerRank("init") = 5 /\ ServerRank("catalog") = 4
  /\ ServerRank("report") = 3 /\ ServerRank("start") = 3 /\ ServerRank("stream") = 2
  /\ ServerRank("listen") = 1 /\ ServerRank("exit") = 0 /\ ServerRank("none") = 0
BY DEF ServerRank

\* The client's steps: a new phase, or a warning read.
LEMMA ClientDescends ==
  ASSUME TypeInv, NEW c \in Clients, ClientStep(c) \/ Leave(c)
  PROVE  Descends(c)
<1>0. /\ client \in [Clients -> ClientPhases] /\ DOMAIN client = Clients /\ DOMAIN toClient = Clients
      /\ toClient[c] \in Seq(Messages)
  BY DEF TypeInv, TypeOK
<1>1. CASE Warn(c)
  <2>1. /\ UNCHANGED <<client, cat, at, server>> /\ toClient'[c] = Tail(toClient[c])
        /\ toClient[c] # <<>>
    BY <1>0, <1>1 DEF Warn, upload
  <2>2. Len(toClient'[c]) < Len(toClient[c])
    BY <1>0, <2>1
  <2> QED
    BY <2>1, <2>2 DEF Descends, Reads
<1>2. CASE Leave(c)
  <2>1. client[c] \notin Ended /\ client[c] \in ClientPhases /\ client'[c] = "gone"
    BY <1>0, <1>2 DEF Leave
  <2>2. ClientRank(client[c]) \in {1, 2, 3, 4, 5, 6, 7, 8, 9}
    BY <2>1, ClientRanks DEF ClientPhases, Agreed, Ended
  <2>3. ClientRank("gone") = 0
    BY ClientRanks DEF Ended
  <2> QED
    BY <2>1, <2>2, <2>3 DEF Descends
<1>3. CASE GetServerBinary(c) \/ TestExecutable(c) \/ OpenUpload(c) \/ OpenRefused(c)
  <2>1. \/ client[c] = "detect" /\ client'[c] \in {"failed", "test"}
        \/ client[c] = "test" /\ client'[c] \in {"start", "open"}
        \/ client[c] = "open" /\ client'[c] \in {"upload", "failed"}
    BY <1>0, <1>3 DEF GetServerBinary, TestExecutable, OpenUpload, OpenRefused
  <2> QED
    BY <2>1, ClientRanks DEF Descends, Ended
<1>4. CASE StartProcess(c) \/ AcceptGreeting(c) \/ RefuseGreeting(c) \/ GreetingTimeout(c) \/ SendInit(c)
  <2>1. \/ client[c] = "start" /\ client'[c] = "greeting"
        \/ client[c] = "greeting" /\ client'[c] \in {"init", "failed"}
        \/ client[c] = "init" /\ client'[c] = "ready"
    BY <1>0, <1>4 DEF StartProcess, AcceptGreeting, RefuseGreeting, GreetingTimeout, Impatient, SendInit
  <2> QED
    BY <2>1, ClientRanks DEF Descends, Ended
<1>5. CASE Receive(c) \/ ClientReadsEof(c)
  <2>1. \/ client[c] = "ready" /\ client'[c] \in {"report", "stream", "failed"}
        \/ client[c] \in {"greeting", "ready", "report", "stream"} /\ client'[c] \in {"done", "failed"}
    BY <1>0, <1>5 DEF Receive, AfterAnswer, ClientReadsEof
  <2> QED
    BY <2>1, ClientRanks DEF Descends, Ended
<1> QED
  BY <1>1, <1>2, <1>3, <1>4, <1>5 DEF ClientStep

\* The steps of the remote shell: a block written, or a step towards its end.
LEMMA UploadDescends ==
  ASSUME TypeInv, NEW c \in Clients, UploadStep(c)
  PROVE  Descends(c)
<1>0. /\ client \in [Clients -> ClientPhases] /\ DOMAIN client = Clients /\ DOMAIN cat = Clients
      /\ DOMAIN at = Clients /\ at[c] \in 0 .. Blocks /\ at[c] \in Nat
  BY DeployAssumption DEF TypeInv, TypeOK
<1>1. CASE WriteBlock(c)
  <2>1. UNCHANGED <<client, cat>> /\ at'[c] = at[c] + 1
    BY <1>0, <1>1 DEF WriteBlock
  <2> QED
    BY <1>0, <2>1 DEF Descends
<1>2. CASE ~WriteBlock(c)
  <2>1. \/ cat[c] \in {"open", "cut"} /\ cat'[c] = "closed"
        \/ cat[c] \in {"open", "cut", "closed"} /\ cat'[c] = "ended"
    BY <1>0, <1>2 DEF UploadStep, CatEnds, CatMayEnd, Chmod, WriteFails, Unwritten
  <2>2. CatRank(cat'[c]) < CatRank(cat[c])
    BY <2>1, CatRanks
  <2>3. client'[c] = client[c] \/ (client[c] = "upload" /\ client'[c] \in {"start", "failed"})
    BY <1>0, <1>2 DEF UploadStep, CatEnds, Chmod, WriteFails
  <2> QED
    BY <2>2, <2>3, ClientRanks DEF Descends, Ended
<1> QED
  BY <1>1, <1>2

\* The server's steps: a new phase, or a message read after Done.
LEMMA ServerDescends ==
  ASSUME TypeInv, NEW c \in Clients, ServerStep(c) \/ ServerDies(c)
  PROVE  Descends(c)
<1>0. /\ DOMAIN server = Clients /\ DOMAIN toClient = Clients /\ DOMAIN toServer = Clients
      /\ toClient[c] \in Seq(Messages) /\ toServer[c] \in Seq(Messages)
      /\ server[c] \in ServerPhases
  BY DEF TypeInv, TypeOK
<1>1. UNCHANGED <<client, cat, at>>
  BY DEF ServerStep, ServerDies, Greet, ReadPreamble, ReadMessage, Ready, Report, StreamAll,
     SourceFails, ServerReadsEof, Serve, upload
<1>2. ASSUME ServerRank(server'[c]) < ServerRank(server[c]) PROVE Descends(c)
  BY <1>1, <1>2 DEF Descends
<1>3. CASE ReadMessage(c)
  <2>1. /\ toServer[c] # <<>> /\ toServer'[c] = Tail(toServer[c])
        /\ server'[c] = AfterMessage(server[c], Head(toServer[c]).kind)
        /\ toClient'[c] = toClient[c] \o <<>>
        /\ server[c] \in {"first", "init", "start", "listen"}
    BY <1>0, <1>3 DEF ReadMessage, Serve
  <2>2. Len(toServer'[c]) < Len(toServer[c]) /\ toClient'[c] = toClient[c]
    BY <1>0, <2>1
  <2>3. \/ server[c] = "first" /\ server'[c] \in {"init", "catalog", "exit"}
        \/ server[c] = "init" /\ server'[c] \in {"catalog", "exit"}
        \/ server[c] = "start" /\ server'[c] \in {"stream", "exit"}
        \/ server[c] = "listen" /\ server'[c] \in {"listen", "exit"}
    BY <2>1 DEF AfterMessage
  <2>4. CASE server'[c] = server[c]
    BY <1>1, <2>2, <2>4 DEF Descends, Reads
  <2>5. CASE server'[c] # server[c]
    BY <1>2, <2>3, <2>5, ServerRanks
  <2> QED
    BY <2>4, <2>5
<1>4. CASE Greet(c) \/ ReadPreamble(c) \/ Ready(c) \/ Report(c) \/ StreamAll(c)
  <2>1. \/ server[c] = "greet" /\ server'[c] = "hello"
        \/ server[c] = "hello" /\ server'[c] \in {"first", "exit"}
        \/ server[c] = "catalog" /\ server'[c] \in {"report", "start"}
        \/ server[c] = "report" /\ server'[c] = "exit"
        \/ server[c] = "stream" /\ server'[c] = "listen"
    BY <1>0, <1>4 DEF Greet, ReadPreamble, Ready, Report, StreamAll, Serve
  <2> QED
    BY <1>2, <2>1, ServerRanks
<1>5. CASE SourceFails(c) \/ ServerReadsEof(c) \/ ServerDies(c)
  <2>1. server'[c] = "exit" /\ server[c] \notin {"none", "exit"}
    BY <1>0, <1>5 DEF SourceFails, ServerReadsEof, ServerDies, Serve, Alive
  <2>2. ServerRank(server[c]) \in {1, 2, 3, 4, 5, 6, 7, 8}
    BY <1>0, <2>1, ServerRanks DEF ServerPhases
  <2> QED
    BY <1>2, <2>1, <2>2, ServerRanks
<1> QED
  BY <1>3, <1>4, <1>5 DEF ServerStep

\* The rest of what a step leaves to the other clients.
LEMMA OthersRest ==
  ASSUME TypeInv, NEW c \in Clients, NEW d \in Clients, d # c,
         ClientStep(c) \/ UploadStep(c) \/ ServerStep(c) \/ ServerDies(c) \/ Leave(c)
  PROVE  Rests(d)
<1>0. /\ DOMAIN client = Clients /\ DOMAIN cat = Clients /\ DOMAIN at = Clients
  BY DEF TypeInv, TypeOK
<1>1. CASE UploadStep(c)
  BY <1>0, <1>1 DEF UploadStep, WriteBlock, CatEnds, Chmod, WriteFails, Rests, pipes
<1>2. CASE ClientStep(c) \/ ServerStep(c) \/ ServerDies(c) \/ Leave(c)
  <2>1. /\ client'[d] = client[d] /\ server'[d] = server[d]
        /\ toServer'[d] = toServer[d] /\ toClient'[d] = toClient[d]
    BY <1>2, OtherClients
  <2>2. cat'[d] = cat[d] /\ at'[d] = at[d]
    BY <1>0, <1>2 DEF ClientStep, ServerStep, Leave, ServerDies, GetServerBinary, TestExecutable,
       OpenUpload, OpenRefused, StartProcess, AcceptGreeting, RefuseGreeting, GreetingTimeout,
       SendInit, Receive, Warn, ClientReadsEof, Greet, ReadPreamble, ReadMessage, Ready, Report,
       StreamAll, SourceFails, ServerReadsEof, Serve, upload
  <2> QED
    BY <2>1, <2>2 DEF Rests
<1> QED
  BY <1>1, <1>2

\* Nothing in a deployment or a conversation goes round in circles: every step
\* brings one client, its upload or its server nearer to its end and leaves the
\* others where they are, so any finite number of clients comes to rest; and
\* by NoCircularWait they do not come to rest before the end.
THEOREM StepsDescend == Spec => [](\A c \in Clients : at[c] <= Blocks) /\ EveryStepCounts
<1>1. TypeInv => \A c \in Clients : at[c] <= Blocks
  BY DeployAssumption DEF TypeInv, TypeOK
<1>2. TypeInv /\ [Next]_vars =>
        [\E c \in Clients : Descends(c) /\ \A d \in Clients \ {c} : Rests(d)]_vars
  <2> SUFFICES ASSUME TypeInv, Next
               PROVE  \E c \in Clients : Descends(c) /\ \A d \in Clients \ {c} : Rests(d)
    OBVIOUS
  <2>1. PICK c \in Clients :
          ClientStep(c) \/ UploadStep(c) \/ ServerStep(c) \/ ServerDies(c) \/ Leave(c)
    BY DEF Next
  <2>2. Descends(c)
    BY <2>1, ClientDescends, UploadDescends, ServerDescends
  <2>3. \A d \in Clients \ {c} : Rests(d)
    BY <2>1, OthersRest
  <2> QED
    BY <2>2, <2>3
<1> QED
  BY <1>1, <1>2, TypeInvariant, PTL DEF Spec, EveryStepCounts
=============================================================================
