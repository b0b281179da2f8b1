# A verification project for jibs

jibs imports a selected, anonymized part of a remote MySQL database into a local one. This
directory holds TLA+ models of the parts of it that are hard to get right by testing, the TLC
configurations that check them, and TLAPS proofs. `PROJECT.json` relates every definition to
the lines it models and lists runs, mutants, hazards, findings and theorems.

## 1. The system

| Part | State | Operations | Talks to |
|---|---|---|---|
| `client/import.rs` run | what an earlier run left in the local database | detect state, `--resume`, `--clean`, start pool and server, wind up | checkpoint, foreign keys, protocol loop |
| `client/protocol.rs` loop | `pending_ddls`, `pending_loads`, `deferred_table_dones`, `table_schemas`, `completed_tables`, `skipped_tables` | Schema, Data, TableDone, Done, Error, Ctrl-C; drain, finalize, block on the oldest load | server messages, loader pool, checkpoint |
| `client/loader.rs` pool | one shared work queue, one result channel per item | CREATE TABLE (DROP + CREATE), LOAD DATA, shutdown | local MySQL, from several threads |
| `client/checkpoint.rs` | tables `_jibs_checkpoint`, `_jibs_preserve_*` in the local database | create, mark complete, clean up; back up and restore preserved rows | survives a crash |
| `client/foreign_keys.rs` | table `_jibs_foreign_keys`, the schema's constraints | capture, merge, save, drop, restore, apply, discard | survives a crash |
| `client/load.rs`, `dump.rs`, `export.rs` | a `.jibsdump` file and its `.part` | export, load | the same pool, backups and foreign keys |
| `server/traversal.rs` | visited and expanded keys, pending look-ups, reserved tables | static walk, breadth-first traversal, full-table workers, writer loop | source MySQL, from several threads; a bounded channel; stdout |
| `server/main.rs` | session state | handshake, Init/Ready, dry run, Start, interrupt listener | client over SSH |
| `parser/parser.rs` | the place in the tokens, the errors so far | statements, expressions, recovery | the resolver |
| `client/resolver.rs`, `json_config.rs` | variables, pending declarations, imported files, the plan being built | imports, variables, conditions, statements, validation | files |
| `client/main.rs` | the arguments | check, import, get, load, plan | resolver, import |
| `client/ssh.rs`, deployment in `import.rs` | the server binary on the remote host, the two pipes | probe, upload, start | remote host, other clients' uploads |

What is hard: the loop, the workers and the local database advance independently; a run may
be killed between any two SQL statements and the next one starts from what is left; results
come back out of order; the checkpoint is trusted blindly by `--resume`; the server decides
which tables a thread owns before it knows the data; rows refer to each other in circles;
clients share the remote file of the server binary without a lock; two sides of different
versions have to find that out before anything else is said; a check resolves a configuration
with other variables than the import will; two formats have to mean the same.

What makes each part correct is stated by the properties below; `hazards` in `PROJECT.json`
lists where the code could go wrong and which property would notice.

## 2. Modules

| Module | Models |
|---|---|
| `ImportClient` | run start, message loop, loader pool, checkpoint, preserve backups, crashes, interruption, resume, clean |
| `ResumableImport` | the abstract promise: tables complete one at a time, progress survives a stop |
| `ImportClientInv` | the inductive invariant of `ImportClient` |
| `ImportClientProofs`, `ImportClientSafety` | its theorems |
| `ForeignKeys`, `ForeignKeysProofs` | the local foreign keys over repeated runs, and their theorems |
| `Traversal`, `TraversalProofs` | which rows and tables the server sends, by which thread, and what it reports; and its theorems |
| `Ownership` | which thread streams which table: what `Traversal` settles and `Streaming` begins with |
| `TableStream` | the abstract promise of the stream: each table in order and once, complete only when all has arrived |
| `Streaming`, `StreamingProofs` | the server's threads, channel, writer buffer, pipe and listener, and the reading client; and its theorems |
| `DumpFormat` | what a `.jibsdump` file is, when it is whole, when a load accepts it |
| `DumpExport`, `DumpExportProofs` | `--dump-to`: the `.part` file, its publication, kills and power losses; and its theorems |
| `DumpLoad`, `DumpLoadProofs` | `jibs load`: records through the pool, backups, failed and repeated loads; and its theorems |
| `Parser` | the recursive-descent parser over token classes: statements, literals, expressions, recovery |
| `Resolver`, `JsonConfig` | from parsed statements, or from JSON, to the execution plan |
| `ConfigText` | a reference, not a model: how a statement is written as tokens with as few parentheses as its condition needs |
| `FrontEnd` | the parser's loop over the main file, then `check`, the variables a user provides, `import` and `get` |
| `Deploy`, `DeployProofs` | several clients deploying, starting and greeting servers on one host, up to the stream; and its theorems |
| `MC*` | constants for TLC |

The modules rest on each other through properties: `ImportClient` and `DumpExport` take the
server's stream as `TableStream` describes it, which `Streaming` implements
(`RefinesTableStream`, `DoneMeansAll`). `Streaming` takes the tables each thread owns from
`Traversal`: its hypothesis is `EachOnce` of `Ownership`, and `PlansShareOut` in `TraversalProofs`
proves that every plan gives it unless an aggregate's root is excluded too. `DumpLoad` reads only
whole dumps to their end because of `AcceptedIsWhole`. `FrontEnd` composes `Parser`, `Resolver`
and `JsonConfig`; its plans are those `Traversal` starts from. `Deploy` ends where `Streaming`
and `ImportClient` begin: what travels between Start and Done is one step there.

### ImportClient

The local database is `exists`, `rows` (how often each chunk has been loaded), `mine` (the
user's preserved rows are in the table), `backups`/`saved`, `ckptExists`/`ckpt`. The loop's
variables carry the source's names. A unit of pool work has a *ticket*: it is the item's
result channel and its place in the FIFO. `queue` is the crossbeam channel, `held` what the
workers have taken, `okays`/`fails` the results not read yet. `TakeWork` takes the oldest
item; `DropTable` and `CreateTable` are the two statements of `create_table`; `LoadData` is one
`LOAD DATA`; `WorkFails` is any of them failing, before or after it took effect.

The loop's handlers are split where another thread or a crash can see the difference:
`AcceptSchema`/`FinishBackup` around the backup; `RecvData` and `RecvTableDone` end in
`drain`, whose `TryRecv` steps interleave with the workers; then `DrainEnd`, `FinalizeTable`
(one checkpoint INSERT each), and, if too many loads are left, `WaitOldest`. `Done` leads
through `drainAll`, `finalize`, `restore`, `after`, `cleanup`, `shutdown`. Every error path
is `ErrorReturn` (met by the code) or `Interrupt` (Ctrl-C, connection, server, statement);
afterwards the pool works off its queue (`closing`) before the process ends. `Crash` ends the
process at any point. The server's stream is any interleaving of the tables' own messages
(`phase`, `next`). `Silent` tables get only a TableDone, `Doubled` ones are sent twice; both
occur in the source (see findings).

Left out: the mode without a pool, row counts and metrics, the read-ahead task (a FIFO of 32
that neither drops nor reorders), what `set` and `after` statements do.

### ForeignKeys

`schema` and `store` survive; `captured`, `merged` and `todo` are a run's memory. Each SQL
statement is a step, a stop is possible between any two, and the user may add, change or drop
constraints between runs. `given` records constraints that were reported as not restorable or
superseded by the source's.

### Traversal

A plan and the contents of all tables are chosen in the initial state. The relations followed
are those the plan declares and those `discover_foreign_keys` finds (constraints over one
column), without the ignored ones (`Discovered`, `Relations`). `StaticBegin`,
`StaticPop`, `StaticEnd` are `compute_potential_aggregate_tables`; `SpawnThreads` fixes which
tables the workers get; `BeginAggregate`, `RootRow`, `RootEnd`, `NextLevel`, `Lookup`,
`EndAggregate`, `EndBfs`, `SpareTable` are `run_aggregate_bfs`; `WorkerTable` a worker. The
order of a `HashMap` (look-ups of a level) and of the stack in the static walk is left open.
`Typed` rows are those whose key the text and the binary MySQL protocol deliver in different
types (dates, times, floats); integers and strings are unified by `value_to_compact_key`.
`Wanted` restates the rules of SPEC.md 525-545 as reachability, without any order.

### Streaming

Each thread is a state in `thread` and the tables it has `todo`; `sent` counts the messages of
a table handed over. `chan` is the `sync_channel`, `buf` the `MessageWriter`'s buffer, `out`
what `write_all` has still to write, `pipe` the connection. `Buffer` and `Preencoded` are
`write_message_noflush` and `write_preencoded`; whether a chunk is larger than the buffer is
left open. The main thread writes excluded tables (`WriteExcluded`) before any thread starts,
then alternates `CheckInterrupt` and `Recv`/`RecvNothing`; `Flush`, `Finish`, `JoinListener` end it.
`ThreadFails` is a failing query, connection or panic; `ClientLeaves` a Ctrl-C, error or death
of the client. `Assigned` in `Ownership` deals the full tables out in turn, as the code does.
`Contract` maps the state to `TableStream`: what has arrived is what the client has read.
Left out: metrics, sizes in bytes, the client's read-ahead task.

### DumpFormat, DumpExport, DumpLoad

A file is a sequence of records, possibly torn; the records of a table are numbered, and
`TableRec` is the nth. `Kill` loses what the `BufWriter` holds,
`PowerLoss` any end of any file, since nothing is synced. In `DumpLoad` a job stands for its
result channel, because a table has one DDL job and one job per chunk; the table of a DDL job is
dropped (`DropTable`) and created (`CreateTable`) in two steps; a statement of a worker may fail
before or after it took effect (`WorkFails`). `drain_completed` looks at the
pending loads one after the other (`visit`). Blocking receives are
guards; `JobFailed` is the error such a receive returns. `StatementFails` is any statement of
the main connection; the pool then works off its queue (`Close`). A load that finds earlier
state does nothing unless `--clean` is given, so only `StartLoad` and `StartClean` are actions.
The rows a preserve rule matches are the user's; rows of an earlier load that match it too are
not told apart.

### Parser, Resolver, JsonConfig, FrontEnd

A token is its class. Every choice in `parser.rs` is made on the next token, so its functions
are *grammar terms* (`AggregateStmt`, `QueryClauses`, ...) and `Run` walks through a term as the
functions walk through the tokens; expressions keep their tree (`BinaryLevel`, `UnaryExpr`,
`PrimaryExpr`). `Synchronize` is the recovery. `Resolver` is a record `r` threaded through one
operator per function; `err` is the first error, as the `?` of the source. `When`, `Each` and
`Unless` are the early returns. `Lookup`, `Coerce`, `EvaluateExpr`, `ResolveString` are the
values; a text is a sequence of atoms. `ResolveProgram` is the three passes: imports, then
declarations, then statements. `JsonConfig` has the same shape with the fixed order of kinds
(`Categories`), its own merging (`MergePlan`) and variables finalized in any order, since the
source iterates over a `HashMap`.

A state of `FrontEnd` is a project (files, flags, a variable file, perhaps a token missing),
the parser's progress through the main file (`ParseOne`), and the outcomes of the commands:
`Check`, `Provide` (the user gives what the check reported missing), `Import`, `Get`.

Abstractions: integers stand for both kinds of numbers, arrays of strings for all arrays; the
lexer, the splitting of interpolated strings and serde are left out (a string with a malformed
interpolation is the class `badstring`); a text that lost a token and is accepted all the same
is followed only as far as the parser. `ApplyGet` fills in the parameters of a get function one
after another in any order, since the source iterates over a `HashMap`; that no parameter is left
(`PlansAreReady`) is checked for values that do not hold the mark `{n}` of a parameter themselves.

### Deploy

The path of a binary is its build, because the source derives it from a hash. `blocks` says of
each block of the file whose bytes it holds, `exec` its mode, `last` who emptied it last.
`cat > path && chmod +x path` of each client is `OpenUpload` (truncation by the shell),
`WriteBlock`, `CatEnds`, `Chmod`; `WriteFails` is a full disk. `Leave` is a client that is
killed, loses its connection or fails locally: its `cat` sees the end of its input like one
that was given everything. The kernel's rules are external: no writing to a file that is
executed (`OpenRefused`), no executing of one that is written (`Image`). `StartProcess` starts
what is there and writes the client's preamble; the server's actions follow `main.rs` from
`perform_handshake` to the join of the listener. A build of version 0 predates the handshake: it sends
no greeting and may give up at any time. `AfterMessage` and `AfterAnswer` are what the two sides
make of a message in each phase. `SourceFails` ends the server without a word before the stream and
while its traverser is set up, with an Error during the stream. `last` is a history variable.

Left out: ssh's own timeouts. Without keepalive options a connection lost in silence is noticed
only by TCP; the model's `Leave` is noticed at the next read. A write to a peer that is gone
succeeds in the model, and is noticed at the next read.

## 3. Runs

| Run | Checks | Bounds |
|---|---|---|
| `client` | type, checkpoint, order of loads, preserved rows, bound on loads, after statements, refinement, repeated runs succeed | 2 tables (2 and 1 chunks), 2 workers, MAX_PENDING 1, 3 faults |
| `client_silent`, `client_doubled` | findings | 2 tables, 1 fault |
| `keys` | definitions survive, are restored, come back; dropped ones do not | 2 constraints, 2 definitions, 2 faults, 2 edits, with and without source constraints |
| `traversal` | rows sent once, tables foreseen, aggregates exact, full tables complete, reports, the end | 3 tables in a circle, 5 rows, every content, every root match, 10 plans |
| `traversal_typed` | finding | 1 plan |
| `streaming` | refinement of `TableStream` (order within a table), Done only after everything, server and client come to an end | 6 tables, 2 workers and the traversal thread, channel 1, buffer 2, pipe 1, 1 fault |
| `export` | what is published or accepted is whole | 2 tables, 2 exports, 2 faults |
| `load` | preserved rows, order of jobs, success is whole, bound on loads, repeated loads succeed | 4 tables, 2 workers, MAX_PENDING 1, 2 faults |
| `frontend` | what is parsed, recovery, shape of conditions, check against import, precedence of values, order of imports, agreement of the formats, complete plans | 12,589 configurations (below) |
| `config_override` | finding | the same configurations |
| `deploy` | own binary, own version, in step, everybody ends | 3 clients, 3 builds, binaries of 2 blocks, 1 client leaving |

The configurations of `frontend`: every pair of the 16 statements in `Kinds`, which between
them have every clause of the language, with each single token of the first removed and a whole
statement behind; each alone, cut short by the end of the text; all of them in both orders;
every condition of up to two operators per branch over operators of all six levels; 1,800 or so
projects of four files in two directories whose imports form chains, diamonds and cycles, with
a variable declared in none, one or two of them, with and without default, given by flag,
variable file or not at all; the same in JSON, and in JSON importing DSL files; some mistakes.
One lost token is what recovery has to survive at a time; two declarations of one variable are
the least for an order to matter. `deploy` needs three clients for one to empty the file, one
to make it executable and one to test for it, and two blocks for a file that starts but is not
complete.

Channel, buffer and pipe of one or two messages make every blocking send and write happen.
Two chunks, two workers and a pending bound of one are the least with which loads of one table
overlap, the drain has to block, and a table is finalized late; two faults let a resumed run
fail again, a third falls into the clean run after it. More tables are the business of the
proofs, which need no bound. The circle of three tables is the least in which a table is reached first forward
and then backward and leads on to a table that only the second visit finds.

**Fairness.** `ImportClient`: the loop and the workers are threads that run when they can
(weak fairness of each); a user whose run failed runs again. Faults are finitely many by
their bound. `ForeignKeys`: a run goes on, and jibs is run again. `Traversal`: the traversal
thread and the workers are operating-system threads. `Streaming`: every thread and the client
run when they can; a client that reads goes on reading. `DumpLoad`: loop and workers run, and
the user loads again, with `--clean` when the load asks for it. `Deploy`: every client, remote
shell and server goes on while it can (processes of operating systems; the client's timeout is
a timer); nothing makes a client leave or an old server give up. `FrontEnd` has no liveness:
that the parser comes to its end follows from `ParserAdvances` and the finite text.

`export`, `frontend` and `deploy` run without deadlock checking: after the last command of a
configuration, or when every client has ended, nothing is left to do.

## 4. Proofs

For every set of tables, chunk counts, number of workers, pending bound and number of faults:

* `TypeCorrect`, `PendingIsBounded`: no assumption beyond `ClientAssumption`.
* `Invariant`, `CheckpointSafety`, `LoadsAreOrdered`, `PreserveSafety`,
  `SuccessMeansComplete`, `Refinement`, `NoAnswerIsLost`: assuming `Doubled = {}`, that is, no
  table is streamed twice. The finding `client_doubled` shows that the assumption is needed.
* `FkInvariant`, `KeysTypeCorrect`, `DefinitionsAreSafe`, `RestoreIsComplete`,
  `DroppedConstraintsStay`: from `KeysAssumption` alone.
* `DeployTypeCorrect`, `ClientsRunTheirOwn`, `PeersSpeakOneVersion`, `MessagesInStep`,
  `NoCircularWait`, `StepsDescend`, for every number of clients, builds, blocks and departures:
  from `DeployAssumption`.
* `WalkForeseesData`, `AggregatesSendExactly`, for every schema, set of plans and finite contents:
  from `TraversalAssumption`. `RowsSentOnce` also assumes that no key is `Typed` (the finding
  `traversal_typed` shows why); `FullMeansComplete` that no aggregate's root is named by `full`,
  `HonestReports` that none is excluded (section 5). `StepsDescend` assumes finitely many tables
  and columns; `PlansShareOut` that no aggregate's root is excluded, and any set of workers with a
  numbering.
* `TablesInOrder`, `DoneIsComplete`, `Refinement`, for any number of tables, messages, workers and
  failures and any channel, buffer and pipe: from `StreamingAssumption` and `EachOnce`, that each
  table has one thread that streams it, once. TLC evaluates `EachOnce` on the instance, and
  `PlansShareOut` proves it of what `Traversal` hands over. `NoCircularWait` and `StepsCount` need
  the same two.
* `NothingHalfPublished`, `TerminatorMeansWhole`, for any number of tables, exports and faults: from
  `FormatAssumption`.
* `DumpLoadProofs` (`TypeCorrect`, `ChunksAfterTables`, `RowsSurvive`, `LoadedWhole`,
  `NoAnswerIsLost`), for every dump, pool, bound and number of faults and loads: from `LoadAssumption`.

`CheckpointSound` is far from inductive: that a finalized table is complete depends on every
load of it having been accounted for. The invariant `IInv` (module `ImportClientInv`) says so
in ten parts: tickets are used once; every item in the pool has its entry in `pendingDdl` or
`pendingLoads` and vice versa, or a result (`DdlInv`, `LoadInv`); a table read so far holds
each chunk once or has it pending (`TableInv`); loads never coexist with DDL of their table
(`OrderInv`), also while a stopped run's pool drains; a checkpointed table has no item left
(`CkptInv`); a table is only dropped once its preserved rows are in the backup
(`PreserveInv`). Each action has a lemma `<Action>Keeps` with one step per part it can disturb.
`NoAnswerIsLost` reads the accounting the other way round: what the loop blocks on is in the pool
or has its result, and among the items there is an oldest one (`OldestExists`), which a free worker
can take; so loop and pool cannot wait for each other.

`DroppedStaysDropped` needs that the store is empty between undisturbed runs and that what a
run merged from it was in the schema (`DropInv`).

`RunsItsOwn` is about processes, its proof about files (`ExecInv`): the file holds everything
the upload that emptied it last has written, because other uploads that are still running write
the same bytes at other offsets (`FileInv`, where the hash in the path is used); and while a
process runs nobody has its file open, so the file is still what was started (`ImageInv`, where
the kernel's two rules are used). `PeersAgree` rests on the pipes (`AgreeOf`): they are empty
before the start, and a preamble in a pipe tells its sender's version.

`InStep` adds what a conversation looks like (`Dialogue`): for each phase of the client, the phases
its server can be in and what the two pipes can hold, a server that has given up included. The
pipe to a server does not end with its client: `ToRead` says, for each phase of the server, what may
be left in it, and `ToHear`, for each phase of the client, what it may still hear (`PipesInv`). Their
heads are in `ServerExpects` and `ClientExpects`, which is what the property says.
That client and server never wait for each other (`NobodyWaitsInVain`) follows from it, and from
`ShellInv` for the part before the start: a client that waits for its upload has a remote shell at
work. `EveryStepCounts` is the termination argument behind `RunsEnd`: each step takes one client
down a lexicographic order (its phase, the shell's, the blocks written, the server's phase, the
messages to read) and leaves the others where they are. Nothing polls in this component, so any
finite number of clients comes to rest.

**Traversal.** `PotentialCovers` compares two walks that never meet: one over tables, before any
data, and one over rows. `WalkInv` says that the static walk, once over, is closed under the rules
by which rows lead to rows; `DataInv`, that every pending look-up is for a table and a direction
the walk has visited. `StreamInv` accounts for the tables of the workers, `OnceInv` for the rows.
`AggregatesExact` is exact in both directions. Nothing superfluous: every row met, and every answer
to a pending look-up, is in `Reach` (`SoundInv`). Nothing missing: the rows met so far, together
with what the pending look-ups will answer, are closed (`MetInv`), so that, once none is left, they
contain the least closed set. That `Reach`, a function over the naturals that adds layer after
layer, is that set (`ReachLeastClosed`) takes an induction, which is stated for a set and proved
from its least counterexample, and a bound on the number of layers by the number of pairs.

`StepsDescend` is the termination argument behind `TraversalEnds`. `Descends` is a lexicographic
order: the part of the run, the aggregate, the tables the workers have left, then what the part
uses up. The static walk marks each table at most twice. A level of the traversal either expands a
row in a direction it was not expanded in before (there are finitely many, although rows refer to
each other in circles), or ends with no look-up pending, or does one look-up. `Bounded` says that
what shrinks is finite and what grows has a bound.

`PlansShareOut` compares the end of the planning with `EachOnce`: the tables of the workers, the
spare ones, those the traversal has touched and the excluded ones are disjoint and are all there
is, in whatever order they are listed (`Listings`); and a list without repetition that is dealt
out in turn gives every worker its own part of it (`DealtShares`, which is division with
remainder).

**Streaming.** The messages between a thread and the client lie in the pipe, in what `write_all` has
left, in the buffer and in the channel; `Feed` is the four one after the other, and a step of the
writer moves a message from one to the next without changing it. While the receiver lives, `Feed`
holds every message handed over and not yet read, in the order of its table (`Open`); after it is
dropped messages may be missing, but then Done is not in it, or Done is the last and nothing is
missing (`Closed`). Done is written only when every thread has ended well, and then every table is
sent (`DutyInv`). The refinement follows: the client's read of a table's message is the next one
of `TableStream` (`ReadDelivers`), its read of Done is `Complete`, and the other steps stutter.

Two theorems carry the argument for `EveryoneEnds`. `NobodyWaitsInVain` lists the four places where
somebody blocks (a full channel, a full pipe, the joins, the wait for the listener) and what
releases each; for the last it is needed that a client that still reads has Done before it
(`EndInv`). `EveryStepCounts` says that a step either descends in a lexicographic order (stage of
the main thread, messages still to send, states of the threads, channel, what is being written,
pipe, client, flag) or is a poll of the interrupt flag with an empty channel. A run with infinitely
many steps therefore polls for ever; that it does not is left to fairness, and to TLC.

**Dumps.** `PartInv` says for each phase of an export what the `.part` file consists of. A file with
a terminator is whole because the terminator comes last in what is written (`EndIsLast`), and what
a kill or a power loss leaves is a beginning of it (`WhatRemains`). `DumpLoad`'s invariant is that
of `ImportClient` without a checkpoint, over jobs instead of tickets: every job that is in the pool,
or has failed there, has its entry in `pendingDdls`, `pendingLoads` or `visit`, and a chunk that
was read is in its table once or has such a job (`DdlInv`, `LoadInv`); a table is dropped only when
the rows to keep are in its backup (`KeepInv`). `AnswerInv` adds the converse: what has an entry
is in the pool or has a result that nobody else receives, because a load is waited for in one place
only (`Apart`).

**Only model-checked.** Liveness (`ResumingConverges`, `LoadsConverge`, `EveryoneEnds`,
`TraversalEnds`, `RunsEnd` and the return of foreign keys): the prover has no fairness and no
ENABLED, so that the theorems above give the safety part of the argument (nobody waits in vain,
every step uses something up) and TLC the rest; and the properties of `FrontEnd`, because `Parser`, `Resolver` and
`JsonConfig` are recursive operators over statements and tokens. Every other invariant that a run
checks is a theorem.

## 5. Findings

Four runs end in a violation; each states what the repository says and shows that the code
does otherwise: `client_silent`, `client_doubled`, `traversal_typed`, `config_override`.
`PROJECT.json` quotes the lines.

Other places where code and documents, or code and a reader's expectation, part; the models
follow the code, and the properties are stated so that they hold of it:

* **Deployment.** A `cat` whose connection breaks ends as if it had everything, so `chmod +x`
  makes a truncated file executable, and every later `test -x` (`import.rs:510`) takes it for
  the server until somebody deletes it. `RunsItsOwn` therefore speaks of uploads that reached
  their end, and `RunsEnd` says only that the clients notice.
* **Foreign keys.** When the server reports source constraints, they replace the local ones
  (`import.rs:301`): a local-only constraint is gone after a successful import, while
  README.md:150 and SPEC.md:892 say that local constraints are restored. A run stopped between
  the last ADD CONSTRAINT and the removal of the store leaves definitions that a later run puts
  back although the user dropped them since.
* **Full tables.** A table that is named by `full` and is an aggregate's root gets only the rows
  of the root query; SPEC.md:539 says full tables are imported completely.
* **Excluded roots.** An aggregate's root that is also an `exclude_data` table is sent by the main
  thread as excluded and again, with the rows of its root query, by the traversal: only look-ups
  test for excluded tables (`traversal.rs:647`). The report calls it excluded (`traversal.rs:294`).
* **Relations.** `ignore_relation` also removes relations the configuration declares; SPEC.md:326
  speaks of discovered ones.
* **Parser.** Recovery always skips a token. When an error is met at the keyword of the next
  statement, that statement is skipped with it, and its own errors stay hidden (`parser.rs:5`
  says they do not).
* **Conditions.** A `#[when]` on a `var` does not keep the variable from being declared
  (SPEC.md:767: any statement).
* **Check and import.** The import of a JSON file does not validate its plan (`resolver.rs:94`
  says that both do). A missing array is reported by the check but cannot be given. A missing
  integer is checked as 0: a condition that divides by it stops the check with a panic.
* **Limits.** `limit $x` of an aggregate with an `$x` that is not an integer means no limit.
* **JSON.** A default that mentions another variable works or fails with the order of a hash
  table. The statements of an imported JSON file run before its variables are finalized. Full
  tables, patterns and get functions of an imported `.jibs` file are dropped; one that two JSON
  files import through different files is resolved twice. A second `anonymize` block for a table adds to
  the first in JSON and replaces it in the DSL.

## 6. Plan

`CompactKey` and TSV escaping as pure operators; the import loop without a pool; the theorems of
`FrontEnd`, should the prover learn induction over data.

**Not modelled.** The lexer and the splitting of interpolated strings (character by character,
no state over time); the SQL text and the TSV encoding (formatting of values); progress, metrics
and reports (presentation); the encoding of messages (serde and bincode); options and host keys
of ssh; two imports into one local database at once, which nothing in the code prevents and the
documentation does not provide for.
