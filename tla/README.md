# Verification of the accelerometer system

TLA+ models of this repository, TLC configurations that check them on small
instances, and TLAPS proofs for every value of the constants. Paths are those
of the repository (`src/server/...`, `tcpdump-sh/...`).

Contents: [Inventory](#inventory) · [Modules](#modules) · [Runs](#runs) ·
[Fairness](#fairness) · [Proofs](#proofs) · [Findings](#findings) ·
[What is not modelled](#what-is-not-modelled) · [Plan](#plan)

## Inventory

The repository holds two systems that do not interact: three C++ programs that
talk over TCP, and two shell scripts that capture network traffic.

### Routing server (`src/server`)

One thread runs `io_context::run()`; everything is a completion handler.

| Part | State | Operations |
|---|---|---|
| `TcpServer` | the acceptor | `Start`, `AcceptNext`: one `async_accept` at a time, its handler creates a session and accepts again |
| `ClientSession` | `role_`, `last_accel_packet_`, `write_queue_`, `closed_`, an outstanding read, an outstanding write | `ReadNextLine` / `HandleLine` (hello, accel, module), `SendJson` / `WriteNextMessage`, `Close` |
| `ServerState` | `node_a_`, `node_b_` (weak pointers) | `SetNodeA/B`, `GetNodeA/B`, `RemoveSession` |

A handler of one session calls into `ServerState` and, through it, into another
session (`SendJson`). A session lives as long as a handler of its operations
holds it. *Hard*: an operation completes before its handler runs, and another
handler may close the session in between; closing cancels the other operation,
whose handler still comes; a line that was read before the close is handled
after it; clients vanish, come back, or say hello twice; the process dies.
*Correct* means: registry and sessions agree, one session per role, at most one
write at a time and none forgotten, the read loop never stops silently, lines
reach sessions of the right role, sessions are released and nothing is
forgotten.

### JSON protocol and packet types (`src/common/json_protocol.cpp`, `include/common`)

No state. Every hop parses a line, validates version, type, role and fields,
and writes it again. *Hard*: integers of different widths and signs, infinite
results, what the parser of the library makes of what the library wrote.
*Correct*: a value accepted once is accepted unchanged by every later hop; what
is not a valid message is refused. `AccelPacket::IsDuplicate` compares rounded
axis values: *correct* means that packets dropped as duplicates are near.

### Node A (`src/node_a`) and Node B (`src/node_b`), over `TcpClient` (`src/common`)

Node A's main thread connects, says hello, and writes a generated packet every
20 ms until a write fails; a second thread reads modules and appends them to
`accel/module.log` while a shared flag is set; main then closes the socket and
joins the thread. Node B reads a packet, computes the module and writes it, in
one thread. All their calls block. *Hard*: two threads on one socket; blocking
writes on both sides of full buffers; the death and restart of any process with
lines in flight, and an old connection that the server has not seen end yet.
*Correct*: the log is a record without repetitions, ordered within one run of
Node A and never mixing two runs, whatever fails; the programs are never all
blocked while something is on its way; without failures what is forwarded comes
back; programs end when the server does.

### Capture scripts (`tcpdump-sh`)

`bbuadm_tcpdump_capture.sh` keeps `SHUTDOWN_MODE`, `STOP_REASON`,
`FINAL_EXIT_CODE`, the pids of tcpdump, the disk monitor and the recovery
compression, and the files in `dumps` and `dumps/tmp`. Operations: the signal
handlers (INT, TERM, USR1 for the last file, USR2 for low disk), the disk
monitor, waiting for tcpdump and its compressions, recovery of raw files, the
exit handler. `bbuadm_gzip.sh` is started by `tcpdump -z` for each closed file
(and by recovery): index check, compression into a `.part` file, publication by
`mv`, removal of the raw file, its own signal handlers. *Hard*: signals between
any two commands, the process group, checks that are stale when acted on,
partial failure. *Correct*: `dumps` only holds complete files with allowed
indices, a graceful stop loses no raw file, low disk starts no recovery, the
exit code tells the reason, nobody writes to `dumps/tmp` once it is removed, the
script ends. `tcpdump-sh/utils` and `Test.md` are demonstrations and an older
draft of the scripts.

## Modules

| Module | What it is |
|---|---|
| `AccelPacket` | `AccelPacket`, `AccelModule`, the duplicate filter, the computation of a module |
| `AccelServer` | the server with unconstrained clients; its properties |
| `MCAccelServer` | instances of it |
| `AccelServerProofs`, `LateLineProofs` | its inductive invariant and theorems; the order of late lines |
| `JsonProtocol` | the parsers and writers of messages over JSON values |
| `JsonRelay` | the content of one message through server, Node B, server, Node A |
| `MCJsonRelay`, `JsonRelayProofs` | instances and proofs |
| `ModuleLog` | abstract specification: what the system promises about `accel/module.log` |
| `AccelSystem` | `AccelServer` with the programs Node A and Node B as its clients, faults and restarts |
| `MCAccelSystem`, `AccelSystemProofs` | instances; what holds of the server holds in the system, and nobody waits in vain |
| `PipelineProofs` | the way of a packet through `AccelSystem`: every step keeps whatever order the packets are in |
| `ModuleLogProofs` | `AccelSystem` implements `ModuleLog` |
| `DumpStore` | abstract specification: what the capture promises about `dumps` |
| `GzipHandler` | `bbuadm_gzip.sh`: the compression handlers, their compressors, the files |
| `Capture` | `bbuadm_tcpdump_capture.sh` over `GzipHandler`, with tcpdump, the disk monitor and an operator; its runs need no MC module |
| `CaptureProofs` | proofs |

### AccelServer

A connection and its session have the same name. Every asynchronous operation
goes through `"none"` → `"pending"` → `"done"` or `"failed"` (`rd`, `wr`);
completing it appends to `ready`, the queue of `io_context`, and the handler at
the front runs as one atomic step, because the server has one thread.

| Code | Model |
|---|---|
| `async_accept`, its handler | `AcceptCompletes`, `StartSession` |
| `async_read_until`, its handler | `ReadCompletes`; `ReadFails` or, by what `HandleLine` does, `Register`, `AcceptPacket`, `ReturnModule`, `DropLine` |
| `async_write`, its handler | `WriteCompletes`; `WriteFails`, `WriteSucceeds` |
| `SendJson`, `Close` | `Forward`, `Close` (parts of the handlers that call them) |
| `weak_ptr::lock` | `Lock`: the slot's session while an operation of it is outstanding |
| TCP | bounded FIFO `toServer`, `toClient`; `peer` is the client's end |

A line is what `HandleLine` makes of it; every rejected line is one
`InvalidLine`. A read that completed stays completed when the session is
closed. To a client that is gone a write may first succeed; a reset may discard
what was not read. `DropLine` is exactly the lines for which no other handler's
conditions hold, that is, every early return. Operators called *Variant* in
a comment are plausible defects: replacing the definition that follows by the
variant shows that a property notices.

### JsonProtocol and JsonRelay

JSON values are of the kinds the validation tells apart; a document is the set
of its fields. `Wrap` is the conversion to a signed type of a given width;
`LexInteger` and `Relex` say what nlohmann::json's lexer makes of an integer
literal and of what `dump()` wrote (the sign decides the kind; an infinite
double becomes `null`). `getInt64Field` keeps the order of its tests.
`JsonRelay` sends one first line through the four hops; it abstracts from
sessions and delivery, which are `AccelServer`'s subject. Axis values are
integers, one decimal digit finer than the grid of the duplicate filter; a
module is represented by its square, since `sqrt` is injective on squares.

### AccelSystem and ModuleLog

`AccelSystem` extends `AccelServer` and replaces its free clients by the
programs. `aSender` and `aReceiver` are the program counters of Node A's
threads, `aRunning` is the flag they share, `bState` is that of Node B. Each
run of a program uses a connection not used before. A program may be killed at
any point and started again, and so may the server. `TcpClient`'s blocking
write is a step that is enabled when there is room; when the server has closed
the connection a write fails or is lost, a read fails or returns what had come
before. A line that Node A reads between the shutdown and the end of its
receiver thread is the same as one read just before the shutdown. The
timestamp of a packet is its number: equal readings of the system clock, and
clocks set back, are not distinguished, and a module in the log is known by it.
One axis stands for the three.

`ModuleLog` has two actions, `Generate` and `Log`; its log only ever grows by
the module of a packet that is not in it yet and is later than all packets of
its run that are, and only while the log has not gone on from that run to
another one (`Over`). So the log is made of blocks, one for each run of Node A
that has anything in it, and each block is in order. `AccelSystem` implements it
with its own variables `generated` and `log` (property `ImplementsLog`); a run
of Node A is known by its connection.

In which order the blocks come is not promised, because the code does not keep
the order in which the runs were started, but that in which the server registers
them. Run 1 of Node A dies with its hello and a packet unread in its connection.
Run 2 is registered before that hello is handled, has a packet logged, and dies.
The hello of run 1 is handled now, finds the role free, and the packet behind it
is forwarded: its module comes back to run 3 and is logged after that of run 2.

### GzipHandler, Capture and DumpStore

A handler is named by who starts it (`"rotate"`: tcpdump; `"recover"`: the main
script) and the index of its raw file. `handler` says where each one is in its
script, `xz` what its compressor does, `raw`, `part` and `dumps` what files
there are.

| Code | Model |
|---|---|
| `postrotate` up to the compression | `Overflow`, `Admit` |
| `compress_file` | `Launch`, `StorePid`, `Compressed` or `CompressionFails`, `PublishFile`, `RemoveRaw` |
| `sigterm_handle` of the handler; a second SIGTERM | `Terminate`, `Reap`, `Tidy`; `Killed` |
| the four traps of the main script | `TrapFirst`, `SetMode`, `SetReason`, `TrapLater`; `TrapTerm` |
| the checks before the capture, the launch | `PrepareFails`, `Prepare`, `LaunchTcpdump`, `StorePids` |
| `wait_tcpdump` and the end of the script's body | `WaitTcpdump`, `SetModeAtExit`, `SetCodeAtExit` |
| `exit_handle`, `graceful_finish` | `ExitHandle`, `WaitPostrotate`, `TestDisk`, `AfterGraceful`, `Cleanup` |
| `recover_files`, `run_gzip_handler` | `RecoverNext`, `RecoverEnds`, `StartGzip`, `StoreGzipPid`, `WaitGzip`, `WaitAgain`, `GzipOver`, `RecoveryFails` |
| `immediate_finish` | `ImmediateFinish`, `WaitGroup` |
| `disk_monitor`; tcpdump; `kill`, Ctrl-C | `LowDisk`; `Tcpdump` (external); `OperatorSends` |

Three facts about bash carry the model. The trap of a pending signal runs
before the next command, also inside the trap of another signal, but not inside
its own; so `traps` is a stack, and between the test of the mode in
`request_graceful` and the assignments after it anything may be handled. A
signal with a trap ends the builtin `wait` with a status of its own (`waited`).
A trap is inherited by no child: a handler that has not set its own yet dies of
SIGTERM, which is `Terminate` as well. The main script's steps are the commands
between which a signal makes a difference; commands whose order nobody can see
are one step (the reason and the code of a request, `TCPDUMP_PID` and `PGID`).

tcpdump is started in the background, becomes the leader of a process group,
then captures; it rotates any number of times, also after it has been told to
stop and before it has; rotation handlers belong to its group, recovery
handlers do not. The group is running while any process in it is
(`GroupIsRunning`), compressors included. A compressor may succeed or fail at
any time, which includes that a signal ended it. `Content` says what a `.part`
file holds when `mv` publishes it: all of the raw file only if its compressor
has succeeded and tcpdump had closed it.

`DumpStore` has one action: a whole file appears under an index below
`MAX_DUMP_FILES` that had none. `Capture` implements it with `published` the
set of pairs of an index and a content in `dumps` (property `ImplementsStore`).

## Runs

| Run | Instance | What it shows |
|---|---|---|
| `server` | three interchangeable connections, one packet, two lines each, room for one line in each direction | `TypeOK`, `RegistryAgreement`, `RightRecipient`, `LateLineFirst`, `HolderNeverDisplaced`: the registry, and the last line of a closed session, while connections compete, fail and are replaced and the server restarts |
| `server_queues` | two connections, three lines each, fair | `OneWriteInFlight`, `ReadLoopAlive`, `HandlersMatchOperations`, `SessionLifecycle`, `NothingForgotten` with queues of several lines, and `SessionsReleased` under fairness |
| `relay` | 3-bit `int`, 5-bit `int64_t`, some 1500 lines | `ForwardedAsAccepted`, `GeneratedIsLogged`, `LogIsOfPacket`, `HelloIsUnderstood` |
| `relay_timestamp`, `relay_version` | the same | the two [findings](#findings) |
| `system` | two connections per node with room for two lines, three packets, one fault | `NobodyWaitsInVain`, `ImplementsLog` |
| `system_live` | one run of each program, four packets of which one is a duplicate, no fault | `ModulesComeBack` |
| `system_ends` | two connections for Node A, one for Node B, two packets, one fault | `NodesFollowServer` |
| `capture` | two allowed files and a third, two signals of an operator | `TypeOK`, `ImplementsStore`, `DestinationFree`, `NothingLost`, `QuietAtEnd`, `LowDiskSparesDisk`, `SigtermStays` |
| `capture_live` | one allowed file and a second, two signals, fair | `SignalsEndCapture`, `TcpdumpEndsScript` |
| `capture_sigterm_ends`, `capture_failure_code` | one allowed file and a second, one signal | two more [findings](#findings) |

Why these bounds. Two sessions meet in every property of the registry, a third
lets one replace another while the first still has a handler to run. Room for
one line makes every write block and every queue grow; two lines per client are
a hello and a message, three let a queue hold two lines while a write is
outstanding. Widths of three and five bits have the same order of bounds as 32
and 64, and the integers lie on both sides of each. One fault, in any state, is
the death of any program with all its lines in flight, followed by its restart
(or, for the server, everybody's); three packets give the old and the new run of
Node A one each to mix up and one to follow. Room for two lines lets a hello and
a packet of a dead run wait unread together. Three runs of Node A, which the
order across runs takes, are beyond this instance; what holds of any number of
runs, that each is in order and no two mix, is the theorem
`SystemImplementsLog`. `MaxSent`, `MaxClock` and `MaxFaults` bound behaviours,
not the code; so the runs do not check for deadlock, the clients simply have
nothing more to say at the bound.

For the capture, two allowed files let a rotation handler work on one index
while tcpdump writes, or recovery handles, the other; the third overflows. The
operator's two signals come on top of USR1, USR2 and TERM, which the script's
own processes send without bound, so that four traps may be pending and nested
at once; two SIGTERMs in a row reach every place of both scripts. One allowed
file is the last allowed file too, which is enough for the liveness properties,
as no file waits for another one. The script ends, so these runs do not check
for deadlock; that it ends is what `capture_live` is for.

## Fairness

Server: `io_context::run()` runs the handler at the front whenever there is one
and no handler blocks; the kernel completes an operation that can complete
(weak fairness for the handlers, and per session for the three completions).
Nodes: each thread runs on when its call can return. Nobody has to connect, to
fail or to start a program. The clients of `AccelServer` have no fairness:
`SessionsReleased` holds although they may stop in any state.

Capture: the main script with its traps, every handler and every compressor go
on when they can, and tcpdump gets ready and stops once it is told to. Nobody
has to rotate, fail, fill the disk or send a signal, and tcpdump need not end
of itself. With this, a signal during the capture ends the script
(`SignalsEndCapture`), and so does the end of tcpdump (`TcpdumpEndsScript`).

## Proofs

Assumptions: `ServerAssumption` (the buffer holds a line, the placeholders
`NoSession` and `NoPacket` are not sessions or packets), `WidthAssumption` (an
`int` has two bits or more and fits into an `int64_t`, whose values fit into a
double), `RelayAssumption` (documents hold values that a lexer delivers, the
emulator's values are finite and not before 1970), `SystemAssumption` (each
connection belongs to one node; the packets and modules of the signal are among
`Packet` and `Module`), and for the capture `MaxDumpFilesAssumption` (at least
one file), `MaxIndexAssumption`, `OperatorAssumption` and `MaxSignalsAssumption`
(INT and TERM, a number of them). TLC evaluates all of them in the runs.

*AccelServerProofs.* None of the safety invariants is inductive alone. `IInv` is
the conjunction of `TypeOK`, `SessionLifecycle`, `RegistryAgreement`,
`OneWriteInFlight`, `ReadLoopAlive`, `RightRecipient` and
`HandlersMatchOperations`. The point where they need each other is a line
handled after its session was closed: it could register the closed session. It
cannot, since only a failed write closes a session that still has a line to
handle, only a session with a role has anything to write (`SessionLifecycle`),
and a session with a role does not register again; and a slot found empty by
`Lock` really is empty, since its session would be open (`RegistryAgreement`)
and therefore reading (`ReadLoopAlive`). The lemmas on the injective queue
`ready` carry `HandlersMatchOperations`; there is one lemma per action.
Theorems: `TypeCorrect`, `RegistryAgrees`, `OneWriteAtATime`, `HandlersMatch`,
`RecipientsAreRight`, `LifecycleHolds`, `ReadingGoesOn`, the action property
`HoldersKeepRoles`, and `DuplicatesAreNear` about the filter.
`NothingIsForgotten` is what `SessionsReleased` says without fairness: when the
server has no handler to run and no operation that can complete (`ServerWaits`),
every session whose client has gone is closed, destroyed and not registered,
every line sent to an open session has been handled, and a line is in a queue
only because the client does not read. It uses all of `IInv` but
`RightRecipient`.

*JsonRelayProofs.* `AcceptedSurvivesForwarding`: for every line and all widths,
Node B reads the packet that the server accepted. The argument is the round
trip: an accepted timestamp is in the range of `int64_t` (even a wrapped one),
writing gives it the kind of its sign, and parsing gives the same number back;
an accepted axis value is finite. `ResultInv` follows the packet on its way
back: Node B's line holds the module of the accepted packet, or `null`, which
the server refuses (`InfinityRefused`); so `LogFollowsPacket`,
`GeneratedComesBack` and, by the round trip of a hello, `HelloIsAccepted`.

*AccelSystemProofs.* `SystemImplementsServer`: every step of a node is a step
that `AccelServer` allows the client of its connection. The invariant needed
says which connection a running program has and that Node B holds a packet of
`Packet` when it writes. So the invariants of the server hold in the system,
whatever dies (`ServerInvariantsInSystem`).
`NobodyWaits` is freedom from deadlock, stated without `ENABLED`: a server that
waits has read everything that was sent to an open session, so there is room for
Node B's write; and if a line waits in a queue, the connection to that client is
full, so the client has something to read (both are `OpenWaits`, the lemma of
`NothingIsForgotten`).

*LateLineProofs.* A session that a failed write has closed may still handle one
line, after the next session of its role has been registered. `LateLineFirst`
says that this line is handled before anything that the new session has
completed, and that there is one such line per role. It is inductive together
with `IInv`: the handler that closes the session is at the front of `ready`, so
no other late line of the role is queued before it and no other session of the
role is open (`RegistryAgreement`); a session that registers afterwards has
nothing queued, and what completes joins the end (`LateLineIsFirst`).

*PipelineProofs.* The places where a packet may be are put in a line of nine
stages (`Pipe`): the connection of a run of Node A at the entrance, the queue of
Node B's session, Node B's connection, the packet it computes, its connection
back, the late line of a closed session of Node B, the queue of Node A's
session, Node A's connection, the log. Every run has an entrance of its own, all
other stages are shared. An order is any set of pairs of packets that may not
come one before the other; the pipeline is `Sorted` if no two packets in it,
within a stage or from stage to stage, are such a pair. Three facts about
sequences of lines carry every step, whatever the order: what loses lines stays
sorted (`SortedThins`), so does a packet that moves from the front of one stage
to the end of a later one if nothing is between them (`SortedMove`), and so
does a packet that may come after all there are (`SortedGrows`, `SortedInsert`).
That nothing is between them is where the properties of the server are needed:
roles are held by one session (`RegistryAgreement`), and the late line goes
first (`LateLineFirst`). Two steps are left over: Node A writes a new packet
(`AWritesPacket`), and the server takes a packet from an entrance into the shared
stages (`Enters`). `Content` says which lines can be in which queue: a packet or
module anywhere is that of a generated packet, a connection of Node A carries
only packets of its run.

*ModuleLogProofs.* `SystemImplementsLog`: every step of the system is a step of
`ModuleLog` or leaves its variables alone. The orders that matter are two.
`PipeOrdered`: no packet comes before an earlier one of its run. `RunsApart`: of
any two runs, no packet of one comes before one of the other, in one of the two
directions. The second is not inductive alone, since a packet that enters must
find all others of its run behind those of every other run. That needs to know
which run is the last: the one whose session may still hand a packet over, and
every other run is before it; a run whose session is not registered as Node A's
yet has nothing in the shared stages at all. The hard case is the one with two
such sessions: one closed that still handles the line it has read, and one
registered since. There the new run has nothing in the shared stages, because
`LateLineFirst` puts that line before everything the new session has read; and no
third session comes in between (`RegistryAgreement`). These are the four
conjuncts of `RunsApart`. `OrderInv`, the conjunction of `Content`,
`PipeOrdered` and `RunsApart`, is inductive together with the invariants above;
and when Node A reads a module, the order between its connection and the log is
the guard of `Log`.

The first version of `ModuleLog` promised that the runs come in the order in
which they were started. TLC found nothing against it in an instance with two
runs of Node A; the proof did not go through where a session registers whose
connection already holds packets, and that case is the behaviour described under
[AccelSystem and ModuleLog](#accelsystem-and-modulelog). What the code does keep,
that runs do not mix, is proved instead.

*CaptureProofs.* `IInv` says who may work on the files of one index. A recovery
handler is only started when tcpdump's group is over (`StartInv`); a group that
is over does not come back (`TcpdumpInv`); and the script waits for every
recovery handler before it goes on to the next index (`TurnInv`). So no two
handlers ever share a `.part` or a raw file, and what a handler publishes is
what its own compressor has made (`FileInv`); `QuietInv` follows the main
script from its last wait to its end. From it: `DestinationIsFree`,
`NothingLeftAtEnd`, and `CaptureImplementsStore`, in which the only step that
is not a stutter is `PublishFile`. `LowDiskIsRespected` needs a second
invariant, `DiskInv`: while the code is that of a low disk the reason is too, and
once a recovery has begun no request can be the first one any more;
`SigtermIsKept` needs none. `NothingIsLost` needs two more: `KeepInv` (a raw
file is removed only after its compressed one is in `dumps`) and `LossInv`,
which follows the loop of `recover_files`: every index it has passed is
published or reported with code 14, because a recovery reported as done has
published, and once the end has begun no request of a graceful stop can change
the code or the reason. `TypesHold` is the whole type invariant; the types that
those proofs do not use (`ScriptTypes`, `OtherTypes`) are proved after them. All
of them hold for any number of files and signals.

Only model-checked: the liveness properties (`SessionsReleased`,
`ModulesComeBack`, `NodesFollowServer`, `SignalsEndCapture`,
`TcpdumpEndsScript`), which need fairness and `ENABLED` and are out of the
prover's reach. Every safety property of a passing run is the subject of a
theorem.

## Findings

1. `relay_timestamp`: `getInt64Field` tests `is_number_integer()` first, which
   is also true of unsigned numbers, so its range check is dead code: a
   timestamp of 2^63 or more is accepted as a negative number
   (`src/common/json_protocol.cpp:52-66`, against the check's own message on
   line 63). It survives the later hops unchanged (`ForwardedAsAccepted`).
2. `relay_version`: the version is truncated to `int` before the comparison,
   so 2^32 + 1 is accepted as version 1 (`src/common/json_protocol.cpp:300`).

3. `capture_sigterm_ends`: a SIGTERM that is handled before `TCPDUMP_PID` and
   `PGID` are assigned (`tcpdump-sh/bbuadm_tcpdump_capture.sh:572`), or before
   `setsid` has made the group, stops nothing. tcpdump is started all the same,
   and because the mode is immediate now, `request_graceful` ignores SIGINT, the
   last file and the low disk: only a second SIGTERM ends the capture. The
   specification promises that SIGTERM stops tcpdump.
4. `capture_failure_code`: `run_gzip_handler` returns the status of the last
   `wait`. The handler of the last allowed file sends SIGUSR1 to the script that
   waits for it; if it ends while that trap runs, its success is reported as
   failure, with exit code 14.

While modelling the capture, TLC found four more ways in which a SIGTERM in a
narrow window is not handled as the specification says. They share one cause,
a test of the mode acted on after a trap has changed it, except for the last:

- In `request_graceful`, between lines 281 and 284: the mode goes back from
  immediate to graceful and the exit code is not 143.
- Between lines 583 and 586: the exit code is that of tcpdump.
- Between lines 412 and 382: one more recovery compression is started, and runs
  to its end; between lines 428 and 431 the exit code becomes 14.
- In `bbuadm_gzip.sh`, between lines 73 and 75, and by a second SIGTERM: the
  handler ends without stopping its compressor. If it is a recovery handler,
  nobody waits for the compressor, which may still write when `dumps/tmp` is
  removed.

`SigtermStays` says that outside the first three a SIGTERM is final, and
`QuietAtEnd` that nothing else can be left running.

Behaviour worth knowing that contradicts no document: a client whose hello is
handled before the server has seen the end of its predecessor's connection is
refused, is not told and does not ask again; a packet accepted while Node B is
absent is lost and still hides its duplicates from a later Node B; a packet left
unread in the connection of a dead run of Node A may be logged after those of a
later run. All are in the list of hazards. None of them repeats a module in the
log, reorders those of one run or mixes those of two (`ImplementsLog`).

## What is not modelled

- The error returns of resolving and connecting: the program ends before it has
  any state. (`TcpServer::Start` is `ServerStarts`; when it fails the server stays
  down.)
- Logging, counters that only decide when to log, the texts of errors.
- Rounding of `value * 1000.0` and of the square root in double arithmetic, and
  `llround` of values beyond `int64_t`.
- Running out of memory as `write_queue_` grows: the code sets no bound.
- The emulator's waveform (any sequence of values) and its period of 20 ms.
- Of the capture scripts: names and the log; failures of `rm` and `mkdir`
  during the capture, and of `mv` other than for a missing file; SIGKILL and the
  death of the main script, after which nothing of it is left to be right; the
  end of the disk monitor's loop when the main script has gone. Two places are
  not in the model because nothing reaches them: the branch `script_exit` of
  `exit_handle` (once `STARTED` is set, the script's body leaves the mode
  running nowhere) and the last `wait` of `immediate_finish` (`run_gzip_handler`
  has emptied `FINAL_GZIP_PID`). Two captures in one directory are not modelled:
  the scripts take no lock.
- `tcpdump-sh/utils`: demonstration and installation, commands in sequence
  without state; `Test.md`, an older draft of the scripts.

## Plan

1. Done: the server, the relay, the composed system and the capture with their
   runs. Proved: every safety property of the runs, for all values of the
   constants, and the implementation of `AccelServer` and `ModuleLog` by the
   system and of `DumpStore` by the capture.
2. Left to prove: that the blocks of the log come in the order of the runs when
   each hello is handled before the next run connects, and the safety cores of
   the other liveness properties (what a node, or the capture, still waits for
   when it does not end), in the way `NobodyWaits` is that of `ModulesComeBack`
   and `NothingIsForgotten` that of `SessionsReleased`.
