# A TLA+ model of ghostline

ghostline keeps terminal sessions alive in a server process. A session is a child on a PTY, a
segmented log of everything the child wrote, and a virtual terminal fed the same bytes. Clients
read the log from cursors, resize, type, take checkpoints, and terminate or delete sessions. A
new server can take every session over from an old one while the children keep running.

The modules here model the concurrent core of that program, translated from the Go source.
TLC checks them on small instances; TLAPS proves the properties of the output log and of the
streams that carry it to a client for every value of their constants.

## 1. The system

| Part | Source | State | Operations | What makes it hard |
|---|---|---|---|---|
| Output log | `output.go` | generation, segment index, active file, size marks, closed/err, `changed` | append, rotate, prune, markSize, close, discard, adopt | files removed one by one, failed writes, marks in memory only |
| Output reader | `output.go` | cursor, pinned file with its limit and `complete`, last size reported | open, Read/ReadSized, Close | reads the file and waits outside the lock |
| Session | `process.go`, `session.go` | PTY, log, screen, gate, three locks, migration ticket | copy loop, Resize, WriteInput, Checkpoint, RotateOutput, Terminate | two readers of one PTY, a loop that must park, time-outs |
| Hub | `hub.go`, `session.go` | sessions, pending names, closed, `lifecycleMu` | Start, Get, Terminate, Delete, Close, batch, adoption | spawning outside the lock, handles that outlive their session |
| Handoff | `migrate.go`, `server.go` | frozen hub, tickets, admin connection, prepared states | list, adopt, snapshot, commit, abort, exit | lost and late replies, disconnects, cancellation |
| Daemon and managed client | `server.go`, `client.go`, `cmd/ghostline` | socket path, listeners, spawned process | Serve, Close, Shutdown, ConnectManaged, Ensure, retry | servers and clients starting together |
| RPC and streams | `rpc.go`, `server.go`, `client.go` | one serial connection per call or stream | request, read, close, monitor | deadlines against a monitor, cut-off responses |
| Scanners of queries and OSC 133 markers | `query.go`, `semantic.go`, `terminal.go` | bytes kept between chunks, the shell's metadata | Feed | sequences split over chunks |
| Virtual terminal | `terminal*.go` | libghostty-vt | write, resize, snapshot | the C library's own |

The parts meet in a few places. The copy loop of a session appends to its log and feeds its
screen under `outputMu`. The hub's `lifecycleMu` is held for writing by a migration batch, an
adoption and Close. The admin handler freezes the hub and then each session, and what it
commits is decided by the session's ticket. A remote reader is a client's cursor, a connection,
and a reader of the log in the connection's handler. A managed client starts the server it
talks to, over a socket path that other clients and servers use as well.

`PROJECT.json` lists the components, the hazards with their lines, and which source lines each
definition stands for.

## 2. Modules

| Module | Models |
|---|---|
| `OutputLog` | the log and any number of readers |
| `OutputStream` | what a reader is promised: consecutive retained bytes, or the news that its place expired |
| `OutputLogStream` | the refinement mapping from `OutputLog` to `OutputStream` |
| `OutputLogInvariant` | the inductive invariant of `OutputLog`, lemmas about its operators |
| `OutputLogWriterProofs`, `OutputLogReaderProofs` | each step of the log, each step of a reader, preserves the invariant |
| `OutputLogProofs` | the theorems about `OutputLog` |
| `Session` | one session: child, PTY, copy loop, client calls, the admin handler's use of the ticket |
| `Hub` | the session table and the calls that change it |
| `Handoff` | the admin protocol between the old server and the new one |
| `Daemon` | servers on one socket path, the managed clients that start, use and stop them |
| `Stream` | the calls that stream or wait for a child: handlers, connection monitors and one client |
| `StreamInvariant` | the invariant of handler and monitor in `Stream`, lemmas about messages and types |
| `StreamConnProofs`, `StreamCallProofs` | steps that concern one connection; the state of a call, and the server's steps |
| `StreamProofs` | the client's steps and the theorems about `Stream` |
| `Query`, `Semantic` | the scan for queries, the scan for OSC 133 markers and what a marker changes |
| `Terminal` | a shell's output cut into chunks, and the terminal or the responder that reads it |
| `MCOutputLog`, `MCStream` | the symmetry set, what each connection is used for, for TLC |

Definitions named `Faulty_...` are broken variants of the definition they precede. No
specification uses them; they show that the properties notice such a bug.

### OutputLog

A byte is a position (generation and offset) and the terminal grid it was produced for.
`files` is the directory, `disk` what its files contain (also once unlinked, for readers that
hold them open), and `segments` the index kept in memory; the difference between them is what
partial failures are about. A failed append (`AppendFails`) leaves some of its bytes in the
file, records none of them, and closes the log. `PruneFails` removes some of the files. `Adopt`
opens the directory again the way the next server does, with no size marks.

A read has two steps, like the code: `ReadLocked` is the section under the lock, which either
returns, advances to the next generation, goes to sleep on the `changed` channel, or decides how
far the file may be read; `ReadFile` reads the file without the lock. `Signalled` stands for
closing and replacing the channel. Opening is `OpenReader` under the lock and `Pin` after it.
`MaxGeneration` is the number after which the source's uint64 would wrap: `Rotate` refuses there.

### Session

The place of each actor is its `pc`; who holds `operationMu`, `outputMu` and `inputMu` follows
from the places (`HoldsOutput`, `GateShared`, `Frozen`). The copy loop is split where the source
takes or releases a lock, reads the PTY, or waits. The child writes numbered bytes, so that
`OutputInOrder` can compare log, screen and PTY. The constant `Hardships` says which
uncooperative behaviour of the environment an instance allows:

| Hardship | Meaning |
|---|---|
| `detach` | the child closes its PTY descriptors and lives on |
| `escape` | a descendant outside the process group keeps the PTY open |
| `slowkill` | the child outlives the wait after SIGKILL |
| `noread` | the child does not read its input |
| `disk` | an append to the log fails |
| `stall` | the copy loop is held up for longer than the admin handler waits |

### Hub

Every section under `Hub.mu` is a step; spawning, terminating and discarding are steps of their
own. Terminating may give up on a tree that outlives SIGKILL (`Ends`, `unreaped`); the call then
returns an error and the hub goes on. A caller that is not idle holds `lifecycleMu` for reading. A writer waits, which keeps new
readers out as Go's RWMutex does, and then holds the gate as Close, as a batch of the source, or
as an adoption.

### Handoff

Source handler and destination exchange one request at a time over the admin connection. A reply
may be late: the destination's call times out, and the reply stays in the connection until the
next call reads it and compares its ID. The descriptor of a PTY travels with its reply. The
connection may break, the destination's context may be cancelled, and the handler's deferred
clean-up runs when its read fails. One adoption is modelled, by one destination. Three branches
cannot be reached with the present source and are absent: the success of a snapshot retry, a commit
whose preflight finds a prepared ticket unstable (a parked copy loop marks its ticket no more), and
an error while a preflighted ticket is resolved. Resolving tickets, in commit, abort and the
clean-up, is one step: the wait in `finishMigration` (`process.go:501`) is `Session`'s, which shows
when it does not end, and everything said here of a thawing source supposes that it does.

### Daemon

`path` is the file system: whose socket file is at the public and at the admin path. A server
binds one after the other (`at`), and each system call of `listenUnix` is a step: `Lstat`,
`Probe`, `Unlink`, `Bind`, `Listen`, `Chmod`. `ServeFails` and `ServeReturns` queue the calls
that Serve has deferred; `Deferred` runs one of them. Closing a Go listener unlinks the path it
was bound to, whatever is there by then (`CloseListener`). `StopListening` is the goroutine that
awaits the context, or `requestExit`.

A caller uses a client: `Begin` chooses Ensure (also ConnectManaged), a call or Close. `Ask` and
`Check` are the dials before and under `clientLifecycle.mu`, `Spawn`, `Poll`, `GiveUp` and
`AfterExit` the rest of `spawnAndWait`, `Stop` and `Await` those of Close. A call's request may
break off (`Breaks`): once it has second thoughts, the second time it fails. `Events` says what
may befall: `stale` files, `slow` dials, a `crash`, an upgrade that asks a server to `retire`.
A server answers a request it has accepted or dies (`Send`), and `Hub.Close` returns when it shuts
down (`Exit`); `Session` and `Stream` show when an operation does not. The look at the spawned
process and the dial of one poll are one step.

### Stream

One client uses one connection at a time, for an output, a blob (Replay, Checkpoint), Wait or
WriteInput. The handler of each connection (`spc`), its monitor (`mon`) and the client (`cpc`) are
separate processes; connections the client gave up are still being worked on. A read, a capture and
Wait start a monitor (`Start`, `Monitored`); `dispatchRequest` runs every other request, of which
WriteInput waits for the child, without one. When a monitored operation returns the handler closes
`stop` (`Work`), sets a deadline in the past (`Wake`) and waits for the monitor (`Join`); the monitor
looks at `stop`, clears the deadline, looks again and reads (`Check`, `Clear`, `Recheck`,
`Watched`). A response is a line and a payload, two steps on either side, so that a connection can
be lost between them. Bytes are the positions of the log, which makes "each byte once" a statement
about the client's `got`.

A read of the log may fail after some bytes (`Errs`): the reader's cursor has passed them
(`output.go:594`), `writeRawResponse` leaves them out, and the handler serves on. The history
variable `lost` collects them.

`Faults` says what may happen besides: the idle time-out, a server without a free slot (by other
clients; with `MaxSlots` connections of this one it is full anyway), refused operations, partial
reads, the end of the server, and a child that leaves its input unread. What the log does below the
reader is `OutputLog`'s. The client is serial, as this repository's is: a byte it pipelined while
an operation runs would be read by the monitor and cancel the operation too.

### Terminal, Query, Semantic

A byte of a sequence is a name, and the texts that matter to the scanners (`]133;`, `10;?`) are
one byte each: they can be cut before and after, not within. `Query!Scan` is the loop of
`feedLocked`; a device attributes query, a status report and a colour query stand for the
families of queries. `Semantic` finds the complete markers of a chunk and applies them.
`Terminal` is the program (prompt, command, output, status), the emulator's prompt state, and
one of two readers of its output: the terminal that the copy loop feeds (`Feed(n)`: the next n
bytes go to the emulator marker by marker), or a client's `QueryResponder` (`Respond(n)`), which
the server does not use and `examples/minimux` feeds what it reads from its session. `cut` is the
set of markers that a chunk ended within.

## 3. Runs

Run a configuration with `tlc -config <file>.cfg <module>`. Passing runs:

| Run | Module, configuration | What it shows |
|---|---|---|
| `log_generations` | `MCOutputLog`, `OutputLog_generations` | index and directory agree, no wake-up is missed, no retained byte is skipped; the log implements the abstract stream |
| `log_sizes` | `OutputLog`, `OutputLog_sizes` | marks name the grid of every byte, no unacknowledged byte is read, a sized chunk has one grid; readers of a closed log end, readers catch up |
| `session_data` | `Session`, `Session_data` | order of bytes, exact checkpoints, sizes, an exact frozen snapshot, and no read after a commit |
| `session_lifecycle` | `Session`, `Session_lifecycle` | with every hardship, Terminate reports success only when the child it spawned is reaped; it says nothing of an adopted child, or of descendants outside the group |
| `session_liveness` | `Session`, `Session_liveness` | handoff, Terminate and Wait come to an end if the child reads, keeps its PTY and dies when killed |
| `hub_table` | `Hub`, `Hub_table` | one child per name, nothing runs unknown or unreported, Close returns, is complete and final |
| `handoff_adoption` | `Handoff`, `Handoff_adoption` | no split ownership, all or nothing, own descriptors, clean-up; the source thaws |
| `daemon_managed` | `Daemon`, `Daemon_managed` | when a call returns, the process it started is owned or dead (a later call may replace the one a client owns: `ReachableIsOwned` below), a server that exits leaves no socket of its own at whichever step it failed, every call returns |
| `stream_calls` | `MCStream`, `Stream_calls` | bytes arrive in order and once over cut and reopened connections, and only failed reads lose any; blobs are exact; waking a monitor cancels nothing; abandoned handlers end unless they write input, answerable calls return |
| `terminal_chunks` | `Terminal`, `Terminal_chunks` | however output is cut, no reply is invented, a query cut elsewhere than in its terminator is answered, a cut marker harms its own command's metadata only, the prompt state is exact |

Where the code does not do what the repository says, a run states what is said and TLC shows the
behaviour that contradicts it:

| Run | What happens |
|---|---|
| `session_detach` | the child closed its PTY and lives on; the ticket is decided before anyone observes it and `finishMigration` hangs |
| `hub_delete` | two Deletes and a Start: the second Delete removes the new session, Close never ends it |

The modules state more expectations of comments and documents that do not hold. They are found
the same way, by giving the property to one of the configurations in place of its own:

| Property | Instance | What happens |
|---|---|---|
| `ChunkNeverSpansResize` | `OutputLog_sizes` | prune drops the marks of a generation that a sized reader still reads: one chunk spans a resize |
| `PinnedReaderDrains` | `OutputLog_sizes` | a pinned segment grew after the reader's last look; after rotate and prune the reader leaves it early |
| `PrunedMeansExpired` | `OutputLog_sizes` | prune between resolving a cursor and opening its file gives a file error, not `ErrCursorExpired` |
| `HandoffResolves` | `Session_detach`, `Hardships = {"stall"}` | a ticket decided before a slow copy loop serves it is never observed |
| `TerminateReturns` | `Session_liveness`, `Hardships = {"noread"}` | `Terminate` waits behind an input write that the child never reads |
| `WaitReturns` | `Session_liveness`, `Hardships = {"slowkill"}` | `Terminate` gives up and closes the master under the copy loop; `Wait` never returns |
| `ResizeTakesBacklog` | `Session_data` | the drain of a resize stops at 10 ms or 1 MiB with bytes left in the PTY |
| `MovedLogUntouched` | `Session_data` | `RotateOutput` through an old handle changes a log that was handed over |
| `FailedLeavesSource` | `Handoff_adoption` | the reply to commit is lost; the destination discards what the source has released |
| `RetiresEmpty` | `Handoff_adoption` | a session started on the source between commit and exit dies with it |
| `LiveSocketKept` | `Daemon_managed` | a server probes a path that another has bound and does not listen on yet, or that answers late, and unlinks it |
| `LoserNotOwned` | `Daemon_managed`, `Ops = {"ensure"}`, `Events = {}` | the poll of a losing spawn finds the winner's socket before its own process has exited, and keeps that process as its own |
| `ReachableIsOwned` | `Daemon_managed`, `Ops = {"ensure"}`, `Events = {"slow"}` | a dial that times out starts a second server; the client forgets the one that is serving |
| `CursorIsNext` | `Stream_calls` | a read fails after some bytes; the next one continues behind them, though `Cursor()` has not moved (`output.go:110`) |
| `BlockedCancelled` | `Stream_calls` | the client hangs up while its input write waits for a child that does not read; nothing watches the connection, handler and slot stay (`docs/rfc/0004-wire-protocol.md:142`) |
| `NeverGuessed` | `Terminal_chunks` | a chunk ends within a D: the command is still said to run, and after a cut C the next whole D names the command before (`semantic.go:47`) |
| `SplitAnswered` | `Terminal_chunks` | a chunk that ends between ESC and backslash of a terminator loses the query |
| `ExitOfLast` | `Terminal_chunks` | a command that ends without a status keeps the status of the one before |

### Bounds

- Output log: one reader. Readers meet only through the log, and no log action reads a reader's
  state except to wake it; the theorems cover any number. It reads sizes; a
  plain reader differs only in reading past marks, and the theorems cover both. Three generations with one-byte
  segments let a reader be pinned, overtaken by two rotations and pruned; two generations
  with two-byte segments and two-byte appends let a chunk straddle a mark and an append stop
  half-way. Grids are symmetric.
- Session: two clients race each other, the copy loop and the admin handler. Two bytes suffice
  for a loss, a repetition or a swap. Two tickets allow a retry after an abort. The instance
  is split by the calls the clients make: data calls in one, lifecycle calls in the other.
- Hub: three callers, two names and two sessions allow a Start of a name that is being deleted
  while a third call runs. `Deleters` says who deletes: with one deleter nothing is orphaned,
  with two `hub_delete` applies.
- Handoff: two sessions, so that one may be prepared while the other fails. Calls are at most
  one per step of the adoption, so the request identifiers need no bound.
- Daemon: two servers, two clients and two callers, and two calls in all: two servers that bind
  one path together, a call that runs into a Close of the same client, a client that finds the
  other's server. A server is a process and is not started again; calls are cut off at
  `MaxCalls` because each one may start a server.
- Stream: two connections, so that a client reopens while the server still works on what it gave
  up, and one slot, so that the abandoned handler makes the server full. Three bytes in chunks of
  two make reads and blobs of two chunks of different length, and a partial read with bytes before
  or after it; the theorems cover any numbers. A reader opens at the start of the log.
- Terminal: two commands and two sequences from them. The limits of the responder are four and
  three names, so that queries fit and a longer sequence is dropped. `MaxUnparsed` and
  `MaxUnscanned` bound what is written while earlier bytes are unread: 17 lets the terminal read
  the prompt, C and D of one command with the prompt and the C of the next as one chunk, 4 lets a
  responder read a query with its neighbours. A shell ends its markers in one way, chosen at
  the start.

Deadlock is checked for the output log. The other systems may stop: a session is over, a
hub is closed, an adoption has ended, every connection or command has been used.

### Fairness

- Output log: weak fairness of each reader, a goroutine whose caller keeps reading.
- Session: strong fairness of the copy loop, of each client's call and of the admin handler,
  since a Go mutex hands itself to a waiter that has starved. A killed child exits, and a child
  reads its input unless `noread` is allowed. Nothing else of the child is fair.
- Hub: weak fairness of calls in progress and of the gate's writer: calls that hold the gate
  return, which `Session` refutes for an input write to a child that does not read.
- Handoff: weak fairness of source and destination. Time-outs are steps of theirs.
- Daemon: weak fairness of all steps of servers and callers together (`Runs`). Nothing
  has to be begun, to crash or to retire. That `Send` and `Exit` end is an assumption.
- Stream: weak fairness of each handler, each monitor, and of a client that receives; they
  are goroutines and take no locks from each other. Nothing makes the client read, close or
  dial, the session write or end, or a fault happen; with `noread`, nothing makes the child
  read its input (`Drain`).
- Terminal: none; its properties are safety properties.

## 4. Proofs

`OutputLogProofs` proves, for any sets of readers and grids and all bounds that satisfy
`LogAssumption`:

| Theorem | Statement |
|---|---|
| `Invariance` | `Spec => []IInv` |
| `TypeCorrect` | `Spec => []TypeOK` |
| `IndexCorrect` | `Spec => []IndexMatchesDirectory` |
| `WakeupsComplete` | `Spec => []NoMissedWakeup` |
| `CursorsStayValid` | `Spec => []CursorStaysValid` |
| `ReadsAcknowledged` | `Spec => []NoTornRead` |
| `NothingRetainedSkipped` | `Spec => RetainedNeverSkipped` |

The properties are not inductive by themselves. `IInv` adds four facts:

- `FilesFit`: no file exceeds the bound, so that an adoption may index it.
- `OpenLog`: an open log has not failed, and each of its segments has its file.
- `MarksCurrent`: the last mark of an open log names the current grid, and no mark lies beyond
  the end. Without it a sleeping sized reader could not be known to have heard of that grid.
- `ReaderPlaced`: a reader's cursor is in a generation that exists, and the limit it cached for
  its file is one the file has reached. Without it neither `NoTornRead` nor `CursorStaysValid`
  survives a prune or a rotation between the two steps of a read.

The proof has one lemma per action. Log actions (`OutputLogWriterProofs`) and reader actions
(`OutputLogReaderProofs`) are separated: a log action
preserves the log's conjuncts first, and those are then used for each reader. The step of
`RetainedNeverSkipped` needs only the invariant and the two cases in which `ReadLocked` moves
the cursor.

`StreamProofs` proves, for any connections, uses, bounds and faults that satisfy
`StreamAssumption`:

| Theorem | Statement |
|---|---|
| `StreamInvariantHolds` | `Spec => []IInv` |
| `StreamTypes` | `Spec => []TypeOK` |
| `EveryByteOnce` | `Spec => []DeliveredOnce` |
| `NothingSkipped` | without partial reads, every byte before the cursor was delivered |
| `BlobsAreWhole` | `Spec => []BlobExact` |
| `WakingCancelsNothing` | `Spec => []OnlyHangUpCancels` |

Its invariant has two parts beside the types and the three properties.

- `ConnInv` is about handler and monitor of one connection: without an operation there is
  no monitor (`Unwatched`), a deadline in the past is only ever there once `stop` is closed
  (`Stopping`, `Unhurried`), and a blob's offset is within it (`Within`). A monitor whose read ends
  by the deadline therefore finds `stop` closed, which is `OnlyHangUpCancels`; `Within` is why a
  chunk has no negative length.
- `CallInv` is about the exchange on the client's connection: which of a request, a line and a
  payload is in flight follows from where the client is (`InFlight`), at most one response is under way,
  and what it carries continues from the client's place (`ReplyFits`, `LineAt`), or from behind bytes
  that are in `lost` (`Gap`, `Continues`). `DeliveredOnce` is not inductive without it: the payload
  that arrives next has to be the one the last line announced. `DataExact` says the same of the part
  of a blob already received. While an error is on its way the server's reader may be ahead of the
  client by bytes that are not in `lost` yet (`Beyond`). `Lossless` says that `lost` is empty without
  partial reads, which is what `NothingSkipped` adds.

A frame lemma per action says that connections other than its own are unchanged, and an
abandoned connection is never the client's again. The steps of the server (`StreamCallProofs`) and
of the client (`StreamProofs`) are then separate lemmas, one per action. TLC agrees that `IInv`
is an invariant of the `Stream_calls` instance.

Only model-checked: liveness (the prover handles neither fairness nor ENABLED); the refinement
`ImplementsStream`, `SizeMarksTruthful` and `SizedChunkTruthful`; and everything about
`Session`, `Hub`, `Handoff` and `Daemon`. `Query`, `Semantic` and `Terminal` scan by recursion, and
what a recursive operator computes for every input needs an induction over data that the
prover does not do.

## 5. Not modelled

- The inside of the virtual terminal and its snapshots: libghostty-vt's. `Session` keeps the
  bytes fed to it and the grid of each, `Terminal` its prompt state. The text of a command, which
  `terminal.go` reconstructs from screen cells, is the command's number.
- The v0 bridge (`migrate_v0.go`): another wire format for the first steps of a handoff, with the
  same commit. Frame encoding, JSON, size limits of frames, and the trimming of a replay to a frame.
- Of the wire protocol: requests other than output, blobs, Wait and WriteInput (what they do is
  `Session`'s and `Hub`'s, and so is what they may wait for), grid sizes on a stream,
  `output.close` and `blob.close`, which this client never sends, and pipelined bytes.
- Steps that the models merge. In `OutputLog`, `Discard` closes the log and removes its directory
  at once; `Adopt` opens a directory whose log is closed, whereas the destination opens it before the
  source has let go (`MovedLogUntouched` is about that window); a local read that fails after some
  bytes, which returns them with the error, is not there. In `Session`, `LoopExit` goes from
  SIGHUP to SIGKILL in one step when the log has failed.
- `pwd.go`, a validation of one string, and the text form of a cursor (`output.go:26`-91).
- The environment and the command line of child and server processes, and their diagnostics.
- Foreground-process metadata, versions, sizes, sentinel errors, the minimux example.
- The text of errors; a result is its kind.
