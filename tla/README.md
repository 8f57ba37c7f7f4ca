# A TLA+ model of ned

`ned` is a terminal editor in C++ (`src/Source/`). Most of what is
hard to get right in it is not the editing: it is the machinery that lets one
single-threaded editor talk to other processes without blocking, and that gets what was
typed onto a disk, here or on another host. That machinery is what this project models.

* the **message layer** between the editor and `ned-host`, the agent it starts on a
  remote machine: requests, streamed chunks under credit, cancel, idle expiry, close;
* the **framed connection** that carries every such protocol (remote host, language
  servers, debug adapters, coding agents): three threads and a destructor;
* the **language-server broker**, a daemon that lets several editors share one
  server process per project and language;
* the **local save**: what a buffer believes about the file, the bytes on their way to the
  disk on a thread of their own, and leaving the editor meanwhile;
* the **remote save**: the same through the agent, over connections (**hosts**) that are
  cancelled, lost and made anew;
* the **remote process**: a child on another host that the editor's other parts use as a
  local one, with its input and outputs carried both ways by threads at either end.

Each is a module of its own with an abstract specification or invariants, TLC
instances, and machine-checked proofs.

Contents: [modules](#modules) · [inventory](#inventory) · [message layer](#1-the-message-layer-endpoint)
· [framed connection](#2-the-framed-connection-framedconnection) ·
[broker](#3-the-broker-brokerrouter-and-brokerdaemon) · [local save](#4-the-local-save-localsave) ·
[hosts](#5-the-connection-to-a-host-hosts) · [remote save](#6-the-remote-save-remotesave) ·
[remote process](#7-a-remote-process-processrelay) · [runs](#runs) ·
[proofs](#proofs) · [findings](#findings) · [not modelled](#what-is-not-modelled) · [plan](#plan)

## Modules

| module | role | extends / instantiates |
|---|---|---|
| `RequestStream` | abstract: what a request promises its issuer | |
| `SequenceOps` | the sum of a sequence of numbers; a sequence without some of its members | |
| `Endpoint` | `Protocol/Endpoint.cpp`: the client and the host endpoint, and the FIFO channels between them | `SequenceOps`; implements `RequestStream` |
| `SequenceFacts` | laws of that sum: empty, one more, one fewer, joined; what a queue has and carries in order; what removing leaves | `SequenceOps`, `TLAPS` |
| `MCEndpoint` | TLC instance: the two parts it looks at | `Endpoint` |
| `EndpointSafety` | types, the inductive invariant, the safety theorems, the conservation of credit | `Endpoint`, `SequenceFacts`, `TLAPS` |
| `EndpointRefinement` | nothing on the host waits in vain; the endpoints implement `RequestStream` | `EndpointSafety` |
| `FrameChannel` | abstract: an ordered channel with one end | |
| `FramedConnection` | `Protocol/FramedConnection.h`: threads, queues, destructor, peer | `SequenceOps`; implements `FrameChannel`, once per direction |
| `MCFramedConnection` | TLC instance: the three parts it looks at | `FramedConnection` |
| `FramedConnectionProofs` | both halves implement the channel; a graceful shutdown, the log lines, the byte account, types | `FramedConnection`, `SequenceFacts`, `TLAPS` |
| `BrokerRouter` | `Lsp/Broker.cpp`: the pure router, one operator per public method | |
| `BrokerDaemon` | `Lsp/BrokerDaemon.cpp`: its threads, its mutex, and the actions applied after it is released | `BrokerRouter` |
| `MCBroker` | TLC instance: symmetry, and the three parts it looks at | `BrokerDaemon` |
| `BrokerProofs` | types, the clients of an entry that goes, one handshake, answers | `BrokerDaemon`, `SequenceFacts`, `TLAPS` |
| `LocalSave` | `Text/Buffer.cpp`, `Text/SavePlan.cpp`, `Editor/BufferSave.cpp`, `UI/AsyncFileSaver.cpp` and the quit | |
| `LocalSaveProofs` | its type correctness, four invariants and one action property | `LocalSave`, `TLAPS` |
| `Hosts` | `Remote/Hosts.cpp`: attempts to connect, those who wait for them, the live connection | |
| `RemoteSave` | `Remote/RemoteBuffer.cpp`, `Remote/ExternalChanges.cpp` and the agent's writes | `Hosts` |
| `MCRemoteSave` | TLC instance: the two parts it looks at | `RemoteSave` |
| `ProcessRelay` | `Remote/Proc.cpp` and the process jobs of `Host/Dispatcher.cpp` | implements `FrameChannel`, once for each of stdin, stdout and stderr |
| `MCProcessRelay` | TLC instance: the three parts it looks at | `ProcessRelay` |
| `ProcessRelayProofs` | its types, its credit, and that it implements `FrameChannel` three times | `ProcessRelay`, `SequenceFacts`, `TLAPS` |
| `HostsProofs` | the two properties of `Hosts`, alone and as `RemoteSave` uses it; that a save is in one place; that an unmodified buffer is saved, and on the host | `RemoteSave`, `TLAPS` |

To run one by hand, in this directory:

    tlc -workers 2 -config Endpoint.cfg MCEndpoint
    tlapm EndpointSafety.tla

## Inventory

How the parts hang together: the editor's main thread runs a UI loop. Everything
else (threads that read pipes, jobs, timers) reaches it through one queue of closures
(`PostQueue`, "posting"). Objects that may die while a closure is queued
bind it to a `LifetimeToken`. A `Process::ChildProcess` is a pipe to a child;
`FramedConnection` puts frames and threads on it; `Endpoint` puts requests on those;
`Remote::Connection` puts a host's `proc/*` and `fs/*` methods on that. The LSP, DAP,
ACP and MCP clients each sit on `FramedConnection` directly. The broker daemon is
another process, reached over a Unix socket, which owns the language servers.

| component | state | operations | what is hard | what makes it correct | here |
|---|---|---|---|---|---|
| Protocol endpoint (`Editor/Protocol/Endpoint`, `Protocol/Message`) | table of outgoing requests (sequence number, credit consumed and granted, cancelled), table of incoming ones (credit, backlog, held response), last peer id | `Request`, `Cancel`, `Grant`, `ExpireIdle`, `Close`, `Receive` and what it dispatches to; the `Responder`'s `Chunk`, `Answer`, `OnDrained` | messages crossing: a cancel and the response, a credit and the end, an expiry and a late chunk; callbacks that call back in; credit that must neither leak nor multiply | one end per request; chunks in order, none lost before a result; neither side ever sees a message it must reject; the window holds; nothing stalls | modelled, its safety proved |
| Framed connection (`Protocol/FramedConnection.h`, `FrameTransport`) | write queue, drain flag, posted frames and their bytes, three threads, the lifetime token | `SendFrame`, `PrepareForGracefulShutdown`, destructor, loop iterations | destructor against blocked threads; pause and wake at the queue limit; a frame cut in two; closures that outlive their owner | ordered channel each way, one end, the destructor returns, the account is exact | modelled, its safety proved |
| Child process (`Process/ChildProcess`) | pid, pipes, exit status, a registry | spawn, read, write with a stall limit, hang up, kill, reap | reaping against signalling, pid reuse | never signals a process it has reaped | transport only |
| LSP broker router (`Lsp/Broker`) | entries per (root, language): status, attached, queue, relayed requests; connection → key | ten public methods, each returning actions | the cached handshake, eviction, clients that leave | one handshake per process; answers reach who asked | modelled, proved with the daemon |
| LSP broker daemon (`Lsp/BrokerDaemon`) | maps of transports and threads, one mutex | thread loops, application of actions, sweeper | actions applied after unlock; joins under the lock | no deadlock, no client left behind | modelled in part, proved |
| Remote hosts (`Remote/Hosts`, `Connector`, `SshMaster`, `Bootstrap`) | attempts and their waiters, live connections | connect, cancel, disconnect, drop | a cancelled attempt that succeeds; a drop posted after a reconnect | every waiter is told once; the table holds live connections | modelled, proved (one host; no ssh, no deployment) |
| Remote processes (`Remote/Proc`, `Host/Dispatcher` `ProcJob`) | what waits for the owner, permits of the readers, items of the writer, the stream | spawn, write, close stdin, release, exit; relay both ways | output that waits for credit; an end behind buffered output; a write that times out; an owner that leaves | bytes in order and none lost; the end is seen; nothing is left running | modelled, except signals and terminals |
| Remote files (`Remote/Fs`, `RemoteBuffer`, dispatcher uploads) | uploads by id, expected stamps | read, upload, write, watch | retry of a write that may have happened | old or new content, never a mixture; no silent overwrite | saves and external changes modelled; opening, uploads in chunks not |
| Local save, backup, auto-save (`Text/SavePlan`, `Editor/BufferSave`, `Backup`, `UI/AsyncFileSaver`) | the file, its sibling, backups, snapshots, memo | plan, write, sync, rename, back up, auto-save, restore | crashes between steps; edits while a save runs | old or new content survives; saved mark only on what was written | modelled, proved; auto-save and the text transform not |
| Buffers and undo (`Text/Buffer`, `UndoHistory`, journal) | the undo tree, saved node, edits in flight | edit, undo, redo, jump, begin and commit save | branches, saved point on an abandoned branch | jump restores exactly | what is unsaved: modelled; the tree itself not |
| Text storage (`Text/PieceTable`, `AnchorSet`) | pieces, line index, anchors | insert, delete, move anchors | boundaries | equals the plain sequence | planned as pure algorithms |
| External changes (`FileWatch`, `AutoRevert`, `AutoMerge`) | watches, debounce, base versions | poll, overflow, revert, merge | lost events; a revert against an edit | the buffer eventually agrees, edits never lost | taking over and merging modelled; watching not |
| LSP client and manager, DAP, ACP, MCP | pending requests, session flags | request, notify, restart | replies after a restart | smaller relatives of `Endpoint` | not modelled |
| VCS, tracker, tasks, tests, terminal | command threads, results | run, cancel, post | late results | a result is of the latest request | not modelled |
| Editing commands, modes, Vim, parsing, highlighting, formatting, UI, scripting, project features | large, sequential | | little concurrency | | not modelled |

`PROJECT.json` lists the same components with their files, every hazard at its line,
and for each hazard the properties that cover it or the module planned for it.

## 1. The message layer (`Endpoint`)

Code: `Source/Editor/Protocol/Endpoint.cpp` and `Endpoint.h`, and the wiring of its two owners,
`Remote/Connection.cpp` and `Host/Agent.cpp`.

An endpoint is single-threaded by contract (its owner posts frames to the main
thread), so **one action is one call on one endpoint with everything it does before it
returns**, callbacks included. Both ends of a connection run the same class, and
requests in one direction never touch the tables of the other, so the model has one
endpoint that issues (the *client*) and one that answers (the *host*).

| code | model |
|---|---|
| `outgoing_[id]` (`Outgoing`) | `outgoing[id]`: `live` is membership, `handled` whether the handlers are still in it (`ExpireIdle` takes them and leaves the entry), `consumed`/`granted` the credit account |
| `incoming_[id]` (`Incoming`) | `incoming[id]`: `credit`, `nextSeq`, `queued`, held `response` |
| `Responder` held by a handler | `responder[id]`; a hung handler never uses it |
| `OnDrained` callback | `waiting[id]`; `Drained` decides *after* the flush |
| `Send` | `SentToHost`, `SentToClient`: nothing leaves a closed endpoint |
| `ProtocolError` thrown | `fault` |
| `Request`, `ReserveRequestIds` | `Issue`, `ReserveRequestIds` |
| `ReceiveChunk`, `ReceiveResponse` | the same names, dispatched by `ClientReceive`; a chunk callback may cancel |
| `ReceiveRequest`, the `$/credit` and `$/cancel` branches of the notification handler | `ReceiveRequest`, `ReceiveCredit`, `ReceiveCancel`, dispatched by `HostReceive` |
| `Grant`, `Cancel`, `ExpireIdle`, `Close`, destructor | `Grant`, `Cancel`, `ExpireIdle`, `ClientClose` and `HostClose`, `ClientDestroy` (which drops the handlers unrun) |
| `Responder::Chunk`, `Responder::Answer` and its destructor | `HostChunk`, `HostAnswer` |

*Abstracted*: method names to whether the peer knows them; payloads to the number of
the chunk; clocks, so any request with an idle limit may expire at any moment, the
cases a real clock would allow included. The channels are FIFO (a pipe over ssh).
When an end goes away any prefix of what is in flight may still be read
(`SomeArrive`), which is how a pipe loses data.

*The abstract specification* `RequestStream` knows no connection: chunks are delivered
in the order produced, each once; one terminal callback, last; nothing after a cancel or
an expiry; a result only after every chunk. `ImplementsRequestStream` says that
`Endpoint` implements it, with `abandoned` mapped to the `cancelled` flag of the entry.

*Invariants*: `NoProtocolError` (neither side sends what the other must reject; the
hazard is messages that cross), `CreditConserved` (credit at the host, chunks in
flight, chunks consumed and not granted, and grants in flight always make one window),
`WindowRespected` (against what was *consumed*, by hand or automatically),
`BacklogIsDriven` (a queued chunk, a held answer or a waiting producer always has
something that will move it).

*Liveness*: `RequestsSettle`. *Fairness*: the main loops run frames and notice the end
of a stream; `ExpireIdle` is called periodically (the owner's timer); a consumer that
grants by hand grants; a handler that is not hung finishes. Nothing is asked of hung
handlers: a request without an idle limit on such a handler is excluded by the property,
as the code does promise nothing there.

## 2. The framed connection (`FramedConnection`)

Code: `Source/Editor/Protocol/FramedConnection.h` and `FrameTransport.cpp`, `PostQueue.cpp`,
`Lifetime.h`, and `Process/ChildProcess.cpp` as the transport.

The model has a program counter for each of the reader, the writer, the stderr thread
and the owner's destructor, and **an action is what a thread does between two points
where another can interfere** (lock, condition variable, blocking read or write).

| code | model |
|---|---|
| destructor: stop and notify writer, join it, hang up, stop and wake the reader, join, join stderr | `owner`: `up → joinWriter → closed → joinReader → joinStderr → gone` |
| `stop_token`s | `WriterStop`, `ReaderStop`: functions of `owner` |
| write loop: wait, take a frame, write, give up on failure | `WriterChecks`, `WriterWrites`, `WriterFails` |
| read loop: stop check, pause at `maxQueuedBytes_`, read, charge and post | `ReaderChecksStop`, `ReaderChecksQueue`, `ReadStart`, `ReadRest`, `PostFrame` |
| post queue, drained by the main loop in batches | `posted`, `batch`; `DrainPosted`, `RunPosted` |
| stderr loop: read a chunk, end at an empty one or an error; post each line that has a newline and text | `ReadStderr`, `SplitLine`; `buffered` is what has no newline yet |
| `LifetimeToken::Bind` | `Runs`: bound work is dropped once the owner is gone; log lines are not bound |
| the stall limits of the transport | a blocked read in mid-frame or write may fail at any time |
| the peer | `PeerSends`, `PeerReads`, `PeerPrints`, `PeerExits`: may stop midway, send bad frames, never read |

`FrameChannel` is the abstraction: what was sent arrives once and in order, one end is
told (`eof` only if nothing was lost, else `error`), nothing after it. It is implemented
in both directions. `NoLineLost` counts lines, not pieces: what the peer prints is text and newlines (`printed`), a read takes
any part of it, and each line with text that was *ended* reaches the log once, also when the peer has died and the owner is gone.
A last line without a newline stays in `buffered` and is dropped when the output ends (`FramedConnection.h:274-276`);
the property promises nothing for it, as the repository does not. `NoLineLost`, `QueuedBytesExact` and `GracefulAttemptsAll` relate the
queues of different threads; `DestructorReturns`, `FramesArrive` and `ExitIsReported` are
the liveness properties.

*Fairness*: the three threads run (with their stall timers), the main loop drains, and a
destructor that can go on does. **Nothing is asked of the peer**: it may stop reading or
writing at any point, in particular in mid-frame, which is where a naive destructor hangs.

## 3. The broker (`BrokerRouter` and `BrokerDaemon`)

Code: `Source/Editor/Lsp/Broker.cpp`, `BrokerDaemon.cpp` and their headers.

`BrokerRouter` is the code's own split: `Lsp::BrokerRouter` is a pure state machine whose
methods return `Action`s. Each public method is an operator that appends its actions to
`todo[t]` of the calling thread. `languages` is the map of entries (absent keys are absent
here too, as `languages_[key]` creates them: `Entry`, `Appear`), `recency` orders them by
last use (the code compares time stamps), `relayed` holds the pending requests under their
rewritten identifiers.

`BrokerDaemon` adds what makes it hard: each thread calls the router under the mutex and
applies the actions **after releasing it**, so `Apply(t)` of different threads interleave.
`ApplySpawnServer` holds the mutex over a possible join: `RegisterServer` takes `holder`,
`StartReader` releases it once every earlier reader of that key is done.

| thread in the code | model |
|---|---|
| `HandleClientConnection`, one per client | `Attach`, `ReadClient`, `ClientEnds` |
| `ServerReadLoop`, one per process | `ReaderTop`, `ReadServer`, `ForgetServer`, `ServerReaderFinished` |
| `IdleSweepLoop` | `Sweep`, `StopDaemon` |
| `ApplyActions` | `RegisterServer`, `StartReader`, `FailToSpawn`, `WriteToServer`, `WriteToClient`, `ApplyCloseClient`, `ApplyCloseServer`, `ApplyShutdown` |
| editors, servers (external) | `Says`, `ClientGoes`, `ServerSays`, `ServerExits` |

*Abstracted*: payloads to the kind of frame, its identifier, and which request an answer is
for; looking up a transport and writing to it are one step; the sweep's "idle for so long"
is any point in the recency order.

*Frames left over.* A thread starts a handshake under the lock and writes the `initialize` after releasing it,
to whatever process the key has by then (`BrokerDaemon.cpp:384`, `562-565`). If the process ends in between, its reader
tears the entry down, and a second client brings up a successor, then that one gets both clients' `initialize`, against
`Broker.h:28-35`: `OneHandshake` is false, which `broker_handshake` shows and the [findings](#findings) tell. `AnswersAreOwn`
is false for the same reason: a request left over, written to the successor, may have the identifier of one that was relayed to
it, and its answer then goes to the wrong client, against `Broker.h:44-48` (TLC finds that with `RunningSpec` too).
The variable `mixed` records whether this has happened: whether ever a process was registered while a thread had still to write to
its predecessor (`Unmixed`). It restricts no step. `OneHandshakeUnlessMixed` and `AnswersAreOwnUnlessMixed` say that up to then
both properties hold, so a frame left over is the only thing the threads do to one another that breaks them. The other
properties hold whatever was left over.

*Deadlock* is not checked in these runs: clients leave and the daemon stops, so the system
may really end. The one deadlock of the code is stated as the invariant `JoinsOnlyFinished`.

## 4. The local save (`LocalSave`)

Code: `Source/Text/Buffer.cpp` (what is unsaved), `Text/SavePlan.cpp` (how bytes reach the disk),
`Editor/BufferSave.cpp` and `Editor/Backup.cpp`, `UI/AsyncFileSaver.cpp`, and the way out in
`UI/BufferView.cpp` and `Source/Application.cpp`.

One buffer and its file. The main thread runs the user's commands and what was posted; a large
buffer is written on a thread; other programs write the file too; the process may be killed and the
power may fail between any two steps. A text is a number, a range of edited text is "some" or "none".

| code | model |
|---|---|
| `UnsavedChangeRanges_`, `SaveInFlightRanges_`, `Saving_`, `SavedSnapshot_` | `unsaved`, `late`, `saving`, `saved` |
| `DiskTimestamp_` against the file's | `seen`: they are the same |
| `Modified`, `ModifiedAfterPendingSave` | the same names |
| inserting, deleting, replacing | `Edit` |
| `Undo`, `Redo` and jumps, with `UpdateUnsavedRangesForRestore` | `Undo`, to any text made up so far |
| `RestoreContent` of a backup | `Recover` |
| `AutoRevert` and `AutoMerge` | `Sweep` |
| `BeginSave` with the dispatch to the saver | `SaveBuffer` |
| charset check, backup version, sibling, flush, rename, flush of the directory; or truncate, write, flush in place | `Prepare`, `WriteSibling`, `SyncSibling`, `Rename`, `SyncDirectory`; `Truncate`, `Rewrite`, `Resync`. Each may fail, except the flush of the directory, whose failure the code ignores |
| `CommitSave` or `AbandonSave`, by buffer name, from the post queue | `Settle` |
| quit, `AnySaveInFlight`, `RefreshPendingQuit`, exit status | `Quit`, `AnySaveInFlight`, `RefreshPendingQuit`, `failed` |

*The disk*: `durable` holds the texts a power failure may leave. A rename that was not flushed may be
undone; bytes that were not flushed may be lost although the rename was not. A file that is written in
place has no such set: the code promises nothing there but the backup, so the model cuts its power never.
Nor is there a property of that backup. The comment at `SavePlan.cpp:363-367` says that one was always written before the
file is truncated; but a failed one is swallowed and a large file has none (`Backup.cpp:368-393`), and the agent's `WritePath`
makes none. `Prepare` may make none either, so the comment's promise is false in the model from the first truncation, in one step:
a write in place that fails half-way, or a kill, then leaves a torn file and no other copy but the buffer.

*Invariants*: `WholeAfterCrash` (the point of the sibling file), `EditsKeepTheirMarks` (an unmodified buffer holds what the file holds,
whatever was typed while the save ran), `MergeBaseIsOnDisk` (a later merge starts from the text that is
there), `ExitStatusIsTrue`. *Action property*: `QuitLosesNothing`. *Liveness*: `QuitEnds`.

*What the properties exclude, and why.* Each exclusion stands for something the code really does:

* `EditsKeepTheirMarks` is claimed where nothing but edits happened during the save (`overtaken`). An
  undo is a [finding](#findings). Recovering a backup, a sweep (`AutoMerge.cpp:38` does not ask whether
  a save runs) and closing and reopening the buffer under the same name (`AsyncFileSaver` finds it by
  name) lose the marks in the same way.
* `MergeBaseIsOnDisk` needs that no other program writes between the rename and the time stamp being
  taken: such a write is taken for the editor's own.
* `ExitStatusIsTrue` and `QuitLosesNothing` speak of an exit that was not `confirmed`: a confirmed quit
  waits for nothing. `AnySaveInFlight` looks at open buffers, so the save of a buffer that was closed
  meanwhile is not waited for. What is typed while the quit waits is lost unasked (`since`).

## 5. The connection to a host (`Hosts`)

Code: `Source/Editor/Remote/Hosts.cpp` and `Hosts.h`, with `Connector` and `Connection` by what they post.

| code | model |
|---|---|
| `attempts_` for one destination, its waiters | `attempt`, `waiters` |
| `cancelled_` | `cancelled` |
| the worker of an attempt, and what it has posted | `connector[a]` |
| `connections_`, `Connection::Connected` | `connection`, `connected` |
| the removal posted by a dropped connection | `removals` |
| `Connect` of a caller that has to wait | `AwaitConnection` |
| the posted result | `FinishAttempt`, `FinishCancelled` |
| `Disconnect` | `CancelAttempt`, `CloseConnection` |
| the connection's disconnect callback, the posted removal | `DropConnection`, `RemoveDropped` |

The waiters are answered in the step that says so; what an answer makes of them is for the module that
extends this one. Attempts, and the connection each yields, have numbers; a number nothing refers to may
be used again, as it can be told from no other (the code counts on). `OneConnection` and
`CancelledNeverYields` are what `Hosts.h` promises.

## 6. The remote save (`RemoteSave`)

Code: `Source/Editor/Remote/RemoteBuffer.cpp` and `ExternalChanges.cpp` in the editor,
`Editor/Host/Dispatcher.cpp` and `Editor/Host/Fs.cpp` in the agent. It extends `Hosts`: a save is one of the
callers that wait for a connection.

| code | model |
|---|---|
| the buffer, as in the local save, with `RemoteTimestamp_` and `RemoteChanged_` | `unsaved`, `late`, `saving`, `saved`, `stamp`, `changed` |
| `RemoteSaveRequest` on its way: encoded on a thread, waiting, pending on a connection | `save.at`: `posted`, `waiting`, `sent` |
| `RemoteSaver::Finish` with `FinishRemoteSave` | `FinishSave`: run by an answer, an expiry, a lost connection, a cancel, or an encoding that fails |
| `Endpoint::Close`: everything pending fails | `FailPending` |
| `WriteFile` and the upload before it | `Send`, from `WriteNow` or once connected |
| `RunOnWorker`: a thread per write; `WritePath` | `writes[n]`: `Receive`, `CheckExpected`, `FillSibling`, `Rename`, `StatWritten` |
| watch event, stat, read, take over, merge, or note | `FollowChange`, `ReadIfChanged`, `HostReads`, `Settle`, `CheckEnds` |

A write that has reached the host goes on when its request expired or its connection ended, so a file may
be replaced by a save the editor takes for failed. Time stamps are numbers with no order: what the code
asks of two is whether they differ. `NewStamp` is one that nothing holds (`InUse`): there are more stamps than
places for one, however many saves there are, which is the lemma `NewStampIsNew`.

*Invariants*: `UnmodifiedIsSaved` (no answer and no check makes an edit count as saved), `UnmodifiedIsOnHost`,
`SaveIsCarried` (a save in flight is in one place, so it is settled once), and `OneConnection` of `Hosts`.
*Action property*: `CancelledNeverYields`. *Liveness*: `SavesSettle`.

*Races on the host.* Each write of the agent runs on a thread of its own, shares the name of the sibling file with the others and takes
no lock (`Dispatcher.cpp:310-323`, `430-437`, `Host/Fs.cpp:80-99`): after a lost answer the next save may overlap the earlier write, and
another program may write between the check of the time stamp, the rename, and the stat whose result is the answer. The model has
every one of these interleavings. What they break:

* a file is replaced that is not the one the save expected, against `Docs/ClientServerProtocol.md:218`. Between a check and a
  rename without a lock that cannot be otherwise, so no property claims it;
* the answer carries the time stamp of another's text, and the buffer then takes that text for its own. `raced` records that the file
  was written, by another save or another program, while a write ran; `UnmodifiedIsOnHost` is claimed until then.

Everything else is claimed without that condition.

## 7. A remote process (`ProcessRelay`)

Code: `Source/Editor/Remote/Proc.cpp` in the editor, the process jobs of `Editor/Host/Dispatcher.cpp` (62-134,
760-1041) in the agent, and one stream's credit from `Protocol/Endpoint.cpp`.

The editor gives the owner of a remote process a `ChildProcess` over local sockets. A thread, the relay, moves what
comes and goes; on the host each output has a reader, and the input a writer. A reader that has posted a piece waits
until the main thread lets it go on: at once if the piece could be sent, else when the stream's backlog has cleared.

| code | model |
|---|---|
| `stdoutReader`, `stderrReader`, `AwaitPermit`, `Permit` | `Reader(fd)`, `mayRead`, `waiting` |
| `writer`, `Push`, `writeAnswers` | `Writer`, `items`, `answers` (0 for a close: its answer has no handlers) |
| `ProcSpawn`, `ProcWrite`, `ProcCloseStdin`, `ProcRelease` | the same names, dispatched by `HostReceives` |
| `OnProcOutput`, `OnProcWritten`, `OnProcExited`, `OnProcStderrDone`, `FinishProcIfDone` | `HostRunsPost` and the same names |
| `EndpointCore::Chunk`, `Flush`, a held response, `OnDrained` | `OnProcOutput`, `ReceiveCredit`, `held`, `PermitWaiting` |
| `~Dispatcher` | `AgentSeesEnd` |
| `onChunk`, `onResult`, `onError` of the spawn; the handlers of a write | `ReceiveChunk`, `ReceiveExit`, `ReceiveSpawnFailed`, `WriteAnswered` |
| `Relay::out`, `discarding`, `writeInFlight`, `inputDone` | `out`, `discarding`, `inFlight`, `inputDone` |
| `RunRelay` | `RelayReads`, `RelayReadsEnd`, `Deliver`, `RelayEnds` |
| `OnMain`, `Relay::Grant` | `posts`, `EditorRunsPost`, `Grant` |
| `RelayControl::Release` | `OwnerReleases`, after `HangUp` |
| `ExpireIdle`, `Connection::Disconnect` | `Expire`, `LinkEnds` |

*Abstracted*: what is read or written in one go is a piece, and is sent whole; the sockets between relay and owner
are part of `Deliver` and `RelayReads`; a stalled write may have put all of its bytes in the pipe or a part, which
then is as if it had put none. A signal is one of the ways a process ends at any moment. The `$/cancel` of an expired
write changes nothing, as the host's late answer is ignored anyway.

*Refinement*: `ImplementsPipes` says that each of stdin, stdout and stderr is a
`FrameChannel`, as a local pipe is: what the one side wrote is read in order, each once, and an end that is not an
error comes after all of it. *Invariant*: `CreditAddsUp` (what waits in the editor, or is on its way, is within
the window, and a job holds one piece of each output; every piece taken is granted once, whichever of
the relay, a release, or the handler lets it go). *Liveness*: `EndIsSeen`, `NoneLeftRunning`.

## Runs

| run | instance | what it shows |
|---|---|---|
| `endpoint` | window 4, in two parts: one request with up to 5 chunks; two requests with a chunk each at most | the refinement, no protocol error, credit, backlog and liveness, on a stream longer than its window and on two requests whose messages cross in every order, expire together, and are cut off together |
| `framed_connection` | frames of two sizes, limit 2, pipes of 2; in three parts: 2 frames in and 1 out; 2 out; 4 pieces on stderr, or 2 with a frame | both refinements, log lines, queues and byte account; liveness of the destructor, the pause and the report of an exit |
| `broker_daemon` | 2 clients, 2 projects, room for 1 server, 2 processes | three parts: two projects and one process without requests (eviction, sweep, shutdown, disconnects, with all threads); one project with requests and two busy threads; a process and its successor while the daemon runs, with two busy threads or with requests one call at a time (`Serial`) |
| `local_save` | 2 texts, flushed; edits, sweep, close, reopen during a save | every property of `LocalSave`, for both ways of writing |
| `remote_save` | 2 saves, 2 attempts, 2 callers, 2 texts; once the file is raced, with the save's connections only and no check | the connection, the save and the checks for external changes, with writes that overlap on the host |
| `process_relay` | two outputs, 4 pieces, window 1; 2 pieces of input | every property of `ProcessRelay`, in three parts: an owner that only reads; one that hangs up; one that writes to a process that prints nothing |
| `framed_connection_writer`, `broker_wedge`, `broker_queue`, `broker_handshake`, `local_save_undo`, `process_stdin` | as above; the broker's with one project and nothing left out, the last until the daemon stops | the six [findings](#findings) |

*Why the bounds are enough.*
Two requests are the least that can cross, and each has a chunk to cross with. In the stream a batch is half the window, two, so five chunks include
a full window, a partial batch, a refill, and a chunk that waits; a window of four is the
smallest in which a batch is neither the window nor one. In the framed runs the larger of the
two frames alone exceeds the limit, the smaller does not; a pipe of two fills. The pipe
must hold a whole frame, or the second could never be sent while the reader is paused and
`FramesArrive` would hold without being tried. Four pieces on stderr are two lines, or a blank one, or a line and
an unterminated rest, cut by reads in every way. In the broker two projects and room for one
server is the least that evicts, and a process with a successor (two processes, one project) is
the least in which a frame can go to the wrong one. The broker's clients make one request each
and two clients can do so; that is the least with which an answer can reach the wrong one. All of it
at once is too much for TLC; `MCBroker` explores the union of three parts, each of which leaves one thing out
(requests; a third busy thread and the second project; requests of overlapping calls).
The invariant of the proofs was checked on the same states first. `MCFramedConnection` and
`MCProcessRelay` do the same: reader and writer of a connection meet only in its destructor, and the input and output
of a process only in its end.

In the local save two texts are the one on disk and one that is typed; a third comes from nothing the code
tells apart, as comparisons are only against the saved text, and the proofs hold for any number. `WhileSaving`
names what may happen while a save runs; `local_save` leaves out "undo" and "recover", which the properties
exclude anyway (`overtaken`), and "foreign". In the remote save two saves are the least with
which an answer can come for an earlier one, and two attempts the least with which one can be
cancelled and another succeed. `MCRemoteSave` follows a race on the host without the other caller and the checks, which makes the instance a
third of what it is without (2,100,015 states; that one passes too).

For a remote process a window of one is the least with which two outputs hold each other up, and two pieces of each
the least with which a piece waits while another does. Two pieces of input are needed for a gap. Batches of
credit are `Endpoint`'s matter.

Bounded counters: `MaxRequests`, `MaxChunks` (Endpoint); `MaxSent`, `MaxFrames`, `MaxPrinted`,
`PipeRoom` (FramedConnection); `Servers` and `MaxRequests` (Broker); `MaxTexts` and `WhileSaving`
(LocalSave); `MaxAttempts`, `MaxTexts` and `MaxSaves` (Hosts and RemoteSave);
`MaxOut` and `MaxIn` (ProcessRelay). Each is a guard of the
environment (how much is asked), never of the code under study, except that the broker's
processes are a finite set: when none is left, a spawn can only fail, as it also can before.

*Fairness* in the two save modules. `LocalSave`: the saver thread goes on and what it posts is run (weak);
`RefreshPendingQuit`, which every frame calls, is strong, because a key in the same wakeup may start
another save before the frame. The user is asked nothing. `RemoteSave`: `ExpireIdle` is called by a timer,
what the connector posts is run, and its worker ends (ssh has a time limit); a posted write is strong,
because the bound on attempts may keep it from asking for a connection for a while. The host is asked
nothing: a write that is never answered expires.

`ProcessRelay`: every thread at either end goes on, what was posted or has arrived is run, requests expire, and an owner
that has not hung up reads. The process, the link and the owner's wishes (to write, to close, to hang up) are asked
nothing: a process that reads nothing and never ends is one of those `NoneLeftRunning` is about.

Every property has a mutant in `PROJECT.json`: a definition of the model changed as a
plausible bug would change the code, after which the run finds that property violated. The
changed forms stand beside the originals, marked `(mutant)`; nothing else refers to them.

## Proofs

TLAPS proves, for every value of the constants that satisfies the named assumptions:

| theorem | statement |
|---|---|
| `TypeCorrect` (`EndpointSafety`) | `Spec => []TypeOK` |
| `NeverProtocolError` (`EndpointSafety`) | `Spec => []NoProtocolError` |
| `WindowAlwaysRespected` (`EndpointSafety`) | `Spec => []WindowRespected` |
| `CreditAlwaysConserved` (`EndpointSafety`) | `Spec => []CreditConserved` |
| `BacklogAlwaysDriven` (`EndpointRefinement`) | `Spec => []BacklogIsDriven` |
| `RequestsAreStreams` (`EndpointRefinement`) | `Spec => ImplementsRequestStream`: a refinement of `RequestStream` |
| `OutboundIsAChannel` (`FramedConnectionProofs`) | `Spec => ImplementsOutbound`: a refinement of `FrameChannel` |
| `InboundIsAChannel` (`FramedConnectionProofs`) | `Spec => ImplementsInbound`: the same, of what arrives |
| `GracefulAlwaysAttemptsAll` (`FramedConnectionProofs`) | `Spec => []GracefulAttemptsAll` |
| `NoLineIsEverLost` (`FramedConnectionProofs`) | `Spec => []NoLineLost` |
| `QueuedBytesAreExact` (`FramedConnectionProofs`) | `Spec => []QueuedBytesExact` |
| `ConnectionIsTyped` (`FramedConnectionProofs`) | `Spec => []TypeOK` |
| `TypeCorrect` (`LocalSaveProofs`) | `Spec => []TypeOK` |
| `AlwaysWhole` | `Spec => []WholeAfterCrash` |
| `MergeBaseAlwaysOnDisk` | `Spec => []("foreign" \notin WhileSaving => MergeBaseIsOnDisk)` |
| `EditsAlwaysKeepTheirMarks` | `Spec => []EditsKeepTheirMarks` |
| `ExitStatusAlwaysTrue` | `Spec => []ExitStatusIsTrue` |
| `QuitNeverLoses` | `Spec => QuitLosesNothing` |
| `RemoteUsesHosts` (`HostsProofs`) | `Spec => HostsSpec`: each step of `RemoteSave` is a step of `Hosts` or leaves it alone |
| `RemoteOneConnection` | `Spec => []OneConnection` |
| `RemoteCancelledNeverYields` | `Spec => CancelledNeverYields` |
| `SaveAlwaysCarried` | `Spec => []SaveIsCarried` |
| `RemoteSaveIsTyped` | `Spec => []TypeOK` |
| `UnmodifiedAlwaysSaved` | `Spec => []UnmodifiedIsSaved` |
| `UnmodifiedAlwaysOnHost` | `Spec => []UnmodifiedIsOnHost` |
| `RelayIsTyped` (`ProcessRelayProofs`) | `Spec => []TypeOK` |
| `RelayCreditAddsUp` | `Spec => []CreditAddsUp` |
| `InputAndOutputArePipes` | `Spec => Stdout!Spec /\ Stdin!Spec`: two refinements of `FrameChannel` |
| `PipesAreImplemented` | `2 \in Fds` implies `Spec => ImplementsPipes`: the same, and of stderr, where it is captured |
| `RelayInvariant` | `Spec => []RelayInv`, on which these four rest |
| `BrokerIsTyped` (`BrokerProofs`) | `Spec => []TypeOK` |
| `TracesAlwaysOfConnections` | `Spec => []TracesAreOfConnections` |
| `NobodyEverLeftOpen` | `Spec => []NobodyLeftOpen` |
| `OneHandshakeUnlessEverMixed` | `Spec => []OneHandshakeUnlessMixed` |
| `AnswersOwnUnlessEverMixed` | `Spec => []AnswersAreOwnUnlessMixed` |

Assumptions: `BoundsAssumption` (the bounds are naturals) and `WindowAssumption` (the window
is positive: an endpoint's constructor raises its window to at least one); `RoomAssumption` and `ChargeAssumption` (a pipe
holds something, the limit and every frame's charge are positive: the charge includes the header); `LocalSaveAssumption` (`Fsync` is a
Boolean, as the option is, and `WhileSaving` names things that exist); `HostsAssumption` and
`RemoteSaveAssumption` (at least one connection, and a save is one of the callers). The theorems on the
local save hold for every `WhileSaving`, so also for what the run leaves out. `RelayAssumption` has stdout
always and stderr if it is captured, as `ProcSpawn` does, and a positive window. `ThreadsAssumption` says that a daemon has one
thread for each connection and each process, and the sweeper, and that these differ; `ServersAssumption`, that the
limit on servers is a natural.
Every theorem is about `Spec`, with all its interleavings. Three of the properties have the condition in themselves, as a history
variable: `raced` in `UnmodifiedIsOnHost` (see [remote save](#6-the-remote-save-remotesave)) and `mixed` in the last two of the broker
(see [broker](#3-the-broker-brokerrouter-and-brokerdaemon)); without it each is false.

### The message layer

*The argument.* Neither safety property is inductive: whether the next message is acceptable
depends on messages still in flight. `IInv` therefore says what the channels may hold:

* `TypeInv`, and no fault so far;
* `IdsInv`: every id in flight has been issued; the host knows of no request, and no chunk,
  response or grant of one is in flight, before that request arrived;
* `RequestsInv`: requests in flight have growing ids above `lastPeerId`, and each, like each the
  host is answering, is still in an open client's table;
* `ResponsesInv`: a response in flight is the last frame of its request, and the request is no
  longer in the host's table, so it is answered once;
* `ChunksInv`: chunks in flight are consecutive, from what the client expects to what the host
  has sent;
* `CreditInv`: each grant in flight carries how much was ever granted once it counts
  (`upto`, a history field). What the host has counted is at most the first grant's start, each
  grant starts at or after where the one before ended, and the last ends at most at what the
  client gave back. So chunks sent never exceed the window plus what was consumed, which is
  `WindowRespected`.

`CreditInv` is an inequality. That credit is not lost either, `CreditAlwaysConserved`, is an equality with the
sum of the grants on a channel. `AllCounted` says it as an account: what the host has counted (`Counted`), with the
grants on their way, is what the client gave back (`GrantedBack`). Every step either leaves both sides alone, appends to
the channel what it adds to the one, or takes from its front what it adds to the other.

A sum is `Total`, a recursive function on the prefixes of a sequence. `SequenceFacts` proves that there is such a
function, for every sequence, and that its value follows an appended, a shortened and a joined sequence. The library's
induction takes an operator the provers cannot instantiate; `Induction` is stated over a set instead, from the least
number that is not in it, which is all that these laws need.

`EndpointSafety` begins with the facts on sequences used throughout (appending, dropping the
first, keeping a prefix) and type preservation, one lemma per action. Then it has one
lemma per action and per part of the invariant that the action can disturb.

`BacklogAlwaysDriven` needs one more fact (`BInv`): nobody waits for a request that has not arrived, or a
producer that waited under an id would wait for a backlog its new request does not have.

*The refinement* (`RequestsAreStreams`) rests on `IInv` and on `SInv`, which ties what issuers saw to what is on
its way:

* `FreshInv`: an id not yet taken has no history, so a new request starts as a new stream does;
* `PendingInv`: a request still in the table that has its handlers has had no terminal callback; if it was not
  given up it has its handlers, and was handed every chunk that was heard. This is what makes a terminal callback
  the only one, and a delivered chunk the next one;
* `ProducedInv`: what a handler produced was sent or is queued, in order, and all of it as long as the host
  answers the request. It needs that a flush sends the head of the queue and keeps the rest;
* `NumberedInv`: a chunk in flight carries what was produced in its place;
* `CompleteInv`: when a result is in flight everything produced was sent, and if the client has not heard all
  of it, the last chunk is ahead of the result in the channel. With the order of the channel (`ChunksInv`) a result that is
  heard therefore comes after every chunk.

Frames are followed by their place in the channel. A step of a client's call, of a frame heard, and of the host is
shown to be a step of `RequestStream` or a stutter (`ClientCallsRefine`, `ClientReceiveRefines`, `HostRefines`);
the `Channel...` lemmas show that each keeps the last two parts.

### The framed connection

*The argument.* A frame given to `SendFrame` is in one of four places: heard by the peer, in the pipe, in the
writer's hand, or queued. `OutInv` says that these, in this order, are consecutive numbers (`InOrder`), and that
a writer that goes on has written all it took (`NoneSkipped`): a writer that fails ends, so the gap it leaves is
never followed by a frame. This is why `PeerReads` always yields the next number, a `Receive` of the channel; the
refinement follows with `SendFrame` as `Send`, `PeerExits` as the end, and every other step as a stutter. It
needs neither the bounds nor the size of the pipe.

`InInv` does the same for what arrives. A frame the peer sent is delivered, or posted and not yet run, in the
reader's hand, or in the pipe, whole or as the start of one. `Numbering` says the posted frames follow, in order, those
delivered; `NoneMissing` that those after them are in the reader's hand and in the pipe; `Alternates` that a start is followed by
its rest, so a reader in the middle of a frame never takes another one's bytes; `EndIsLast` that the end is the reader's last work
and a clean one is posted only when the pipe is empty for good. Work is followed by its place in `Pending`, the batch and what was posted after it.
Once the owner is gone nothing bound to it runs (`Runs`), so the frames it leaves behind are delivered to nobody.

`LineInv` and `BelowLimit` are on the same queue, with `Total`. A line may be cut by any read, so `LineInv` counts the lines *ended* in
`buffered` and `errPipe` together (`LinesEnded`): moving a part from one to the other ends none, a piece printed ends one if it
is a newline after text (`Midline`), and a line taken off the front is the one that is posted. When its output has ended nothing is
left in the pipe, and a thread that reads on has no newline in what it holds. The counter the reader pauses on is the charge of
the posted frames, and the reader only reads below the limit, to which the main thread can but bring it closer from above.

`GInv` adds to `GracefulAttemptsAll` that a writer stops only
for the destructor, after which nothing is enqueued and no graceful shutdown is prepared.

### The local save

Every property rests on `TInv`: types, and that a write that runs has a text. On it stands one inductive
invariant for each property, all for the same `Next`:

* `WholeInv`: of a file that is replaced, with saves flushed, nothing the disk, the backups, the buffer or a
  write holds is torn, and a rename comes only after a flush (without the flush a rename adds `Torn` to
  `durable`, which is why `Fsync` is needed);
* `BaseInv`: after the step that put it there the text of a write is what the file holds, which is what
  `CommitSave` takes for the base; and an open buffer that has seen the file has its text as the base;
* `MarksInv`: outside a save, no mark means the text is the base; inside one, no *late* mark means the text is
  the one being written. It is this second half that an undo breaks. It also says that a save has a buffer
  in the state `saving` and the reverse, unless overtaken;
* `ExitInv`: with no write running the outcome is good or reported, and an exit nobody confirmed leaves none
  running;
* `QuitInv`: while a quit waits, the text is the one being written, or the saved one, unless it changed
  `since`.

### The hosts

`HInv` is `OneConnection` with what is known of the numbers: an attempt's is never that of a connection or of
a posted removal, and a connection whose removal is posted is not live. It is preserved by each step of `Hosts`
alone, and `RemoteUsesHosts` shows that `RemoteSave` only takes such steps; so both properties hold for any
other user of the same operations. `CInv` is `SaveIsCarried`, with the shape of the record it speaks of.

### The remote save

`UnmodifiedIsSaved` follows from `MarkInv`, which adds what a save needs: while one runs and nothing was typed since, the buffer holds
the text it carries. It is kept by every step, races on the host included.

`UnmodifiedIsOnHost` speaks of the buffer and the file, and is not inductive: an answer that is still to come, or
a check that has read the file, may set the buffer's text and time stamp later. `RInv` says what each of
them may hold, in three parts. A step keeps it unless the file is raced in that step (`RStep`), and `raced` stays (`RacedStays`), so
`raced \/ RInv` is inductive.

* `WritesInv`, of the host: one write at a time; one that passed its check still expects the file that is there;
  one that is done holds, with the file's time stamp, the file's text; and the sibling has a time stamp
  that no write expects or has for an answer.
* `SentInv`: the write whose answer the editor waits for has the text of the save in hand.
* `BufferInv`, of the editor: with the file's time stamp goes the file's text, as the saved text of the buffer and in a check that
  has read; nothing the editor holds is the sibling's time stamp.

The steps that replace the file make a time stamp nothing has, so they make every statement "if it is the
file's" vacuous; there `NewStampIsNew` is used, by a count of the places (`FS_Surjection`). An answer that counts is
that of the save in hand (`CInv`, `SentInv`), so what it brings agrees with the text that was sent (`FinishKeeps`).

### The broker

Five theorems of `Spec`, in two layers. The first holds whatever was left over; its invariant is `BrokerInv`:

* `RouterTyped`, `DaemonTyped`, `ClientsTyped`: the types, with what the router's own maps say of each other. `recency` has each
  entry once (`Distinct`), and an identifier is given to one relayed request (`Numbered`).
* `ThreadsInv`, of the threads and the transports: the thread of a process has no actions left while it reads, and one
  that is not started yet belongs to a process nobody has written to (`ReadersInv`); a registered transport is of a process
  of its key that is being read (`TransportsInv`); the holder of the mutex is registering a process (`HolderInv`); and
  of the processes of one key one at most is read or being given up (`OneReaderInv`). The last is why `ForgetServer` closes the
  transport it means to, and it holds because `StartReader` joins the earlier thread.
* `TracesAreOfConnections` and `NobodyLeftOpen`. A connection is in the entry of its own key only, so what goes with an entry
  is the whole of it; and an entry that goes has an action to close each of its `Clients`, pending with the thread that
  tore it down until the connection is closed. A connection that has attached and said nothing is in no entry; the
  router keeps its key.

Each public method of the router is a change of one entry, or the removal of some, with actions that one thread is to apply.
So what a method does is stated once, as a lemma, and used by the thread that calls it. Eviction, the sweep and `Shutdown`
remove several entries; the actions they leave are the teardowns of each, in the order of `recency`.

The second layer is `OrderedInv`, which holds until `mixed` does: a step keeps it unless it ends in a state that is not `Unmixed`, and
`mixed` stays. *Pending* is what some thread is still to apply:

* `NoTwins`: no two pending actions are both the `initialize` of one process, or both an answer to one request.
* `HandshakeInv`: nobody has said `initialize` to the process of an entry that has not started its handshake, nor
  to one whose `initialize` is pending, and not both. This is where `Unmixed` is needed: the action names a key, and the process
  the key has when it is applied must be the one it was meant for.
* `RelayInv`: what a process was asked and has not answered, or what is pending for it, matches the entry's relayed
  request of that identifier (`Matches`), if it is there still. An identifier is never used again while its entry lives, and a
  client that left took its relayed requests with it.
* `ReplyInv`: of a request, one of three: it is relayed, its answer is pending, or the answer has come.

Most steps are *calm*: entries go, come without a process, or go on without a handshake or a new request; what becomes
pending is no `initialize` or answer, and a request at most for an entry that is gone; no process is asked and no editor
answered anything. One lemma (`CalmStep`) keeps `OrderedInv`
through all of them. The others each add something, and have a lemma of their own: an `initialize` of a client, a registration,
the start of a reader, a request, an answer, and the writing of a frame to a server or a client.

### A remote process

`RelayInv` has nine parts, which need each other in the order given:

* `Typed`, the types and messages (`TypeOK` has tighter bounds, which need the rest). That an answer is there when
  a write is done (`DoneIsAsked`, the guard `writeAnswers.empty()` of `OnProcWritten`) is no type; it comes from `InputInv`.
* `SpawnInv`: the spawn is first in the host's queue, and before it, and of a program that could not be run,
  there is nothing. `OwnerInv`: nothing is thrown away while the owner is there.
* `ReaderInv`: of each output, its reader may go on, or its piece is on the host and waits to be handled or for
  credit, or it has seen the end; never two of these. So each output has one piece on the host at most.
* `AnswerInv`, `GoneInv`: the answer of the spawn is sent when both readers have seen the end and nothing waits
  for credit, and only answers to writes are behind it.
* `OutputInv`: the queues between a process and its owner (`hostPosts`, `backlog`, `toEditor`) carry consecutive
  runs of piece numbers, each beginning where the next queue's run ends (`Carries`), from what has arrived to what was
  read. With `AnswerInv`, when the spawn is answered all three are empty of output, so what has arrived
  is all that was written. This is why `FinishProcIfDone` must wait for both readers, and for the stream's backlog.
* `InputInv`: there is one write or close at a time, as a post, a request, an item, a post of the writer or an
  answer (the sum `Count`), or as a relay that will ask no more; what it asks is the number that comes next. A write
  that timed out is still one of these, which is why what the process reads has no gap.
* `CreditInv`: credit on the host, on the way back, on the way here and consumed come to the window at most, and
  what was consumed is held, or its grant is posted or waits for a batch.

`PipeSteps` then finds in each step of the relay a step of `FrameChannel`, or none: a piece is written, is read, or
the channel ends.

The two theorems `TypeCorrect` are not repeated by a run; every other module's `TypeOK` is checked by one.

*Only model-checked*: liveness, under fairness, which is out of the prover's reach. Every invariant, action property
and refinement that a passing run checks is also proved; `MergeBaseIsOnDisk` under the condition its theorem states.

## Findings

Six runs find that the code does not do what the repository says of it.

1. `framed_connection_writer`. A writer that gives up because the peer stopped draining its
   input, or because a frame is over the size limit, ends without a word; the comment says the
   read loop will report it, but the peer lives and the read loop sees no end
   (`FramedConnection.h:323`). Later frames pile up in a queue nobody reads.
2. `broker_wedge`. Registering a new reader thread joins the earlier one of the same project
   with the mutex held, while that one needs the mutex to end (`BrokerDaemon.cpp:373`). The
   header promises that joins never wait on work that needs the lock.
3. `broker_queue`. An entry swept while its client was attached but not yet initialized comes
   back as `NotStarted` when the client speaks, and every later client of that project queues
   behind a handshake that never starts (`Broker.cpp:156`).
4. `broker_handshake`. What the router asks for is done after the lock is released, and a frame names its process by root and
   language (`BrokerDaemon.cpp:380-387`). An `initialize` that was to go to a process which has ended reaches the next one of
   that project, which then gets two; `Broker.h:28-35` says each gets one, as LSP forbids a second.
5. `local_save_undo`. While a save of an edited buffer is in flight, undoing to the text last saved clears
   the marks (`Buffer.cpp:2338`); the save then lands, the buffer holds the old text, the file the new one, and
   nothing is marked unsaved. `Buffer.h:626` promises that edits made meanwhile stay marked.
6. `process_stdin`. A write to a remote process that times out, or stalls, is taken for a closed stdin
   (`Proc.cpp:231`), and the relay then never asks the host to close it. An owner that had written all and closed its
   input does not hear of it, and a process that reads to the end waits for good. `Docs/ClientServerProtocol.md:233`
   promises that nothing can tell such a child from a local one, which gets its end of input.

## What is not modelled

* In the modelled parts: CBOR and JSON codecs, compression, logging; the `ned/broker-info`
  request, socket binding and stale sockets, reaping of announced threads and process exit in
  the daemon; the editor's side of attaching (`BrokerConnect`); how long a wait takes (no clocks).
* In the saves: the auto-save timer, its snapshots and memo. A save removes whatever snapshot is
  there when it ends, so also one made of edits since it began (`Backup.cpp:400`, `442`). The newline and
  trim transform of the text. Chunks of an upload; the parts that two overlapping writes leave in a shared sibling
  file. Opening, reloading and moving remote files.
* In the hosts: several destinations (they share nothing), ssh and its master process, deployment of the
  agent, questions for a password. No waiter disconnects the host from its callback; none of the code's does.
* In the remote process: signals, terminals and their resizing; other processes that keep its pipes open after it
  has ended; an agent that dies and leaves its children (as opposed to a lost connection). Cancelling a spawn: the
  host then forgets the stream, and a reader that waits for `OnDrained` is let go by nobody
  (`Dispatcher.cpp:983`); nothing in the editor cancels one.
* Whole components: see the inventory and the notes in `PROJECT.json`. Editing commands,
  parsing, highlighting and rendering are large and sequential, and well served by the
  repository's unit tests; a model of them would be a transcription. They are also nearly all of the
  repository's lines.

## Plan

Done: (1) `RequestStream`, `Endpoint` and its proofs; (2) `FrameChannel`, `FramedConnection`;
(3) `BrokerRouter`, `BrokerDaemon`; (4) `LocalSave` and its proofs; (5) `Hosts`, `RemoteSave` and the proofs on both;
(6) `ProcessRelay` and its proofs; (7) `BrokerProofs`.

Left, in order of worth:

* The auto-save timer next to `LocalSave`: snapshot and memo against a save on another thread.
* The undo tree and the saved point on an abandoned branch; child reaping; file watching.
* The order of frames in a server's pipe: that `initialized` comes before any request.
