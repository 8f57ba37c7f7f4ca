--------------------------- MODULE FramedConnection ---------------------------
(***************************************************************************)
(* A connection to another process                                         *)
(* (Source/Editor/Protocol/FramedConnection.h): a reader thread that posts *)
(* every frame to the main thread, a writer thread that drains a queue of  *)
(* outgoing frames, a thread that logs the peer's stderr, and a destructor *)
(* that must stop all three without hanging the main thread.               *)
(*                                                                         *)
(* The main thread runs what the others posted (PostQueue), makes the      *)
(* calls of the connection's owner, and is blocked while the destructor    *)
(* joins a thread.  The peer is the environment: it reads, writes, stalls  *)
(* and exits as it pleases.                                                *)
(***************************************************************************)
EXTENDS SequenceOps

CONSTANTS MaxSent,         \* bound: frames the owner sends
          MaxFrames,       \* bound: frames the peer sends
          MaxPrinted,      \* bound: pieces the peer prints on stderr
          PipeRoom,        \* what a pipe holds, in pieces of frames
          MaxQueuedBytes,  \* Options::maxQueuedBytes
          Charges          \* what a queued frame counts for

ASSUME BoundsAssumption == MaxSent \in Nat /\ MaxFrames \in Nat /\ MaxPrinted \in Nat
ASSUME RoomAssumption   == PipeRoom \in Nat \ {0} /\ MaxQueuedBytes \in Nat \ {0}
ASSUME ChargeAssumption == Charges \subseteq Nat \ {0} /\ Charges # {}

VARIABLES
  owner,        \* "up", then the destructor's progress, then "gone"
  drain,        \* drainQueueOnStop_
  writer,       \* the writer thread; "writing" holds a frame
  writing,      \* the frame it holds
  writeQueue,
  reader,       \* the reader thread
  hand,         \* the frame it has read and not yet posted
  queuedBytes,  \* posted frames the main thread has not taken
  stderr,       \* the stderr thread; "eof" is its end when the peer's output ends
  buffered,     \* what it has read and not made into lines
  posted,       \* PostQueue: work waiting
  batch,        \* PostQueue: work DrainPosted_ took out and is running
  peer,         \* "running" or "exited"
  midway,       \* the peer has sent the start of a frame
  fromPeer,     \* the peer's stdout: frames in pieces
  toPeer,       \* the peer's stdin: frames
  errPipe,      \* the peer's stderr: pieces of text and newlines
  sent,         \* history: frames the peer has sent whole
  delivered,    \* history: frames given to onFrame_
  reported,     \* history: the end given to onDisconnected_, or "none"
  enqueued,     \* history: frames given to SendFrame
  heard,        \* history: frames the peer has read
  printed,      \* history: what the peer printed on stderr
  logged        \* history: lines that reached the log

writerVars == <<writer, writing, writeQueue, toPeer>>
readerVars == <<reader, hand, fromPeer>>
stderrVars == <<stderr, buffered, errPipe, printed>>
peerVars   == <<peer, midway, sent, heard>>
mainVars   == <<batch, delivered, reported, logged, enqueued, drain>>
vars == <<owner, writerVars, readerVars, queuedBytes, stderrVars, posted, peerVars, mainVars>>

-----------------------------------------------------------------------------
(* Data *)

\* A frame leaves in one piece; one over kMaxFrameBytes is refused.
OutFrame(n, fits) == [n |-> n, fits |-> fits]

\* A frame arrives as a start and a rest.  charge 0 is an empty frame, which
\* the reader skips; "bad" is a start no transport accepts.
Start         == [part |-> "start"]
Bad           == [part |-> "bad"]
Rest(n, c)    == [part |-> "rest", n |-> n, charge |-> c]

\* Posted work.  Frames and the end are bound to the connection's lifetime
\* token; a log line carries all it needs by value.
FrameWork(f)  == [kind |-> "frame", n |-> f.n, charge |-> f.charge]
EndWork(how)  == [kind |-> "end", how |-> how]
LogWork       == [kind |-> "log"]

NoFrame == [n |-> 0, charge |-> 0]
NoOut   == OutFrame(0, TRUE)

Alive      == owner = "up"
WriterStop == owner # "up"
ClosedAfterJoins == owner \in {"joinStderr", "gone"}  \* (mutant)
Closed     == owner \notin {"up", "joinWriter"}
ReaderStop == owner \notin {"up", "joinWriter", "closed"}

Init ==
  /\ owner = "up" /\ drain = FALSE
  /\ writer = "check" /\ writing = NoOut /\ writeQueue = <<>>
  /\ reader = "top" /\ hand = NoFrame /\ queuedBytes = 0
  /\ stderr \in {"reading", "done"} /\ buffered = <<>>  \* whether stderr is captured
  /\ posted = <<>> /\ batch = <<>>
  /\ peer = "running" /\ midway = FALSE
  /\ fromPeer = <<>> /\ toPeer = <<>> /\ errPipe = <<>>
  /\ sent = <<>> /\ delivered = <<>> /\ reported = "none"
  /\ enqueued = 0 /\ heard = <<>> /\ printed = <<>> /\ logged = 0

-----------------------------------------------------------------------------
(* The owner's calls, on the main thread.  Each may come from inside a     *)
(* posted callback, with the rest of the batch still to run.               *)

\* notify_one, and what request_stop does through the stop_token's callback.
Woken(w) == IF w = "waiting" THEN "check" ELSE w

SendFrame(fits) ==
  /\ Alive /\ enqueued < MaxSent
  /\ enqueued'   = enqueued + 1
  /\ writeQueue' = Append(writeQueue, OutFrame(enqueued + 1, fits))
  /\ writer'     = Woken(writer)
  /\ UNCHANGED <<owner, drain, writing, toPeer, readerVars, queuedBytes, stderrVars,
                 posted, batch, delivered, reported, logged, peerVars>>

PrepareForGracefulShutdown ==
  /\ Alive
  /\ drain' = TRUE
  /\ UNCHANGED <<owner, writerVars, readerVars, queuedBytes, stderrVars, posted,
                 batch, delivered, reported, logged, enqueued, peerVars>>

\* ~FramedConnection revokes the lifetime token, then stops and joins the
\* writer, hangs up, and stops and joins both readers.
Destroy ==
  /\ Alive
  /\ owner'  = "joinWriter"
  /\ writer' = Woken(writer)
  /\ UNCHANGED <<writing, writeQueue, toPeer, readerVars, queuedBytes, stderrVars,
                 posted, peerVars, mainVars>>

CloseTransport ==
  /\ owner = "joinWriter" /\ writer \in {"failed", "stopped"}
  /\ owner' = "closed"
  /\ UNCHANGED <<writerVars, readerVars, queuedBytes, stderrVars, posted, peerVars, mainVars>>

ReaderNotWoken == reader  \* (mutant)
ReaderWoken == IF reader = "parked" THEN "gate" ELSE reader

StopReader ==
  /\ owner = "closed"
  /\ owner'  = "joinReader"
  /\ reader' = ReaderWoken
  /\ UNCHANGED <<writerVars, hand, fromPeer, queuedBytes, stderrVars, posted, peerVars, mainVars>>

JoinReader ==
  /\ owner = "joinReader" /\ reader = "done"
  /\ owner' = "joinStderr"
  /\ UNCHANGED <<writerVars, readerVars, queuedBytes, stderrVars, posted, peerVars, mainVars>>

JoinStderr ==
  /\ owner = "joinStderr" /\ stderr \in {"eof", "done"}
  /\ owner' = "gone"
  /\ UNCHANGED <<writerVars, readerVars, queuedBytes, stderrVars, posted, peerVars, mainVars>>

-----------------------------------------------------------------------------
(* The main loop.  The queue outlives the connection. *)

MainIsFree == owner \in {"up", "gone"}

\* DrainPosted_ takes everything posted so far; later work waits its turn.
DrainPosted ==
  /\ MainIsFree /\ batch = <<>> /\ posted # <<>>
  /\ batch'  = posted
  /\ posted' = <<>>
  /\ UNCHANGED <<owner, drain, writerVars, readerVars, queuedBytes, stderrVars,
                 delivered, reported, logged, enqueued, peerVars>>

RunsUnbound(w)    == TRUE   \* (mutant)
RunsWhileAlive(w) == Alive  \* (mutant)
Runs(w) == w.kind = "log" \/ Alive

\* One piece of posted work.  A frame's charge is given back, and a reader
\* waiting for that is woken, before the frame is handled.
RunPosted ==
  /\ MainIsFree /\ batch # <<>>
  /\ batch' = Tail(batch)
  /\ LET w == Head(batch) IN
     /\ logged' = IF w.kind = "log" /\ Runs(w) THEN logged + 1 ELSE logged
     /\ IF w.kind = "frame" /\ Runs(w)
        THEN /\ queuedBytes' = queuedBytes - w.charge
             /\ delivered'   = Append(delivered, w.n)
             /\ reader'      = ReaderWoken
        ELSE UNCHANGED <<queuedBytes, delivered, reader>>
     /\ reported' = IF w.kind = "end" /\ Runs(w) THEN w.how ELSE reported
  /\ UNCHANGED <<owner, drain, writerVars, hand, fromPeer, stderrVars, posted, enqueued, peerVars>>

-----------------------------------------------------------------------------
(* The writer thread *)

StopsThoughDraining == WriterStop  \* (mutant)
StopsWithQueue == WriterStop /\ ~drain

\* Waits for a frame or a stop; an ordinary stop leaves the queue unsent.
WriterChecks ==
  /\ writer = "check"
  /\ IF writeQueue = <<>>
     THEN /\ writer' = IF WriterStop THEN "stopped" ELSE "waiting"
          /\ UNCHANGED <<writing, writeQueue>>
     ELSE IF StopsWithQueue
     THEN writer' = "stopped" /\ UNCHANGED <<writing, writeQueue>>
     ELSE /\ writer'     = "writing"
          /\ writing'    = Head(writeQueue)
          /\ writeQueue' = Tail(writeQueue)
  /\ UNCHANGED <<owner, toPeer, readerVars, queuedBytes, stderrVars, posted, peerVars, mainVars>>

WriterWrites ==
  /\ writer = "writing" /\ writing.fits /\ peer = "running" /\ Len(toPeer) < PipeRoom
  /\ toPeer' = Append(toPeer, writing.n)
  /\ writer' = "check"
  /\ UNCHANGED <<owner, writing, writeQueue, readerVars, queuedBytes, stderrVars, posted,
                 peerVars, mainVars>>

AfterFailureGoesOn == "check"  \* (mutant)
AfterFailure == "failed"

\* WriteFrame throws: too large a frame, a peer that is gone, or one that has
\* not drained its stdin for the stall timeout.  The writer ends.
WriterFails ==
  /\ writer = "writing"
  /\ ~writing.fits \/ peer = "exited" \/ Len(toPeer) = PipeRoom
  /\ writer' = AfterFailure
  /\ UNCHANGED <<owner, writing, writeQueue, toPeer, readerVars, queuedBytes, stderrVars,
                 posted, peerVars, mainVars>>

-----------------------------------------------------------------------------
(* The reader thread *)

ReaderChecksStop ==
  /\ reader = "top"
  /\ reader' = IF ReaderStop THEN "done" ELSE "gate"
  /\ UNCHANGED <<owner, writerVars, hand, fromPeer, queuedBytes, stderrVars, posted,
                 peerVars, mainVars>>

MayReadAhead == TRUE  \* (mutant)
MayRead == queuedBytes < MaxQueuedBytes

\* Too many bytes posted and not taken: no reading until the main thread
\* catches up.
ReaderChecksQueue ==
  /\ reader = "gate"
  /\ reader' = IF MayRead THEN "reading" ELSE IF ReaderStop THEN "done" ELSE "parked"
  /\ UNCHANGED <<owner, writerVars, hand, fromPeer, queuedBytes, stderrVars, posted,
                 peerVars, mainVars>>

ReaderEndsQuietly(how) == reader' = "done" /\ UNCHANGED posted  \* (mutant)

\* The reader ends and says so, whatever its owner is doing.
ReaderEnds(how) ==
  /\ reader' = "done"
  /\ posted' = Append(posted, EndWork(how))

\* ReadFrame waits without bound for a frame to start, or for the hang-up.
ReadStart ==
  /\ reader = "reading"
  /\ \/ Closed /\ ReaderEnds("eof") /\ UNCHANGED fromPeer
     \/ /\ ~Closed /\ fromPeer = <<>> /\ peer = "exited"
        /\ ReaderEnds("eof") /\ UNCHANGED fromPeer
     \/ /\ ~Closed /\ fromPeer # <<>> /\ Head(fromPeer) = Bad
        /\ ReaderEnds("error") /\ fromPeer' = Tail(fromPeer)
     \/ /\ ~Closed /\ fromPeer # <<>> /\ Head(fromPeer) = Start
        /\ reader' = "midframe" /\ fromPeer' = Tail(fromPeer) /\ UNCHANGED posted
  /\ UNCHANGED <<owner, writerVars, hand, queuedBytes, stderrVars, peerVars, mainVars>>

\* The rest of a frame; silence past the stall timeout ends the connection.
ReadRest ==
  /\ reader = "midframe"
  /\ \/ /\ Closed \/ fromPeer = <<>>
        /\ ReaderEnds("error") /\ UNCHANGED <<fromPeer, hand>>
     \/ /\ ~Closed /\ fromPeer # <<>>
        /\ LET f == Head(fromPeer) IN
             /\ hand'   = [n |-> f.n, charge |-> f.charge]
             /\ reader' = IF f.charge = 0 THEN "top" ELSE "posting"
        /\ fromPeer' = Tail(fromPeer) /\ UNCHANGED posted
  /\ UNCHANGED <<owner, writerVars, queuedBytes, stderrVars, peerVars, mainVars>>

ChargeWithoutOverhead(f) == f.charge - 1  \* (mutant)
Charge(f) == f.charge

PostFrame ==
  /\ reader = "posting"
  /\ queuedBytes' = queuedBytes + Charge(hand)
  /\ posted'      = Append(posted, FrameWork(hand))
  /\ reader'      = "top"
  /\ UNCHANGED <<owner, writerVars, hand, fromPeer, stderrVars, peerVars, mainVars>>

-----------------------------------------------------------------------------
(* The stderr thread *)

\* A chunk is whatever the pipe has.  The thread ends with its output, and
\* with the hang-up or a read error, which may leave the rest unread; what is
\* buffered without a newline goes with it.
ReadStderr ==
  /\ stderr = "reading"
  /\ \/ /\ ~Closed /\ errPipe # <<>>
        /\ \E k \in 1 .. Len(errPipe) :
             /\ buffered' = buffered \o SubSeq(errPipe, 1, k)
             /\ errPipe'  = SubSeq(errPipe, k + 1, Len(errPipe))
        /\ stderr' = "splitting"
     \/ /\ ~Closed /\ errPipe = <<>> /\ peer = "exited"
        /\ stderr' = "eof" /\ UNCHANGED <<buffered, errPipe>>
     \/ stderr' = "done" /\ UNCHANGED <<buffered, errPipe>>
  /\ UNCHANGED <<owner, writerVars, readerVars, queuedBytes, printed, posted, peerVars, mainVars>>

\* The text up to the first newline is posted as a line, an empty one is not.
SplitLine ==
  /\ stderr = "splitting"
  /\ \/ /\ \A i \in 1 .. Len(buffered) : buffered[i] = "text"
        /\ stderr' = "reading" /\ UNCHANGED <<buffered, posted>>
     \/ \E m \in 1 .. Len(buffered) :
          /\ buffered[m] = "newline" /\ \A i \in 1 .. m - 1 : buffered[i] = "text"
          /\ buffered' = SubSeq(buffered, m + 1, Len(buffered))
          /\ posted'   = IF m = 1 THEN posted ELSE Append(posted, LogWork)
          /\ UNCHANGED stderr
  /\ UNCHANGED <<owner, writerVars, readerVars, queuedBytes, errPipe, printed, peerVars, mainVars>>

-----------------------------------------------------------------------------
(* The peer *)

PeerSends ==
  /\ peer = "running" /\ Len(fromPeer) < PipeRoom
  /\ \/ /\ ~midway /\ Len(sent) < MaxFrames
        /\ midway' = TRUE /\ fromPeer' = Append(fromPeer, Start)
        /\ UNCHANGED sent
     \/ /\ ~midway /\ Len(sent) < MaxFrames
        /\ fromPeer' = Append(fromPeer, Bad)
        /\ UNCHANGED <<midway, sent>>
     \/ /\ midway
        /\ midway' = FALSE
        /\ \/ /\ fromPeer' = Append(fromPeer, Rest(0, 0))
              /\ UNCHANGED sent
           \/ /\ \E c \in Charges : fromPeer' = Append(fromPeer, Rest(Len(sent) + 1, c))
              /\ sent' = Append(sent, Len(sent) + 1)
  /\ UNCHANGED <<owner, writerVars, reader, hand, queuedBytes, stderrVars, posted,
                 peer, heard, mainVars>>

PeerReads ==
  /\ peer = "running" /\ toPeer # <<>>
  /\ heard'  = Append(heard, Head(toPeer))
  /\ toPeer' = Tail(toPeer)
  /\ UNCHANGED <<owner, writer, writing, writeQueue, readerVars, queuedBytes, stderrVars,
                 posted, peer, midway, sent, mainVars>>

PeerPrints ==
  /\ peer = "running" /\ stderr \in {"reading", "splitting"}
  /\ Len(printed) < MaxPrinted /\ Len(errPipe) < PipeRoom
  /\ \E piece \in {"text", "newline"} :
       /\ errPipe' = Append(errPipe, piece)
       /\ printed' = Append(printed, piece)
  /\ UNCHANGED <<owner, writerVars, readerVars, queuedBytes, stderr, buffered, posted,
                 peerVars, mainVars>>

PeerExits ==
  /\ peer = "running"
  /\ peer'   = "exited"
  /\ toPeer' = <<>>
  /\ UNCHANGED <<owner, writer, writing, writeQueue, readerVars, queuedBytes, stderrVars,
                 posted, midway, sent, heard, mainVars>>

-----------------------------------------------------------------------------
Writer == WriterChecks \/ WriterWrites \/ WriterFails
StderrReader == ReadStderr \/ SplitLine
Reader == ReaderChecksStop \/ ReaderChecksQueue \/ ReadStart \/ ReadRest \/ PostFrame
MainLoop == DrainPosted \/ RunPosted
Destructor == CloseTransport \/ StopReader \/ JoinReader \/ JoinStderr

Next ==
  \/ \E fits \in BOOLEAN : SendFrame(fits)
  \/ PrepareForGracefulShutdown
  \/ Destroy
  \/ Destructor
  \/ MainLoop
  \/ Writer
  \/ Reader
  \/ StderrReader
  \/ PeerSends \/ PeerReads \/ PeerPrints \/ PeerExits

Spec == Init /\ [][Next]_vars

\* The threads run, the stall timers fire, the main loop drains what is
\* posted, and a destructor that can go on does.  Nothing is asked of the peer.
Fairness ==
  /\ WF_vars(Writer) /\ WF_vars(Reader) /\ WF_vars(StderrReader)
  /\ WF_vars(MainLoop) /\ WF_vars(Destructor)

FairSpec == Spec /\ Fairness

-----------------------------------------------------------------------------
(* Properties *)

Works == {"frame", "end", "log"}

\* Every thread, queue and history has its type.
TypeOK ==
  /\ owner \in {"up", "joinWriter", "closed", "joinReader", "joinStderr", "gone"}
  /\ drain \in BOOLEAN
  /\ writer \in {"check", "waiting", "writing", "failed", "stopped"}
  /\ reader \in {"top", "gate", "parked", "reading", "midframe", "posting", "done"}
  /\ stderr \in {"reading", "splitting", "eof", "done"}
  /\ queuedBytes \in Nat /\ logged \in Nat
  /\ Len(printed) <= MaxPrinted /\ Len(errPipe) <= PipeRoom
  /\ \A i \in DOMAIN posted : posted[i].kind \in Works
  /\ \A i \in DOMAIN batch : batch[i].kind \in Works
  /\ Len(fromPeer) <= PipeRoom /\ Len(toPeer) <= PipeRoom
  /\ enqueued \in 0..MaxSent /\ Len(sent) <= MaxFrames
  /\ reported \in {"none", "eof", "error"} /\ peer \in {"running", "exited"}

Pending == batch \o posted

LinesIn(q) == Total([i \in DOMAIN q |-> IF q[i].kind = "log" THEN 1 ELSE 0])
BytesIn(q) == Total([i \in DOMAIN q |-> IF q[i].kind = "frame" THEN q[i].charge ELSE 0])

\* The lines with text that are ended in what the peer prints.
Ends(q)       == [i \in 1 .. Len(q) |-> IF q[i] = "newline" /\ i > 1 /\ q[i - 1] = "text" THEN 1 ELSE 0]
LinesEnded(q) == Total(Ends(q))

\* Every line the peer has ended, however its reads are cut, is once in the
\* log, on its way there, or not yet taken up; when stderr was read to its end
\* it is logged or posted, and stays so after the connection is gone
\* (StartStderrReadLoop posts by value).  Nothing is promised for a last line
\* without a newline, which the code drops.
NoLineLost ==
  /\ logged + LinesIn(Pending) + LinesEnded(buffered \o errPipe) = LinesEnded(printed)
  /\ stderr = "eof" => logged + LinesIn(Pending) = LinesEnded(printed)

\* What is charged is what is posted and not yet taken, and it exceeds the
\* limit by less than one frame (StartReadLoop, kDefaultMaxQueuedBytes).
QueuedBytesExact ==
  Alive =>
    /\ queuedBytes = BytesIn(Pending)
    /\ \A c \in Charges : (\A d \in Charges : d <= c) => queuedBytes < MaxQueuedBytes + c

\* A connection prepared for a graceful shutdown tries every frame it was
\* given before its writer ends (PrepareForGracefulShutdown).
GracefulAttemptsAll ==
  drain /\ writer = "stopped" => writeQueue = <<>>

\* What the peer sends arrives as over a channel: once, in order, the end told
\* once and last, nothing after the owner is destroyed, and a clean end only
\* when nothing was lost (StartReadLoop, LifetimeToken::Bind).
Inbound == INSTANCE FrameChannel WITH
             received <- delivered,
             fate     <- IF reported # "none" THEN reported
                         ELSE IF Alive THEN "open" ELSE "dropped"
ImplementsInbound == Inbound!Spec

\* What the owner sends reaches the peer as over a channel, a failed or
\* interrupted write included: no frame overtakes or follows one that was
\* not written (SendFrame, StartWriteLoop).
Outbound == INSTANCE FrameChannel WITH
              sent     <- [i \in 1..enqueued |-> i],
              received <- heard,
              fate     <- IF peer = "running" THEN "open" ELSE "dropped"
ImplementsOutbound == Outbound!Spec

\* The destructor never hangs, whatever the peer and the threads are doing.
DestructorReturns == owner = "joinWriter" ~> owner = "gone"

\* A frame the peer has sent is handled, or the connection has ended: the
\* pause at maxQueuedBytes is never a disconnect and always ends.
FramesArrive ==
  \A n \in 1..MaxFrames :
    (Alive /\ Len(sent) >= n) ~> (~Alive \/ reported # "none" \/ Len(delivered) >= n)

\* The owner hears of a peer that exited.
ExitIsReported ==
  (Alive /\ peer = "exited") ~> (~Alive \/ reported # "none")

\* "pipe's gone -- the read loop's own EOF/error path already reports this":
\* a writer that gave up is followed by a reported disconnect (StartWriteLoop).
WriterFailureIsReported ==
  (Alive /\ writer = "failed") ~> (~Alive \/ reported # "none")
=============================================================================
