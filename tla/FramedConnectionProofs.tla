------------------------ MODULE FramedConnectionProofs ------------------------
(***************************************************************************)
(* Theorems about what a FramedConnection sends and receives, for any      *)
(* number of frames, any pipe and any peer.                                *)
(***************************************************************************)
EXTENDS FramedConnection, SequenceFacts, SequenceTheorems, TLAPS

-----------------------------------------------------------------------------
(* A graceful shutdown *)

\* A writer stops only for the destructor, after which nothing is enqueued and
\* no graceful shutdown is prepared.
StoppedForDestructor == writer = "stopped" => ~Alive

GInv == StoppedForDestructor /\ GracefulAttemptsAll

LEMMA GInvInductive ==
  ASSUME GInv, [Next]_vars
  PROVE  GInv'
<1> USE DEF GInv, StoppedForDestructor, GracefulAttemptsAll, Alive
<1>1. CASE \E fits \in BOOLEAN : SendFrame(fits)
  BY <1>1 DEF SendFrame, Woken
<1>2. CASE PrepareForGracefulShutdown
  BY <1>2 DEF PrepareForGracefulShutdown, writerVars
<1>3. CASE Destroy
  BY <1>3 DEF Destroy, Woken, mainVars
<1>4. CASE Destructor
  BY <1>4 DEF Destructor, CloseTransport, StopReader, JoinReader, JoinStderr, writerVars, mainVars
<1>5. CASE MainLoop
  BY <1>5 DEF MainLoop, DrainPosted, RunPosted, writerVars
<1>6. CASE WriterChecks
  BY <1>6 DEF WriterChecks, WriterStop, StopsWithQueue, mainVars
<1>7. CASE WriterWrites \/ WriterFails
  BY <1>7 DEF WriterWrites, WriterFails, AfterFailure, mainVars
<1>8. CASE Reader
  BY <1>8 DEF Reader, ReaderChecksStop, ReaderChecksQueue, ReadStart, ReadRest, PostFrame,
              writerVars, mainVars
<1>9. CASE StderrReader
  BY <1>9 DEF StderrReader, ReadStderr, SplitLine, writerVars, mainVars
<1>10. CASE PeerSends \/ PeerReads \/ PeerPrints \/ PeerExits
  BY <1>10 DEF PeerSends, PeerReads, PeerPrints, PeerExits, writerVars, mainVars
<1>11. CASE UNCHANGED vars
  BY <1>11 DEF vars, writerVars, mainVars
<1>12. QED
  BY <1>1, <1>2, <1>3, <1>4, <1>5, <1>6, <1>7, <1>8, <1>9, <1>10, <1>11 DEF Next, Writer

\* A connection prepared for a graceful shutdown tries every frame it was given
\* before its writer ends (PrepareForGracefulShutdown, StartWriteLoop).
THEOREM GracefulAlwaysAttemptsAll == Spec => []GracefulAttemptsAll
<1>1. Init => GInv
  BY DEF Init, GInv, StoppedForDestructor, GracefulAttemptsAll
<1>2. GInv /\ [Next]_vars => GInv'
  BY GInvInductive
<1>3. GInv => GracefulAttemptsAll
  BY DEF GInv
<1>4. QED
  BY <1>1, <1>2, <1>3, PTL DEF Spec

-----------------------------------------------------------------------------
(* The frames on their way out, as what was enqueued has one of four places *)
(* in order: heard by the peer, in the pipe, held by the writer, queued.    *)

OutFrames == [n : Nat, fits : BOOLEAN]

\* How many frames the writer has taken, and how many of them it has written.
Taken   == enqueued - Len(writeQueue)
Written == Len(heard) + Len(toPeer)

OutTyped ==
  /\ enqueued \in Nat /\ writeQueue \in Seq(OutFrames)
  /\ heard \in Seq(Nat) /\ toPeer \in Seq(Nat)
  /\ writer \in {"check", "waiting", "writing", "failed", "stopped"}

InOrder ==
  /\ \A i \in 1 .. Len(heard) : heard[i] = i
  /\ \A i \in 1 .. Len(toPeer) : toPeer[i] = Len(heard) + i
  /\ \A i \in 1 .. Len(writeQueue) : writeQueue[i].n = Taken + i

\* A writer that goes on while the peer runs has written all it took; the frame
\* it holds is the next one.
NoneSkipped ==
  /\ Written <= Taken
  /\ writer = "writing" => writing.n = Taken
  /\ peer = "running" /\ writer \in {"check", "waiting"} => Written = Taken
  /\ peer = "running" /\ writer = "writing" => Written = Taken - 1

OutInv == OutTyped /\ InOrder /\ NoneSkipped

outVars == <<enqueued, writeQueue, heard, toPeer, writer, writing, peer>>

LEMMA OutInvInit ==
  ASSUME Init
  PROVE  OutInv
<1>1. /\ enqueued = 0 /\ writeQueue = <<>> /\ heard = <<>> /\ toPeer = <<>>
      /\ writer = "check"
  BY DEF Init
<1>2. writeQueue \in Seq(OutFrames) /\ heard \in Seq(Nat) /\ toPeer \in Seq(Nat)
  BY <1>1, EmptySeq
<1>3. enqueued = 0 /\ Len(writeQueue) = 0 /\ Len(heard) = 0 /\ Len(toPeer) = 0
  BY <1>1, EmptySeq
<1>4. Taken = 0 /\ Written = 0
  BY <1>3 DEF Taken, Written
<1>5. OutTyped
  BY <1>1, <1>2 DEF OutTyped
<1>6. InOrder
  BY <1>3 DEF InOrder
<1>7. NoneSkipped
  BY <1>1, <1>4 DEF NoneSkipped
<1>8. QED
  BY <1>5, <1>6, <1>7 DEF OutInv

LEMMA OutInvUnchanged ==
  ASSUME OutInv, UNCHANGED outVars
  PROVE  OutInv'
BY DEF OutInv, OutTyped, InOrder, NoneSkipped, Taken, Written, outVars

LEMMA LengthsTyped ==
  ASSUME OutInv
  PROVE  /\ Len(writeQueue) \in Nat /\ Len(heard) \in Nat /\ Len(toPeer) \in Nat
         /\ Taken \in Int /\ Written \in Nat
BY LenProperties DEF OutInv, OutTyped, Taken, Written

LEMMA SendFrameKeepsOrder ==
  ASSUME OutInv, NEW fits \in BOOLEAN, SendFrame(fits)
  PROVE  OutInv'
<1> DEFINE f == OutFrame(enqueued + 1, fits)
<1>1. /\ enqueued' = enqueued + 1 /\ writeQueue' = Append(writeQueue, f)
      /\ writer' = Woken(writer) /\ UNCHANGED <<writing, toPeer, heard, peer>>
  BY DEF SendFrame, peerVars
<1>2. f \in OutFrames /\ f.n = enqueued + 1
  BY DEF OutFrame, OutFrames, OutInv, OutTyped
<1>3. writeQueue \in Seq(OutFrames) /\ enqueued \in Nat
  BY DEF OutInv, OutTyped
<1>4. /\ writeQueue' \in Seq(OutFrames) /\ Len(writeQueue') = Len(writeQueue) + 1
      /\ \A i \in 1 .. Len(writeQueue) : writeQueue'[i] = writeQueue[i]
      /\ writeQueue'[Len(writeQueue) + 1] = f
  <2> HIDE DEF f
  <2> QED BY <1>1, <1>2, <1>3
<1>5. Taken' = Taken /\ Written' = Written
  BY <1>1, <1>3, <1>4, LengthsTyped DEF Taken, Written
<1>6. OutTyped'
  BY <1>1, <1>3, <1>4 DEF OutInv, OutTyped, Woken
<1>7. InOrder'
  <2>1. ASSUME NEW i \in 1 .. Len(writeQueue') PROVE writeQueue'[i].n = Taken + i
    <3>1. CASE i \in 1 .. Len(writeQueue)
      BY <1>4, <3>1 DEF OutInv, InOrder
    <3>2. CASE i = Len(writeQueue) + 1
      BY <1>2, <1>3, <1>4, <3>2, LengthsTyped DEF Taken
    <3>3. QED
      BY <1>4, <2>1, <3>1, <3>2, LengthsTyped
  <2>2. QED
    BY <1>1, <1>5, <2>1 DEF OutInv, InOrder
<1>8. NoneSkipped'
  BY <1>1, <1>5 DEF OutInv, NoneSkipped, Woken
<1>9. QED
  BY <1>6, <1>7, <1>8 DEF OutInv

LEMMA WriterChecksKeepsOrder ==
  ASSUME OutInv, WriterChecks
  PROVE  OutInv'
<1>1. writer = "check" /\ UNCHANGED <<toPeer, heard, enqueued, peer>>
  BY DEF WriterChecks, peerVars, mainVars
<1>2. CASE UNCHANGED <<writing, writeQueue>> /\ writer' \in {"stopped", "waiting"}
  BY <1>1, <1>2 DEF OutInv, OutTyped, InOrder, NoneSkipped, Taken, Written
<1>3. CASE /\ writeQueue # <<>> /\ writer' = "writing"
           /\ writing' = Head(writeQueue) /\ writeQueue' = Tail(writeQueue)
  <2>1. writeQueue \in Seq(OutFrames) /\ enqueued \in Nat
    BY DEF OutInv, OutTyped
  <2>2. /\ writeQueue' \in Seq(OutFrames) /\ Len(writeQueue') = Len(writeQueue) - 1
        /\ \A i \in 1 .. Len(writeQueue') : writeQueue'[i] = writeQueue[i + 1]
    BY <1>3, <2>1, HeadTailProperties
  <2>3. Len(writeQueue) > 0 /\ writing' = writeQueue[1]
    BY <1>3, <2>1, EmptySeq
  <2>4. Taken' = Taken + 1 /\ Written' = Written
    BY <1>1, <2>1, <2>2, LengthsTyped DEF Taken, Written
  <2>5. writing'.n = Taken + 1
    BY <2>3, LengthsTyped DEF OutInv, InOrder
  <2>6. OutTyped'
    BY <1>1, <1>3, <2>2 DEF OutInv, OutTyped
  <2>7. ASSUME NEW i \in 1 .. Len(writeQueue') PROVE writeQueue'[i].n = Taken' + i
    <3>1. i + 1 \in 1 .. Len(writeQueue) /\ i \in Nat
      BY <2>2, <2>7, LengthsTyped
    <3>2. writeQueue[i + 1].n = Taken + (i + 1)
      BY <3>1 DEF OutInv, InOrder
    <3>3. QED
      BY <2>2, <2>4, <3>1, <3>2, LengthsTyped
  <2>8. InOrder'
    BY <1>1, <2>7 DEF OutInv, InOrder
  <2>9. NoneSkipped'
    BY <1>1, <1>3, <2>4, <2>5, LengthsTyped DEF OutInv, NoneSkipped
  <2>10. QED
    BY <2>6, <2>8, <2>9 DEF OutInv
<1>4. QED
  BY <1>2, <1>3 DEF WriterChecks

LEMMA WriterWritesKeepsOrder ==
  ASSUME OutInv, WriterWrites
  PROVE  OutInv'
<1>1. /\ writer = "writing" /\ peer = "running" /\ toPeer' = Append(toPeer, writing.n)
      /\ writer' = "check" /\ UNCHANGED <<writing, writeQueue, heard, enqueued, peer>>
  BY DEF WriterWrites, peerVars, mainVars
<1>2. writing.n = Taken /\ Written = Taken - 1
  BY <1>1 DEF OutInv, NoneSkipped
<1>3. Taken \in Nat /\ toPeer \in Seq(Nat)
  BY <1>2, LengthsTyped DEF OutInv, OutTyped
<1>4. /\ toPeer' \in Seq(Nat) /\ Len(toPeer') = Len(toPeer) + 1
      /\ \A i \in 1 .. Len(toPeer) : toPeer'[i] = toPeer[i]
      /\ toPeer'[Len(toPeer) + 1] = Taken
  BY <1>1, <1>2, <1>3
<1>5. Taken' = Taken /\ Written' = Taken
  <2>1. Taken' = Taken
    BY <1>1 DEF Taken
  <2>2. Written' = Written + 1
    BY <1>1, <1>4, LengthsTyped DEF Written
  <2>3. QED
    BY <1>2, <2>1, <2>2, LengthsTyped
<1>6. OutTyped'
  BY <1>1, <1>4 DEF OutInv, OutTyped
<1>7. ASSUME NEW i \in 1 .. Len(toPeer') PROVE toPeer'[i] = Len(heard) + i
  <2>1. CASE i \in 1 .. Len(toPeer)
    BY <1>4, <2>1 DEF OutInv, InOrder
  <2>2. CASE i = Len(toPeer) + 1
    BY <1>2, <1>4, <2>2, LengthsTyped DEF Written
  <2>3. QED
    BY <1>4, <1>7, <2>1, <2>2, LengthsTyped
<1>8. InOrder'
  BY <1>1, <1>5, <1>7 DEF OutInv, InOrder
<1>9. NoneSkipped'
  BY <1>1, <1>3, <1>5 DEF NoneSkipped
<1>10. QED
  BY <1>6, <1>8, <1>9 DEF OutInv

LEMMA PeerReadsKeepsOrder ==
  ASSUME OutInv, PeerReads
  PROVE  /\ OutInv' /\ Len(heard) < enqueued
         /\ heard' = Append(heard, Len(heard) + 1)
<1>1. /\ peer = "running" /\ toPeer # <<>> /\ heard' = Append(heard, Head(toPeer))
      /\ toPeer' = Tail(toPeer) /\ UNCHANGED <<writer, writing, writeQueue, enqueued, peer>>
  BY DEF PeerReads, mainVars
<1>2. toPeer \in Seq(Nat) /\ heard \in Seq(Nat) /\ Len(toPeer) > 0
  BY <1>1, EmptySeq DEF OutInv, OutTyped
<1>3. Head(toPeer) = Len(heard) + 1
  BY <1>2, LengthsTyped DEF OutInv, InOrder
<1>4. /\ toPeer' \in Seq(Nat) /\ Len(toPeer') = Len(toPeer) - 1
      /\ \A i \in 1 .. Len(toPeer') : toPeer'[i] = toPeer[i + 1]
  BY <1>1, <1>2, HeadTailProperties
<1>5. /\ heard' \in Seq(Nat) /\ Len(heard') = Len(heard) + 1
      /\ \A i \in 1 .. Len(heard) : heard'[i] = heard[i]
      /\ heard'[Len(heard) + 1] = Len(heard) + 1
  BY <1>1, <1>2, <1>3, LengthsTyped
<1>6. Taken' = Taken /\ Written' = Written
  BY <1>1, <1>4, <1>5, LengthsTyped DEF Taken, Written
<1>7. OutTyped'
  BY <1>1, <1>4, <1>5 DEF OutInv, OutTyped
<1>8. ASSUME NEW i \in 1 .. Len(toPeer') PROVE toPeer'[i] = Len(heard') + i
  <2>1. i + 1 \in 1 .. Len(toPeer) /\ i \in Nat
    BY <1>4, <1>8, LengthsTyped
  <2>2. toPeer[i + 1] = Len(heard) + (i + 1)
    BY <2>1 DEF OutInv, InOrder
  <2>3. QED
    BY <1>4, <1>5, <2>1, <2>2, LengthsTyped
<1>9. ASSUME NEW i \in 1 .. Len(heard') PROVE heard'[i] = i
  <2>1. CASE i \in 1 .. Len(heard)
    BY <1>5, <2>1 DEF OutInv, InOrder
  <2>2. CASE i = Len(heard) + 1
    BY <1>5, <2>2
  <2>3. QED
    BY <1>5, <1>9, <2>1, <2>2, LengthsTyped
<1>10. InOrder'
  BY <1>1, <1>6, <1>8, <1>9 DEF OutInv, InOrder
<1>11. NoneSkipped'
  BY <1>1, <1>6 DEF OutInv, NoneSkipped
<1>12. Len(heard) < enqueued
  BY <1>2, LengthsTyped DEF OutInv, OutTyped, NoneSkipped, Written, Taken
<1>13. QED
  BY <1>1, <1>3, <1>7, <1>10, <1>11, <1>12 DEF OutInv

LEMMA PeerExitsKeepsOrder ==
  ASSUME OutInv, PeerExits
  PROVE  OutInv'
<1>1. /\ peer' = "exited" /\ toPeer' = <<>>
      /\ UNCHANGED <<writer, writing, writeQueue, heard, enqueued>>
  BY DEF PeerExits, mainVars
<1>2. toPeer' \in Seq(Nat) /\ Len(toPeer') = 0
  BY <1>1, EmptySeq
<1>3. Taken' = Taken /\ Written' <= Written
  BY <1>1, <1>2, LengthsTyped DEF Taken, Written
<1>4. OutTyped' /\ InOrder'
  BY <1>1, <1>2, <1>3 DEF OutInv, OutTyped, InOrder
<1>5. Written' \in Nat
  BY <1>1, <1>2, LengthsTyped DEF Written
<1>6. NoneSkipped'
  BY <1>1, <1>3, <1>5, LengthsTyped DEF OutInv, NoneSkipped
<1>7. QED
  BY <1>4, <1>6 DEF OutInv

\* What the other steps leave alone.
LEMMA OthersKeepOrder ==
  ASSUME OutInv,
         \/ PrepareForGracefulShutdown \/ Destroy \/ Destructor \/ MainLoop \/ WriterFails
         \/ Reader \/ StderrReader \/ PeerSends \/ PeerPrints \/ UNCHANGED vars
  PROVE  OutInv' /\ UNCHANGED <<enqueued, heard, peer>>
<1>1. CASE Destroy
  <2>1. /\ UNCHANGED <<enqueued, writeQueue, heard, toPeer, writing, peer>>
        /\ writer' = Woken(writer)
    BY <1>1 DEF Destroy, peerVars, mainVars
  <2>2. QED
    BY <2>1 DEF OutInv, OutTyped, InOrder, NoneSkipped, Taken, Written, Woken
<1>2. CASE WriterFails
  <2>1. /\ UNCHANGED <<enqueued, writeQueue, heard, toPeer, writing, peer>>
        /\ writer' = "failed"
    BY <1>2 DEF WriterFails, AfterFailure, peerVars, mainVars
  <2>2. QED
    BY <2>1 DEF OutInv, OutTyped, InOrder, NoneSkipped, Taken, Written
<1>3. CASE \/ PrepareForGracefulShutdown \/ Destructor \/ MainLoop
           \/ Reader \/ StderrReader \/ PeerSends \/ PeerPrints \/ UNCHANGED vars
  <2> USE DEF outVars, writerVars, peerVars, mainVars
  <2>1. PrepareForGracefulShutdown \/ Destructor \/ MainLoop => UNCHANGED outVars
    BY DEF PrepareForGracefulShutdown, Destructor, CloseTransport, StopReader, JoinReader,
           JoinStderr, MainLoop, DrainPosted, RunPosted
  <2>2. Reader => UNCHANGED outVars
    BY DEF Reader, ReaderChecksStop, ReaderChecksQueue, ReadStart, ReadRest, PostFrame
  <2>3. StderrReader \/ PeerSends \/ PeerPrints \/ UNCHANGED vars => UNCHANGED outVars
    BY DEF StderrReader, ReadStderr, SplitLine, PeerSends, PeerPrints, vars
  <2>4. UNCHANGED outVars
    BY <1>3, <2>1, <2>2, <2>3
  <2>5. QED
    BY <2>4, OutInvUnchanged
<1>4. QED
  BY <1>1, <1>2, <1>3

LEMMA OutInvInductive ==
  ASSUME OutInv, [Next]_vars
  PROVE  OutInv'
<1>1. CASE \E fits \in BOOLEAN : SendFrame(fits)
  BY <1>1, SendFrameKeepsOrder
<1>2. CASE WriterChecks \/ WriterWrites \/ PeerReads \/ PeerExits
  BY <1>2, WriterChecksKeepsOrder, WriterWritesKeepsOrder, PeerReadsKeepsOrder,
     PeerExitsKeepsOrder
<1>3. QED
  BY <1>1, <1>2, OthersKeepOrder DEF Next, Writer

-----------------------------------------------------------------------------
(* The outgoing half is the channel that an endpoint takes it for *)

Numbered(n) == [i \in 1 .. n |-> i]

LEMMA NumberedGrows ==
  ASSUME NEW n \in Nat
  PROVE  /\ Numbered(n) \in Seq(Nat) /\ Len(Numbered(n)) = n
         /\ Numbered(n + 1) = Append(Numbered(n), n + 1)
<1>1. \A m \in Nat : Numbered(m) \in [1 .. m -> Nat]
  BY DEF Numbered
<1>2. \A m \in Nat : Numbered(m) \in Seq(Nat) /\ Len(Numbered(m)) = m
  BY <1>1
<1> DEFINE seq   == Numbered(n)
           grown == Append(seq, n + 1)
<1>3. /\ grown \in Seq(Nat) /\ Len(grown) = n + 1
      /\ \A i \in 1 .. n : grown[i] = seq[i]
      /\ grown[n + 1] = n + 1
  <2>1. seq \in Seq(Nat) /\ Len(seq) = n /\ n + 1 \in Nat
    BY <1>2
  <2> HIDE DEF seq
  <2>2. QED
    BY <2>1, AppendProperties
<1>4. \A i \in 1 .. n + 1 : Numbered(n + 1)[i] = grown[i]
  <2>1. \A i \in 1 .. n : seq[i] = i
    BY DEF Numbered
  <2>2. \A i \in 1 .. n + 1 : Numbered(n + 1)[i] = i
    BY DEF Numbered
  <2> HIDE DEF seq, grown
  <2>3. QED
    BY <1>3, <2>1, <2>2
<1>5. Numbered(n + 1) = grown
  <2>1. Numbered(n + 1) \in Seq(Nat) /\ Len(Numbered(n + 1)) = n + 1
    BY <1>2
  <2> HIDE DEF grown
  <2>2. QED
    BY <1>3, <1>4, <2>1, SeqEqual
<1>6. QED
  BY <1>2, <1>5

LEMMA OutboundStep ==
  ASSUME OutInv, [Next]_vars
  PROVE  [Outbound!Next]_Outbound!vars
<1>1. CASE \E fits \in BOOLEAN : SendFrame(fits)
  <2>1. enqueued \in Nat /\ enqueued' = enqueued + 1 /\ UNCHANGED <<heard, peer>>
    BY <1>1 DEF SendFrame, peerVars, OutInv, OutTyped
  <2>2. Outbound!Send
    BY <2>1, NumberedGrows DEF Outbound!Send, Numbered
  <2>3. QED
    BY <2>2 DEF Outbound!Next
<1>2. CASE PeerReads
  <2>1. /\ enqueued \in Nat /\ Len(heard) \in Nat /\ Len(heard) < enqueued
        /\ heard' = Append(heard, Len(heard) + 1)
    BY <1>2, PeerReadsKeepsOrder, LengthsTyped DEF OutInv, OutTyped
  <2>2. peer = "running" /\ UNCHANGED <<enqueued, peer>>
    BY <1>2 DEF PeerReads, mainVars
  <2>3. Numbered(enqueued)[Len(heard) + 1] = Len(heard) + 1
    BY <2>1 DEF Numbered
  <2>4. Outbound!Receive
    BY <2>1, <2>2, <2>3, NumberedGrows DEF Outbound!Receive, Numbered
  <2>5. QED
    BY <2>4 DEF Outbound!Next
<1>3. CASE PeerExits
  <2>1. peer = "running" /\ peer' = "exited" /\ UNCHANGED <<enqueued, heard>>
    BY <1>3 DEF PeerExits, mainVars
  <2>2. Outbound!End("dropped")
    BY <2>1 DEF Outbound!End
  <2>3. QED
    BY <2>2 DEF Outbound!Next
<1>4. CASE UNCHANGED <<enqueued, heard, peer>>
  BY <1>4 DEF Outbound!vars
<1>5. CASE WriterChecks \/ WriterWrites
  BY <1>4, <1>5 DEF WriterChecks, WriterWrites, peerVars, mainVars
<1>6. QED
  BY <1>1, <1>2, <1>3, <1>4, <1>5, OthersKeepOrder DEF Next, Writer

\* What the owner sends reaches the peer once, in order and with no gap, until
\* the peer ends, a failed or interrupted write included (SendFrame,
\* StartWriteLoop): the outgoing half of a connection implements FrameChannel.
THEOREM OutboundIsAChannel == Spec => ImplementsOutbound
<1>1. Init => OutInv /\ Outbound!Init
  <2>1. Init => Outbound!Init
    BY DEF Init, Outbound!Init
  <2>2. QED
    BY <2>1, OutInvInit
<1>2. OutInv /\ [Next]_vars => OutInv' /\ [Outbound!Next]_Outbound!vars
  BY OutInvInductive, OutboundStep
<1>3. QED
  BY <1>1, <1>2, PTL DEF Spec, ImplementsOutbound, Outbound!Spec

-----------------------------------------------------------------------------
(* The frames on their way in: delivered, then posted and not yet handled,  *)
(* then in the reader's hand, then in the pipe.                             *)

Frames == [n : Nat, charge : Nat]
Parts  == [part : {"start", "bad"}] \cup [part : {"rest"}, n : {0}, charge : {0}]
            \cup [part : {"rest"}, n : Nat \ {0}, charge : Charges]
Work   == [kind : {"frame"}, n : Nat \ {0}, charge : Nat] \cup [kind : {"end"}, how : {"eof", "error"}]
            \cup [kind : {"log"}]

InTyped ==
  /\ owner \in {"up", "joinWriter", "closed", "joinReader", "joinStderr", "gone"}
  /\ batch \in Seq(Work) /\ posted \in Seq(Work)
  /\ reader \in {"top", "gate", "parked", "reading", "midframe", "posting", "done"}
  /\ hand \in Frames /\ fromPeer \in Seq(Parts)
  /\ reader = "posting" => hand.n # 0
  /\ peer \in {"running", "exited"} /\ midway \in BOOLEAN
  /\ sent \in Seq(Nat) /\ delivered \in Seq(Nat)
  /\ reported \in {"none", "eof", "error"}

Numbering ==
  /\ \A i \in 1 .. Len(sent) : sent[i] = i
  /\ \A i \in 1 .. Len(delivered) : delivered[i] = i

FrameNumbers(q) == [i \in 1 .. Len(q) |-> IF q[i].kind = "frame" THEN q[i].n ELSE 0]
PartNumbers(q)  == [i \in 1 .. Len(q) |-> IF q[i].part = "rest" /\ q[i].charge # 0 THEN q[i].n ELSE 0]

\* Of the frames the peer has sent, those up to p are posted, and those after
\* it, but for one in the reader's hand, are in the pipe.
PostedTo(p) ==
  /\ Carries(FrameNumbers(Pending), Len(delivered), p)
  /\ reader = "posting" => hand.n = p + 1
  /\ Carries(PartNumbers(fromPeer), IF reader = "posting" THEN p + 1 ELSE p, Len(sent))

NoneMissing == Alive => \E p \in Nat : PostedTo(p)

\* What the reader finds in the middle of a frame is the rest of it.
Alternates ==
  /\ \A i \in 1 .. Len(fromPeer) :
       fromPeer[i] = Start => IF i < Len(fromPeer) THEN fromPeer[i + 1].part = "rest" ELSE midway
  /\ reader = "midframe" =>
       IF fromPeer = <<>> THEN midway ELSE fromPeer[1].part = "rest"

\* The end is posted once, as the reader's last work; a clean one only when the
\* pipe is empty for good.
Ended == reported # "none" \/ \E i \in 1 .. Len(Pending) : Pending[i].kind = "end"

EndIsLast ==
  Alive =>
    /\ Ended => reader = "done"
    /\ reported # "none" => \A i \in 1 .. Len(Pending) : Pending[i].kind = "log"
    /\ \A i \in 1 .. Len(Pending) : Pending[i].kind = "end" =>
         \A j \in 1 .. Len(Pending) : i < j => Pending[j].kind = "log"
    /\ (reported = "eof" \/ \E i \in 1 .. Len(Pending) : Pending[i] = EndWork("eof"))
         => fromPeer = <<>> /\ peer = "exited"

InInv == InTyped /\ Numbering /\ NoneMissing /\ Alternates /\ EndIsLast

-----------------------------------------------------------------------------
(* The pause at the limit                                                   *)

\* The reader holds or reads a frame only below the limit; the main thread can
\* only bring it lower.
BelowLimit ==
  /\ reader = "posting" => hand.charge \in Charges
  /\ queuedBytes \in Nat
  /\ Alive => queuedBytes = BytesIn(Pending)
  /\ reader \in {"reading", "midframe", "posting"} => queuedBytes < MaxQueuedBytes
  /\ \A c \in Charges : (\A d \in Charges : d <= c) => queuedBytes < MaxQueuedBytes + c

\* What a step does to the work that is posted and not yet run.
LEMMA WorkTyped ==
  /\ \A w \in Work : /\ w.kind \in {"frame", "end", "log"}
                     /\ w.kind = "frame" => w.n \in Nat \ {0} /\ w.charge \in Nat
                     /\ w.kind = "end" => w.how \in {"eof", "error"} /\ w = EndWork(w.how)
  /\ \A f \in Frames : f.n # 0 =>
       FrameWork(f) \in Work /\ FrameWork(f).kind = "frame"
                       /\ FrameWork(f).n = f.n /\ FrameWork(f).charge = f.charge
  /\ \A how \in {"eof", "error"} : EndWork(how) \in Work /\ EndWork(how).kind = "end"
                                   /\ EndWork(how).how = how
  /\ LogWork \in Work /\ LogWork.kind = "log"
BY DEF Work, Frames, FrameWork, EndWork, LogWork

LEMMA PendingTyped ==
  ASSUME batch \in Seq(Work), posted \in Seq(Work)
  PROVE  Pending \in Seq(Work) /\ Len(Pending) \in Nat
BY ConcatProperties, LenProperties DEF Pending

\* A thread posts; the main thread takes what is posted, and runs the first of it.
LEMMA PendingPosted ==
  ASSUME batch \in Seq(Work), posted \in Seq(Work), NEW w \in Work,
         batch' = batch, posted' = Append(posted, w)
  PROVE  Pending' \in Seq(Work) /\ posted' \in Seq(Work) /\ Grown(Pending', Pending, w)
<1>1. posted' \in Seq(Work) /\ posted' = posted \o <<w>> /\ <<w>> \in Seq(Work)
  BY AppendIsConcat, AppendProperties
<1>2. Pending' = Pending \o <<w>>
  BY <1>1, ConcatAssociative DEF Pending
<1>3. Pending' = Append(Pending, w)
  BY <1>2, PendingTyped, AppendIsConcat
<1>4. QED
  BY <1>1, <1>3, PendingTyped, AppendProperties DEF Grown

LEMMA PendingDrained ==
  ASSUME batch = <<>>, posted \in Seq(Work), batch' = posted, posted' = <<>>
  PROVE  Pending' = Pending /\ posted' \in Seq(Work)
<1>1. Pending = posted /\ Pending' = posted
  BY ConcatEmptySeq DEF Pending
<1>2. QED
  BY <1>1, EmptySeq

LEMMA PendingTaken ==
  ASSUME batch \in Seq(Work), posted \in Seq(Work), batch # <<>>, batch' = Tail(batch),
         posted' = posted
  PROVE  /\ Pending' \in Seq(Work) /\ batch' \in Seq(Work) /\ Shrunk(Pending', Pending)
         /\ Head(batch) = Pending[1] /\ Pending[1] \in Work
<1> DEFINE all  == Pending
           rest == Pending'
<1>1. /\ batch' \in Seq(Work) /\ Len(batch') = Len(batch) - 1 /\ Len(batch) \in Nat \ {0}
      /\ \A i \in 1 .. Len(batch') : batch'[i] = batch[i + 1]
  BY HeadTailProperties, EmptySeq
<1>2. /\ all \in Seq(Work) /\ Len(all) = Len(batch) + Len(posted)
      /\ \A i \in 1 .. Len(batch) + Len(posted) :
           all[i] = IF i <= Len(batch) THEN batch[i] ELSE posted[i - Len(batch)]
  BY ConcatProperties DEF Pending
<1>3. /\ rest \in Seq(Work) /\ Len(rest) = Len(batch') + Len(posted)
      /\ \A i \in 1 .. Len(batch') + Len(posted) :
           rest[i] = IF i <= Len(batch') THEN batch'[i] ELSE posted[i - Len(batch')]
  BY <1>1, ConcatProperties DEF Pending
<1> HIDE DEF all, rest
<1>4. Len(posted) \in Nat
  BY LenProperties
<1>5. ASSUME NEW i \in 1 .. Len(rest) PROVE rest[i] = all[i + 1]
  <2>1. i \in Nat /\ i + 1 \in 1 .. Len(batch) + Len(posted) /\ i \in 1 .. Len(batch') + Len(posted)
    BY <1>1, <1>3, <1>4
  <2>2. CASE i <= Len(batch')
    <3>1. i + 1 <= Len(batch) /\ i \in 1 .. Len(batch')
      BY <1>1, <2>1, <2>2
    <3>2. QED
      BY <1>1, <1>2, <1>3, <2>1, <2>2, <3>1
  <2>3. CASE ~ (i <= Len(batch'))
    <3>1. ~ (i + 1 <= Len(batch)) /\ (i + 1) - Len(batch) = i - Len(batch')
      BY <1>1, <2>1, <2>3
    <3>2. QED
      BY <1>2, <1>3, <2>1, <2>3, <3>1
  <2>4. QED
    BY <2>2, <2>3
<1>6. Shrunk(rest, all)
  BY <1>1, <1>2, <1>3, <1>4, <1>5 DEF Shrunk
<1>7. all[1] = batch[1] /\ all[1] \in Work
  BY <1>1, <1>2, <1>4, ElementOfSeq
<1>8. QED
  BY <1>1, <1>3, <1>6, <1>7 DEF all, rest

\* The numbers of a queue follow it.
LEMMA FrameNumbersTyped ==
  ASSUME NEW q \in Seq(Work)
  PROVE  /\ Len(FrameNumbers(q)) = Len(q) /\ Len(q) \in Nat
         /\ \A i \in 1 .. Len(q) :
              FrameNumbers(q)[i] = IF q[i].kind = "frame" THEN q[i].n ELSE 0
<1>1. Len(q) \in Nat
  BY LenProperties
<1>2. \A i \in 1 .. Len(q) : (IF q[i].kind = "frame" THEN q[i].n ELSE 0) \in Nat
  BY WorkTyped, ElementOfSeq
<1>3. FrameNumbers(q) \in [1 .. Len(q) -> Nat]
  BY <1>2 DEF FrameNumbers
<1>4. QED
  BY <1>1, <1>3 DEF FrameNumbers

LEMMA FrameNumbersGrow ==
  ASSUME NEW q \in Seq(Work), NEW t \in Seq(Work), NEW w \in Work, Grown(t, q, w)
  PROVE  Grown(FrameNumbers(t), FrameNumbers(q), IF w.kind = "frame" THEN w.n ELSE 0)
<1> DEFINE fq == FrameNumbers(q)
           ft == FrameNumbers(t)
<1>1. /\ Len(fq) = Len(q) /\ Len(q) \in Nat
      /\ \A i \in 1 .. Len(q) : fq[i] = IF q[i].kind = "frame" THEN q[i].n ELSE 0
  BY FrameNumbersTyped
<1>2. /\ Len(ft) = Len(t)
      /\ \A i \in 1 .. Len(t) : ft[i] = IF t[i].kind = "frame" THEN t[i].n ELSE 0
  BY FrameNumbersTyped
<1>3. Len(t) = Len(q) + 1 /\ t[Len(q) + 1] = w /\ \A i \in 1 .. Len(q) : t[i] = q[i]
  BY DEF Grown
<1> HIDE DEF fq, ft
<1>4. /\ \A i \in 1 .. Len(fq) : ft[i] = fq[i]
      /\ ft[Len(fq) + 1] = IF w.kind = "frame" THEN w.n ELSE 0
  BY <1>1, <1>2, <1>3
<1>5. QED
  BY <1>1, <1>2, <1>3, <1>4 DEF Grown, fq, ft

LEMMA FrameNumbersShrink ==
  ASSUME NEW q \in Seq(Work), NEW t \in Seq(Work), Shrunk(t, q)
  PROVE  /\ Shrunk(FrameNumbers(t), FrameNumbers(q))
         /\ FrameNumbers(q)[1] = IF q[1].kind = "frame" THEN q[1].n ELSE 0
<1> DEFINE fq == FrameNumbers(q)
           ft == FrameNumbers(t)
<1>1. /\ Len(fq) = Len(q) /\ Len(q) \in Nat
      /\ \A i \in 1 .. Len(q) : fq[i] = IF q[i].kind = "frame" THEN q[i].n ELSE 0
  BY FrameNumbersTyped
<1>2. /\ Len(ft) = Len(t)
      /\ \A i \in 1 .. Len(t) : ft[i] = IF t[i].kind = "frame" THEN t[i].n ELSE 0
  BY FrameNumbersTyped
<1>3. Len(q) > 0 /\ Len(t) = Len(q) - 1 /\ \A i \in 1 .. Len(t) : t[i] = q[i + 1]
  BY DEF Shrunk
<1> HIDE DEF fq, ft
<1>4. \A i \in 1 .. Len(ft) : ft[i] = fq[i + 1]
  <2>1. ASSUME NEW i \in 1 .. Len(t) PROVE ft[i] = fq[i + 1]
    <3>1. i + 1 \in 1 .. Len(q)
      BY <1>1, <1>3
    <3>2. QED
      BY <1>1, <1>2, <1>3, <3>1
  <2>2. QED
    BY <1>2, <2>1
<1>5. QED
  BY <1>1, <1>2, <1>3, <1>4 DEF Shrunk, fq, ft

LEMMA PartNumbersTyped ==
  ASSUME NEW q \in Seq(Parts)
  PROVE  /\ Len(PartNumbers(q)) = Len(q) /\ Len(q) \in Nat
         /\ \A i \in 1 .. Len(q) : PartNumbers(q)[i] =
              IF q[i].part = "rest" /\ q[i].charge # 0 THEN q[i].n ELSE 0
<1>1. Len(q) \in Nat
  BY LenProperties
<1>2. \A p \in Parts : (IF p.part = "rest" /\ p.charge # 0 THEN p.n ELSE 0) \in Nat
  BY ChargeAssumption DEF Parts
<1>3. PartNumbers(q) \in [1 .. Len(q) -> Nat]
  BY <1>2, ElementOfSeq DEF PartNumbers
<1>4. QED
  BY <1>1, <1>3 DEF PartNumbers

LEMMA PartNumbersGrow ==
  ASSUME NEW q \in Seq(Parts), NEW p \in Parts
  PROVE  /\ Append(q, p) \in Seq(Parts) /\ Grown(Append(q, p), q, p)
         /\ Grown(PartNumbers(Append(q, p)), PartNumbers(q),
                  IF p.part = "rest" /\ p.charge # 0 THEN p.n ELSE 0)
<1> DEFINE t  == Append(q, p)
           fq == PartNumbers(q)
           ft == PartNumbers(t)
<1>1. t \in Seq(Parts) /\ Grown(t, q, p)
  BY AppendProperties DEF Grown
<1> HIDE DEF t
<1>2. /\ Len(fq) = Len(q) /\ Len(q) \in Nat
      /\ \A i \in 1 .. Len(q) : fq[i] = IF q[i].part = "rest" /\ q[i].charge # 0 THEN q[i].n ELSE 0
  BY PartNumbersTyped
<1>3. /\ Len(ft) = Len(t)
      /\ \A i \in 1 .. Len(t) : ft[i] = IF t[i].part = "rest" /\ t[i].charge # 0 THEN t[i].n ELSE 0
  BY <1>1, PartNumbersTyped
<1>4. Len(t) = Len(q) + 1 /\ t[Len(q) + 1] = p /\ \A i \in 1 .. Len(q) : t[i] = q[i]
  BY <1>1 DEF Grown
<1> HIDE DEF fq, ft
<1>5. /\ \A i \in 1 .. Len(fq) : ft[i] = fq[i]
      /\ ft[Len(fq) + 1] = IF p.part = "rest" /\ p.charge # 0 THEN p.n ELSE 0
  BY <1>2, <1>3, <1>4
<1>6. QED
  BY <1>1, <1>2, <1>3, <1>4, <1>5 DEF Grown, fq, ft, t

LEMMA PartNumbersShrink ==
  ASSUME NEW q \in Seq(Parts), q # <<>>
  PROVE  /\ Tail(q) \in Seq(Parts) /\ Shrunk(Tail(q), q) /\ Head(q) = q[1] /\ q[1] \in Parts
         /\ Len(q) \in Nat
         /\ Shrunk(PartNumbers(Tail(q)), PartNumbers(q))
         /\ PartNumbers(q)[1] = IF q[1].part = "rest" /\ q[1].charge # 0 THEN q[1].n ELSE 0
<1> DEFINE t  == Tail(q)
           fq == PartNumbers(q)
           ft == PartNumbers(t)
<1>1. t \in Seq(Parts) /\ Shrunk(t, q)
  BY HeadTailProperties, EmptySeq DEF Shrunk
<1> HIDE DEF t
<1>2. /\ Len(fq) = Len(q) /\ Len(q) \in Nat
      /\ \A i \in 1 .. Len(q) : fq[i] = IF q[i].part = "rest" /\ q[i].charge # 0 THEN q[i].n ELSE 0
  BY PartNumbersTyped
<1>3. /\ Len(ft) = Len(t)
      /\ \A i \in 1 .. Len(t) : ft[i] = IF t[i].part = "rest" /\ t[i].charge # 0 THEN t[i].n ELSE 0
  BY <1>1, PartNumbersTyped
<1>4. Len(q) > 0 /\ Len(t) = Len(q) - 1 /\ \A i \in 1 .. Len(t) : t[i] = q[i + 1]
  BY <1>1 DEF Shrunk
<1> HIDE DEF fq, ft
<1>5. \A i \in 1 .. Len(ft) : ft[i] = fq[i + 1]
  <2>1. ASSUME NEW i \in 1 .. Len(t) PROVE ft[i] = fq[i + 1]
    <3>1. i + 1 \in 1 .. Len(q)
      BY <1>2, <1>4
    <3>2. QED
      BY <1>2, <1>3, <1>4, <3>1
  <2>2. QED
    BY <1>3, <2>1
<1>6. 1 \in 1 .. Len(q) /\ Head(q) = q[1]
  BY <1>2, <1>4
<1>7. Shrunk(ft, fq)
  BY <1>2, <1>3, <1>4, <1>5 DEF Shrunk
<1>8. QED
  BY <1>1, <1>2, <1>6, <1>7, ElementOfSeq DEF fq, ft, t

-----------------------------------------------------------------------------
(* The steps that leave the frames on their way in where they are           *)

LEMMA InInvInit ==
  ASSUME Init
  PROVE  InInv
<1>1. /\ owner = "up" /\ batch = <<>> /\ posted = <<>> /\ reader = "top" /\ hand = NoFrame
      /\ fromPeer = <<>> /\ peer = "running" /\ midway = FALSE /\ sent = <<>> /\ delivered = <<>>
      /\ reported = "none"
  BY DEF Init
<1>2. InTyped
  BY <1>1, EmptySeq DEF InTyped, NoFrame, Frames
<1>3. Len(sent) = 0 /\ Len(delivered) = 0 /\ Len(fromPeer) = 0
  BY <1>1, EmptySeq
<1>4. Pending = <<>> /\ Pending \in Seq(Work) /\ Len(Pending) = 0
  BY <1>1, EmptySeq, ConcatEmptySeq DEF Pending
<1>5. Numbering /\ Alternates /\ EndIsLast
  BY <1>1, <1>3, <1>4 DEF Numbering, Alternates, EndIsLast, Ended
<1>6. Len(FrameNumbers(Pending)) = 0 /\ Len(PartNumbers(fromPeer)) = 0
  BY <1>2, <1>3, <1>4, FrameNumbersTyped, PartNumbersTyped DEF InTyped
<1>7. Carries(FrameNumbers(Pending), 0, 0) /\ Carries(PartNumbers(fromPeer), 0, 0)
  BY <1>6, CarriesNone
<1>8. PostedTo(0)
  BY <1>1, <1>3, <1>7 DEF PostedTo
<1>9. QED
  BY <1>2, <1>5, <1>8 DEF InInv, NoneMissing

inVars == <<owner, batch, posted, reader, hand, fromPeer, peer, midway, sent, delivered, reported>>

LEMMA InInvUnchanged ==
  ASSUME InInv, UNCHANGED inVars
  PROVE  InInv'
<1> USE DEF inVars
<1>1. Pending' = Pending /\ UNCHANGED Alive
  BY DEF Pending, Alive
<1>2. InTyped' /\ Numbering' /\ Alternates'
  BY DEF InInv, InTyped, Numbering, Alternates
<1>3. NoneMissing'
  BY <1>1 DEF InInv, NoneMissing, PostedTo
<1>4. EndIsLast'
  BY <1>1 DEF InInv, EndIsLast, Ended
<1>5. QED
  BY <1>2, <1>3, <1>4 DEF InInv

\* The destructor: from its first step on nothing but the end of its threads matters.
LEMMA DestructionKeepsFrames ==
  ASSUME InInv, Destroy \/ Destructor
  PROVE  InInv'
<1>1. /\ owner' \in {"joinWriter", "closed", "joinReader", "joinStderr", "gone"}
      /\ reader' \in {reader, ReaderWoken}
      /\ UNCHANGED <<batch, posted, hand, fromPeer, peer, midway, sent, delivered, reported>>
  BY DEF Destroy, Destructor, CloseTransport, StopReader, JoinReader, JoinStderr, readerVars,
         peerVars, mainVars
<1>2. ~Alive'
  BY <1>1 DEF Alive
<1>3. InTyped' /\ Numbering' /\ Alternates'
  <2>1. reader' = reader \/ (reader = "parked" /\ reader' = "gate")
    BY <1>1 DEF ReaderWoken
  <2>2. InTyped'
    BY <1>1, <2>1 DEF InInv, InTyped
  <2>3. Numbering' /\ Alternates'
    BY <1>1, <2>1 DEF InInv, Numbering, Alternates
  <2>4. QED
    BY <2>2, <2>3
<1>4. QED
  BY <1>2, <1>3 DEF InInv, NoneMissing, EndIsLast

LEMMA DrainKeepsFrames ==
  ASSUME InInv, DrainPosted
  PROVE  InInv'
<1>1. /\ batch = <<>> /\ batch' = posted /\ posted' = <<>>
      /\ UNCHANGED <<owner, reader, hand, fromPeer, peer, midway, sent, delivered, reported>>
  BY DEF DrainPosted, readerVars, peerVars
<1>2. Pending' = Pending /\ posted' \in Seq(Work)
  BY <1>1, PendingDrained DEF InInv, InTyped
<1>3. UNCHANGED Alive
  BY <1>1 DEF Alive
<1>4. InTyped' /\ Numbering' /\ Alternates'
  BY <1>1, <1>2 DEF InInv, InTyped, Numbering, Alternates
<1>5. NoneMissing'
  BY <1>1, <1>2, <1>3 DEF InInv, NoneMissing, PostedTo
<1>6. EndIsLast'
  BY <1>1, <1>2, <1>3 DEF InInv, EndIsLast, Ended
<1>7. QED
  BY <1>4, <1>5, <1>6 DEF InInv

LEMMA ReaderChecksKeepFrames ==
  ASSUME InInv, ReaderChecksStop \/ ReaderChecksQueue
  PROVE  InInv'
<1>1. /\ reader \in {"top", "gate"} /\ reader' \in {"gate", "reading", "parked", "done"}
      /\ UNCHANGED <<owner, batch, posted, hand, fromPeer, peer, midway, sent, delivered, reported>>
  BY DEF ReaderChecksStop, ReaderChecksQueue, peerVars, mainVars
<1>2. Pending' = Pending /\ UNCHANGED Alive
  BY <1>1 DEF Pending, Alive
<1>3. InTyped' /\ Numbering' /\ Alternates'
  BY <1>1 DEF InInv, InTyped, Numbering, Alternates
<1>4. NoneMissing'
  BY <1>1, <1>2 DEF InInv, NoneMissing, PostedTo
<1>5. EndIsLast'
  BY <1>1, <1>2 DEF InInv, EndIsLast, Ended
<1>6. QED
  BY <1>3, <1>4, <1>5 DEF InInv

LEMMA PeerExitKeepsFrames ==
  ASSUME InInv, PeerExits
  PROVE  InInv'
<1>1. /\ peer' = "exited"
      /\ UNCHANGED <<owner, batch, posted, reader, hand, fromPeer, midway, sent, delivered, reported>>
  BY DEF PeerExits, readerVars, mainVars
<1>2. Pending' = Pending /\ UNCHANGED Alive
  BY <1>1 DEF Pending, Alive
<1>3. InTyped' /\ Numbering' /\ Alternates'
  BY <1>1 DEF InInv, InTyped, Numbering, Alternates
<1>4. NoneMissing'
  BY <1>1, <1>2 DEF InInv, NoneMissing, PostedTo
<1>5. EndIsLast'
  BY <1>1, <1>2 DEF InInv, EndIsLast, Ended
<1>6. QED
  BY <1>3, <1>4, <1>5 DEF InInv

-----------------------------------------------------------------------------
(* The steps that move a frame                                              *)

\* Work that is no frame, and comes before no end, changes nothing in the order.
LEMMA PostingOther ==
  ASSUME InInv, NEW w \in Work, w.kind # "frame", batch' = batch, posted' = Append(posted, w)
  PROVE  /\ posted' \in Seq(Work) /\ Pending' \in Seq(Work) /\ Grown(Pending', Pending, w)
         /\ Len(Pending) \in Nat
         /\ \A a, b : Carries(FrameNumbers(Pending), a, b) => Carries(FrameNumbers(Pending'), a, b)
<1>1. /\ Pending \in Seq(Work) /\ Pending' \in Seq(Work) /\ posted' \in Seq(Work)
      /\ Grown(Pending', Pending, w)
  BY PendingTyped, PendingPosted DEF InInv, InTyped
<1>2. Grown(FrameNumbers(Pending'), FrameNumbers(Pending), 0)
  BY <1>1, FrameNumbersGrow
<1>3. Len(FrameNumbers(Pending)) \in Nat /\ Len(Pending) \in Nat
  BY <1>1, FrameNumbersTyped
<1>4. ASSUME NEW a, NEW b, Carries(FrameNumbers(Pending), a, b)
      PROVE  Carries(FrameNumbers(Pending'), a, b)
  BY <1>2, <1>3, <1>4, CarriesMore
<1>5. QED
  BY <1>1, <1>3, <1>4

LEMMA StderrKeepsFrames ==
  ASSUME InInv, StderrReader
  PROVE  InInv'
<1>1. UNCHANGED <<owner, batch, reader, hand, fromPeer, peer, midway, sent, delivered, reported>>
  BY DEF StderrReader, ReadStderr, SplitLine, readerVars, peerVars, mainVars
<1>2. CASE UNCHANGED posted
  BY <1>1, <1>2, InInvUnchanged DEF inVars
<1>3. CASE posted' = Append(posted, LogWork)
  <2>1. LogWork \in Work /\ LogWork.kind = "log"
    BY WorkTyped
  <2>2. /\ posted' \in Seq(Work) /\ Grown(Pending', Pending, LogWork) /\ Len(Pending) \in Nat
        /\ \A a, b : Carries(FrameNumbers(Pending), a, b) => Carries(FrameNumbers(Pending'), a, b)
    BY <1>1, <1>3, <2>1, PostingOther
  <2>3. UNCHANGED Alive
    BY <1>1 DEF Alive
  <2>4. InTyped' /\ Numbering' /\ Alternates'
    <3>1. InTyped'
      BY <1>1, <2>2 DEF InInv, InTyped
    <3>2. Numbering' /\ Alternates'
      BY <1>1 DEF InInv, Numbering, Alternates
    <3>3. QED
      BY <3>1, <3>2
  <2>5. NoneMissing'
    BY <1>1, <2>2, <2>3 DEF InInv, NoneMissing, PostedTo
  <2>6. /\ \A i \in 1 .. Len(Pending) : Pending'[i] = Pending[i] /\ i \in 1 .. Len(Pending')
        /\ \A i \in 1 .. Len(Pending') : i \in 1 .. Len(Pending) \/ Pending'[i] = LogWork
    BY <2>2 DEF Grown
  <2>7. EndIsLast'
    <3>1. LogWork # EndWork("eof")
      BY <2>1, WorkTyped
    <3>2. QED
      BY <1>1, <2>1, <2>3, <2>6, <3>1 DEF InInv, EndIsLast, Ended
  <2>8. QED
    BY <2>4, <2>5, <2>7 DEF InInv
<1>4. QED
  BY <1>2, <1>3 DEF StderrReader, ReadStderr, SplitLine

\* The reader's end, with the rest of the pipe unread.
LEMMA ReaderEndsKeepsFrames ==
  ASSUME InInv, reader \notin {"posting", "done"}, NEW how \in {"eof", "error"}, ReaderEnds(how),
         UNCHANGED <<owner, batch, hand, peer, midway, sent, delivered, reported>>,
         fromPeer' \in Seq(Parts),
         Alive => \A a, b : Carries(PartNumbers(fromPeer), a, b) => Carries(PartNumbers(fromPeer'), a, b),
         \A i \in 1 .. Len(fromPeer') :
           fromPeer'[i] = Start => IF i < Len(fromPeer') THEN fromPeer'[i + 1].part = "rest" ELSE midway,
         Alive /\ how = "eof" => fromPeer' = <<>> /\ peer = "exited"
  PROVE  InInv'
<1>1. reader' = "done" /\ posted' = Append(posted, EndWork(how))
  BY DEF ReaderEnds
<1>2. EndWork(how) \in Work /\ EndWork(how).kind = "end" /\ EndWork(how).how = how
  BY WorkTyped
<1>3. /\ posted' \in Seq(Work) /\ Grown(Pending', Pending, EndWork(how)) /\ Len(Pending) \in Nat
      /\ \A a, b : Carries(FrameNumbers(Pending), a, b) => Carries(FrameNumbers(Pending'), a, b)
  BY <1>1, <1>2, PostingOther
<1>4. UNCHANGED Alive
  BY DEF Alive
<1>5. InTyped' /\ Numbering' /\ Alternates'
  BY <1>1, <1>3 DEF InInv, InTyped, Numbering, Alternates
<1>6. NoneMissing'
  BY <1>1, <1>3, <1>4 DEF InInv, NoneMissing, PostedTo
<1>7. /\ Len(Pending') = Len(Pending) + 1
      /\ \A i \in 1 .. Len(Pending) : Pending'[i] = Pending[i] /\ i \in 1 .. Len(Pending')
      /\ \A i \in 1 .. Len(Pending') : i \in 1 .. Len(Pending) \/ i = Len(Pending')
      /\ Pending'[Len(Pending')] = EndWork(how)
  BY <1>3 DEF Grown
<1>8. ASSUME Alive PROVE reported = "none" /\ \A i \in 1 .. Len(Pending) : Pending[i].kind # "end"
  BY <1>8 DEF InInv, EndIsLast, Ended
<1>9. EndIsLast'
  <2> SUFFICES ASSUME Alive PROVE EndIsLast'
    BY <1>4 DEF EndIsLast
  <2>1. \A i \in 1 .. Len(Pending') : Pending'[i].kind = "end" => i = Len(Pending')
    BY <1>7, <1>8
  <2>2. ASSUME NEW i \in 1 .. Len(Pending'), Pending'[i].kind = "end",
               NEW j \in 1 .. Len(Pending'), i < j
        PROVE  Pending'[j].kind = "log"
    BY <1>3, <1>7, <2>1, <2>2
  <2>3. ASSUME NEW i \in 1 .. Len(Pending'), Pending'[i] = EndWork("eof")
        PROVE  fromPeer' = <<>> /\ peer' = "exited"
    <3>1. EndWork("eof").kind = "end" /\ EndWork("eof").how = "eof"
      BY WorkTyped
    <3>2. i = Len(Pending')
      BY <2>1, <2>3, <3>1
    <3>3. how = "eof"
      BY <1>2, <1>7, <2>3, <3>1, <3>2
    <3>4. QED
      BY <3>3
  <2>4. QED
    BY <1>1, <1>8, <2>2, <2>3 DEF EndIsLast
<1>10. QED
  BY <1>5, <1>6, <1>9 DEF InInv

\* What is left of the pipe alternates as before.
LEMMA TailAlternates ==
  ASSUME InInv, fromPeer # <<>>
  PROVE  /\ Tail(fromPeer) \in Seq(Parts) /\ Shrunk(Tail(fromPeer), fromPeer)
         /\ Head(fromPeer) = fromPeer[1] /\ fromPeer[1] \in Parts /\ Len(fromPeer) \in Nat
         /\ \A i \in 1 .. Len(Tail(fromPeer)) :
              Tail(fromPeer)[i] = Start =>
                IF i < Len(Tail(fromPeer)) THEN Tail(fromPeer)[i + 1].part = "rest" ELSE midway
         /\ Shrunk(PartNumbers(Tail(fromPeer)), PartNumbers(fromPeer))
         /\ PartNumbers(fromPeer)[1] =
              IF fromPeer[1].part = "rest" /\ fromPeer[1].charge # 0 THEN fromPeer[1].n ELSE 0
         /\ Len(PartNumbers(fromPeer)) \in Nat
<1> DEFINE t == Tail(fromPeer)
<1>1. fromPeer \in Seq(Parts)
  BY DEF InInv, InTyped
<1>2. t \in Seq(Parts) /\ Shrunk(t, fromPeer) /\ Len(fromPeer) \in Nat
  BY <1>1, PartNumbersShrink
<1> HIDE DEF t
<1>3. ASSUME NEW i \in 1 .. Len(t), t[i] = Start
      PROVE  IF i < Len(t) THEN t[i + 1].part = "rest" ELSE midway
  <2>1. /\ Len(t) = Len(fromPeer) - 1 /\ t[i] = fromPeer[i + 1]
        /\ i + 1 \in 1 .. Len(fromPeer)
    BY <1>2 DEF Shrunk
  <2>2. IF i + 1 < Len(fromPeer) THEN fromPeer[i + 1 + 1].part = "rest" ELSE midway
    BY <1>3, <2>1 DEF InInv, Alternates
  <2>3. CASE i < Len(t)
    <3>1. i + 1 \in 1 .. Len(t) /\ i + 1 < Len(fromPeer)
      BY <1>2, <2>1, <2>3
    <3>2. t[i + 1] = fromPeer[i + 1 + 1]
      BY <1>2, <3>1 DEF Shrunk
    <3>3. QED
      BY <2>2, <2>3, <3>1, <3>2
  <2>4. CASE ~ (i < Len(t))
    BY <1>2, <2>1, <2>2, <2>4
  <2>5. QED
    BY <2>3, <2>4
<1>4. QED
  BY <1>1, <1>2, <1>3, PartNumbersShrink, PartNumbersTyped DEF t

LEMMA PartKinds ==
  /\ Start \in Parts /\ Start.part = "start" /\ Bad \in Parts /\ Bad.part = "bad" /\ Start # Bad
  /\ \A p \in Parts : /\ p.part = "start" => p = Start
                      /\ p.part = "bad" => p = Bad
                      /\ p.part \in {"start", "bad", "rest"}
                      /\ p.part = "rest" => p.n \in Nat /\ p.charge \in Nat
                      /\ p.part = "rest" /\ p.charge # 0 => p.n # 0 /\ p.charge \in Charges
  /\ \A n \in Nat \ {0}, c \in Charges :
       Rest(n, c) \in Parts /\ Rest(n, c).part = "rest" /\ Rest(n, c).n = n
         /\ Rest(n, c).charge = c /\ c # 0
  /\ Rest(0, 0) \in Parts /\ Rest(0, 0).part = "rest" /\ Rest(0, 0).charge = 0
<1>1. \A p : p \in [part : {"start", "bad"}] => p = [part |-> p.part]
  OBVIOUS
<1>2. QED
  BY <1>1, ChargeAssumption DEF Start, Bad, Parts, Rest

LEMMA ReadStartKeepsFrames ==
  ASSUME InInv, ReadStart
  PROVE  InInv'
<1>1. /\ reader = "reading"
      /\ UNCHANGED <<owner, batch, hand, peer, midway, sent, delivered, reported>>
  BY DEF ReadStart, peerVars, mainVars
<1>2. /\ fromPeer \in Seq(Parts)
      /\ \A i \in 1 .. Len(fromPeer) :
           fromPeer[i] = Start => IF i < Len(fromPeer) THEN fromPeer[i + 1].part = "rest" ELSE midway
  BY DEF InInv, InTyped, Alternates
<1>3. CASE ReaderEnds("eof") /\ UNCHANGED fromPeer /\ (Closed \/ (fromPeer = <<>> /\ peer = "exited"))
  <2>1. Alive => fromPeer' = <<>> /\ peer = "exited"
    BY <1>3 DEF Alive, Closed
  <2>2. QED
    BY <1>1, <1>2, <1>3, <2>1, ReaderEndsKeepsFrames
<1>4. CASE ReaderEnds("error") /\ fromPeer # <<>> /\ Head(fromPeer) = Bad /\ fromPeer' = Tail(fromPeer)
  <2>1. PartNumbers(fromPeer)[1] = 0
    BY <1>4, TailAlternates, PartKinds
  <2>2. \A a, b : Carries(PartNumbers(fromPeer), a, b) => Carries(PartNumbers(fromPeer'), a, b)
    BY <1>4, <2>1, TailAlternates, CarriesLess
  <2>3. QED
    BY <1>1, <1>4, <2>2, TailAlternates, ReaderEndsKeepsFrames
<1>5. CASE /\ fromPeer # <<>> /\ Head(fromPeer) = Start /\ fromPeer' = Tail(fromPeer)
           /\ reader' = "midframe" /\ UNCHANGED posted
  <2>1. PartNumbers(fromPeer)[1] = 0 /\ fromPeer[1] = Start
    BY <1>5, TailAlternates, PartKinds
  <2>2. \A a, b : Carries(PartNumbers(fromPeer), a, b) => Carries(PartNumbers(fromPeer'), a, b)
    BY <1>5, <2>1, TailAlternates, CarriesLess
  <2>3. Pending' = Pending /\ UNCHANGED Alive
    BY <1>1, <1>5 DEF Pending, Alive
  <2>4. InTyped' /\ Numbering'
    BY <1>1, <1>5, TailAlternates DEF InInv, InTyped, Numbering
  <2>5. Alternates'
    <3>1. Len(fromPeer) \in Nat /\ Len(fromPeer) > 0 /\ Len(fromPeer') = Len(fromPeer) - 1
          /\ \A i \in 1 .. Len(fromPeer') : fromPeer'[i] = fromPeer[i + 1]
      BY <1>5, TailAlternates DEF Shrunk
    <3>2. IF 1 < Len(fromPeer) THEN fromPeer[1 + 1].part = "rest" ELSE midway
      BY <1>2, <2>1, <3>1
    <3>3. IF fromPeer' = <<>> THEN midway ELSE fromPeer'[1].part = "rest"
      <4>1. CASE fromPeer' = <<>>
        <5>1. Len(fromPeer') = 0
          BY <4>1, EmptySeq
        <5>2. ~ (1 < Len(fromPeer))
          <6>1. Len(fromPeer) \in Nat /\ Len(fromPeer') = Len(fromPeer) - 1
            BY <3>1
          <6>2. QED
            BY <5>1, <6>1
        <5>3. midway
          BY <3>2, <5>2
        <5>4. QED
          BY <4>1, <5>3
      <4>2. CASE fromPeer' # <<>>
        <5>1. Len(fromPeer') > 0
          BY <4>2, <2>4, EmptySeq DEF InTyped
        <5>2. fromPeer'[1] = fromPeer[1 + 1] /\ 1 < Len(fromPeer)
          BY <3>1, <5>1
        <5>3. QED
          BY <3>2, <4>2, <5>2
      <4>3. QED
        BY <4>1, <4>2
    <3>4. QED
      BY <1>1, <1>5, <3>3, TailAlternates DEF Alternates
  <2>6. NoneMissing'
    BY <1>1, <1>5, <2>2, <2>3 DEF InInv, NoneMissing, PostedTo
  <2>7. EndIsLast'
    BY <1>1, <1>5, <2>3 DEF InInv, EndIsLast, Ended
  <2>8. QED
    BY <2>4, <2>5, <2>6, <2>7 DEF InInv
<1>6. QED
  BY <1>1, <1>3, <1>4, <1>5 DEF ReadStart

LEMMA ReadRestKeepsFrames ==
  ASSUME InInv, ReadRest
  PROVE  InInv'
<1>1. /\ reader = "midframe"
      /\ UNCHANGED <<owner, batch, peer, midway, sent, delivered, reported>>
  BY DEF ReadRest, peerVars, mainVars
<1>2. CASE ReaderEnds("error") /\ UNCHANGED <<fromPeer, hand>>
  BY <1>1, <1>2, ReaderEndsKeepsFrames DEF InInv, InTyped, Alternates
<1>3. CASE /\ fromPeer # <<>> /\ hand' = [n |-> Head(fromPeer).n, charge |-> Head(fromPeer).charge]
           /\ reader' = IF Head(fromPeer).charge = 0 THEN "top" ELSE "posting"
           /\ fromPeer' = Tail(fromPeer) /\ UNCHANGED posted
  <2> DEFINE f == fromPeer[1]
  <2>1. /\ f.part = "rest" /\ Head(fromPeer) = f /\ f.n \in Nat /\ f.charge \in Nat
        /\ hand' = [n |-> f.n, charge |-> f.charge] /\ hand' \in Frames
    BY <1>1, <1>3, TailAlternates, PartKinds DEF InInv, Alternates, Frames
  <2> HIDE DEF f
  <2>2. Pending' = Pending /\ UNCHANGED Alive
    BY <1>1, <1>3 DEF Pending, Alive
  <2>3. InTyped' /\ Numbering'
    <3>1. reader' = "posting" => hand'.n # 0
      BY <1>3, <2>1, TailAlternates, PartKinds DEF f
    <3>2. QED
      BY <1>1, <1>3, <2>1, <3>1, TailAlternates DEF InInv, InTyped, Numbering
  <2>4. Alternates'
    BY <1>1, <1>3, TailAlternates DEF Alternates
  <2>5. NoneMissing'
    <3> SUFFICES ASSUME Alive PROVE \E p \in Nat : PostedTo(p)'
      BY <2>2 DEF NoneMissing
    <3>1. PICK p \in Nat : PostedTo(p)
      BY DEF InInv, NoneMissing
    <3>2. /\ Carries(FrameNumbers(Pending), Len(delivered), p)
          /\ Carries(PartNumbers(fromPeer), p, Len(sent))
      BY <1>1, <3>1 DEF PostedTo
    <3>3. PartNumbers(fromPeer)[1] = IF f.charge # 0 THEN f.n ELSE 0
      BY <1>3, <2>1, TailAlternates DEF f
    <3>4. /\ Shrunk(PartNumbers(fromPeer'), PartNumbers(fromPeer))
          /\ Len(PartNumbers(fromPeer)) \in Nat
      BY <1>3, TailAlternates
    <3>5. CASE f.charge = 0
      <4>1. Carries(PartNumbers(fromPeer'), p, Len(sent))
        BY <3>2, <3>3, <3>4, <3>5, CarriesLess
      <4>2. reader' = "top"
        BY <1>3, <2>1, <3>5
      <4>3. PostedTo(p)'
        BY <1>1, <2>2, <3>2, <4>1, <4>2 DEF PostedTo
      <4>4. QED
        BY <4>3
    <3>6. CASE f.charge # 0
      <4>1. f.n # 0
        BY <1>3, <2>1, <3>6, TailAlternates, PartKinds DEF f
      <4>2. f.n = p + 1 /\ Carries(PartNumbers(fromPeer'), p + 1, Len(sent))
        BY <3>2, <3>3, <3>4, <3>6, <4>1, CarriesLess
      <4>3. reader' = "posting" /\ hand'.n = p + 1
        BY <1>3, <2>1, <3>6, <4>2
      <4>4. PostedTo(p)'
        BY <1>1, <2>2, <3>2, <4>2, <4>3 DEF PostedTo
      <4>5. QED
        BY <4>4
    <3>7. QED
      BY <3>5, <3>6
  <2>6. EndIsLast'
    BY <1>1, <1>3, <2>2 DEF InInv, EndIsLast, Ended
  <2>7. QED
    BY <2>3, <2>4, <2>5, <2>6 DEF InInv
<1>4. QED
  BY <1>1, <1>2, <1>3 DEF ReadRest

LEMMA PostFrameKeepsFrames ==
  ASSUME InInv, PostFrame
  PROVE  InInv'
<1> DEFINE w == FrameWork(hand)
<1>1. /\ reader = "posting" /\ reader' = "top" /\ posted' = Append(posted, w)
      /\ UNCHANGED <<owner, batch, hand, fromPeer, peer, midway, sent, delivered, reported>>
  BY DEF PostFrame, peerVars, mainVars
<1>2. w \in Work /\ w.kind = "frame" /\ w.n = hand.n
  BY <1>1, WorkTyped DEF InInv, InTyped
<1> HIDE DEF w
<1>3. /\ Pending \in Seq(Work) /\ Pending' \in Seq(Work) /\ posted' \in Seq(Work)
      /\ Grown(Pending', Pending, w) /\ Len(Pending) \in Nat
  BY <1>1, <1>2, PendingTyped, PendingPosted DEF InInv, InTyped
<1>4. /\ Grown(FrameNumbers(Pending'), FrameNumbers(Pending), hand.n)
      /\ Len(FrameNumbers(Pending)) \in Nat
  BY <1>2, <1>3, FrameNumbersGrow, FrameNumbersTyped
<1>5. UNCHANGED Alive
  BY <1>1 DEF Alive
<1>6. InTyped' /\ Numbering' /\ Alternates'
  BY <1>1, <1>3 DEF InInv, InTyped, Numbering, Alternates
<1>7. NoneMissing'
  <2> SUFFICES ASSUME Alive PROVE \E p \in Nat : PostedTo(p)'
    BY <1>5 DEF NoneMissing
  <2>1. PICK p \in Nat : PostedTo(p)
    BY DEF InInv, NoneMissing
  <2>2. /\ Carries(FrameNumbers(Pending), Len(delivered), p) /\ hand.n = p + 1
        /\ Carries(PartNumbers(fromPeer), p + 1, Len(sent))
    BY <1>1, <2>1 DEF PostedTo
  <2>3. Carries(FrameNumbers(Pending'), Len(delivered), p + 1)
    BY <1>4, <2>2, CarriesMore
  <2>4. PostedTo(p + 1)'
    BY <1>1, <2>2, <2>3 DEF PostedTo
  <2>5. QED
    BY <2>4
<1>8. EndIsLast'
  <2> SUFFICES ASSUME Alive PROVE EndIsLast'
    BY <1>5 DEF EndIsLast
  <2>1. ~Ended
    BY <1>1 DEF InInv, EndIsLast
  <2>2. reported' = "none" /\ \A i \in 1 .. Len(Pending') : Pending'[i].kind # "end"
    <3>1. reported = "none" /\ \A i \in 1 .. Len(Pending) : Pending[i].kind # "end"
      BY <2>1 DEF Ended
    <3>2. \A i \in 1 .. Len(Pending') :
            (i \in 1 .. Len(Pending) /\ Pending'[i] = Pending[i]) \/ Pending'[i] = w
      BY <1>3 DEF Grown
    <3>3. QED
      BY <1>1, <1>2, <3>1, <3>2
  <2>3. EndWork("eof").kind = "end"
    BY WorkTyped
  <2>4. QED
    BY <2>2, <2>3 DEF EndIsLast, Ended
<1>9. QED
  BY <1>6, <1>7, <1>8 DEF InInv

\* A frame is handled, or the end told: the first work of what is pending.
LEMMA RunKeepsFrames ==
  ASSUME InInv, RunPosted
  PROVE  /\ InInv'
         /\ \/ delivered' = delivered
            \/ /\ Alive /\ reported = "none" /\ UNCHANGED reported
               /\ Len(delivered) < Len(sent)
               /\ delivered' = Append(delivered, Len(delivered) + 1)
         /\ \/ reported' = reported
            \/ /\ Alive /\ reported = "none" /\ reported' \in {"eof", "error"}
               /\ UNCHANGED delivered
               /\ reported' = "eof" => Len(delivered) = Len(sent)
<1> DEFINE w == Pending[1]
<1>1. /\ batch # <<>> /\ batch' = Tail(batch) /\ reader' \in {reader, ReaderWoken}
      /\ UNCHANGED <<owner, posted, hand, fromPeer, peer, midway, sent>>
  BY DEF RunPosted, peerVars
<1>2. /\ Pending \in Seq(Work) /\ Pending' \in Seq(Work) /\ batch' \in Seq(Work)
      /\ Shrunk(Pending', Pending) /\ Head(batch) = w /\ w \in Work /\ Len(Pending) \in Nat
  BY <1>1, PendingTyped, PendingTaken DEF InInv, InTyped
<1>3. /\ Shrunk(FrameNumbers(Pending'), FrameNumbers(Pending))
      /\ FrameNumbers(Pending)[1] = (IF w.kind = "frame" THEN w.n ELSE 0)
      /\ Len(FrameNumbers(Pending)) \in Nat
  BY <1>2, FrameNumbersShrink, FrameNumbersTyped
<1>4. /\ delivered' = IF w.kind = "frame" /\ Runs(w) THEN Append(delivered, w.n) ELSE delivered
      /\ reported' = IF w.kind = "end" /\ Runs(w) THEN w.how ELSE reported
  BY <1>2 DEF RunPosted
<1> HIDE DEF w
<1>5. UNCHANGED Alive
  BY <1>1 DEF Alive
<1>6. /\ 1 \in 1 .. Len(Pending) /\ Len(Pending') = Len(Pending) - 1
      /\ \A i \in 1 .. Len(Pending') : Pending'[i] = Pending[i + 1] /\ i + 1 \in 1 .. Len(Pending)
                                       /\ 1 < i + 1
  BY <1>2 DEF Shrunk
<1>7. w.kind \in {"frame", "end", "log"} /\ (w.kind = "end" => w.how \in {"eof", "error"} /\ w = EndWork(w.how))
  BY <1>2, WorkTyped
<1>8. delivered \in Seq(Nat) /\ Len(delivered) \in Nat /\ Len(sent) \in Nat
  BY LenProperties DEF InInv, InTyped
<1>9. Alternates'
  BY <1>1 DEF InInv, Alternates, ReaderWoken
<1>10. CASE ~Alive
  <2>1. delivered' = delivered /\ reported' = reported
    BY <1>4, <1>7, <1>10 DEF Runs
  <2>2. InTyped' /\ Numbering'
    BY <1>1, <1>2, <2>1 DEF InInv, InTyped, Numbering, ReaderWoken
  <2>3. QED
    BY <1>5, <1>9, <1>10, <2>1, <2>2 DEF InInv, NoneMissing, EndIsLast
<1>11. CASE Alive
  <2>1. PICK p \in Nat : PostedTo(p)
    BY <1>11 DEF InInv, NoneMissing
  <2>2. /\ Carries(FrameNumbers(Pending), Len(delivered), p)
        /\ reader = "posting" => hand.n = p + 1
        /\ Carries(PartNumbers(fromPeer), IF reader = "posting" THEN p + 1 ELSE p, Len(sent))
    BY <2>1 DEF PostedTo
  <2>3. (reader' = "posting" <=> reader = "posting") /\ (reader' = "done" <=> reader = "done")
    BY <1>1 DEF ReaderWoken
  <2>4. p <= Len(sent)
    BY <1>8, <2>2 DEF Carries
  <2>5. EndIsLast
    BY DEF InInv
  <2>6. reported # "none" => w.kind = "log"
    BY <1>6, <1>11, <2>5 DEF EndIsLast, w
  <2>10. /\ reported # "none" => \A i \in 1 .. Len(Pending') : Pending'[i].kind = "log"
         /\ (\E i \in 1 .. Len(Pending') : Pending'[i].kind = "end") => reader = "done"
         /\ (\E i \in 1 .. Len(Pending') : Pending'[i] = EndWork("eof")) => fromPeer = <<>> /\ peer = "exited"
    BY <1>6, <1>11, <2>5 DEF EndIsLast, Ended
  <2>11. ASSUME NEW i \in 1 .. Len(Pending'), Pending'[i].kind = "end",
                NEW j \in 1 .. Len(Pending'), i < j
         PROVE  Pending'[j].kind = "log"
    <3>1. /\ Pending'[i] = Pending[i + 1] /\ i + 1 \in 1 .. Len(Pending)
          /\ Pending'[j] = Pending[j + 1] /\ j + 1 \in 1 .. Len(Pending) /\ i + 1 < j + 1
      BY <1>6, <2>11
    <3>2. QED
      BY <1>11, <2>5, <2>11, <3>1 DEF EndIsLast
  <2>12. (reported' = reported \/ reported' = "none") => EndIsLast'
    <3>1. reported # "none" => reader = "done" /\ (reported = "eof" => fromPeer = <<>> /\ peer = "exited")
      BY <1>11, <2>5 DEF EndIsLast, Ended
    <3>2. QED
      BY <1>1, <2>3, <2>10, <2>11, <3>1 DEF EndIsLast, Ended
  <2>7. CASE w.kind = "frame"
    <3>1. w.n # 0 /\ delivered' = Append(delivered, w.n) /\ reported' = reported /\ reported = "none"
      BY <1>2, <1>4, <1>11, <2>6, <2>7, WorkTyped DEF Runs
    <3>2. w.n = Len(delivered) + 1 /\ Len(delivered) < p
          /\ Carries(FrameNumbers(Pending'), Len(delivered) + 1, p)
      BY <1>3, <2>2, <2>7, <3>1, CarriesLess
    <3>3. /\ delivered' \in Seq(Nat) /\ Len(delivered') = Len(delivered) + 1
          /\ \A i \in 1 .. Len(delivered) : delivered'[i] = delivered[i]
          /\ delivered'[Len(delivered) + 1] = Len(delivered) + 1
      BY <1>8, <3>1, <3>2, AppendProperties
    <3>4. InTyped' /\ Numbering'
      BY <1>1, <1>2, <1>8, <3>1, <3>3 DEF InInv, InTyped, Numbering, ReaderWoken
    <3>5. PostedTo(p)'
      BY <1>1, <2>2, <2>3, <3>2, <3>3 DEF PostedTo
    <3>6. EndIsLast'
      BY <2>12, <3>1
    <3>7. QED
      BY <1>8, <1>9, <1>11, <2>4, <3>1, <3>2, <3>4, <3>5, <3>6 DEF InInv, NoneMissing
  <2>8. CASE w.kind # "frame"
    <3>1. delivered' = delivered
      BY <1>4, <2>8
    <3>2. Carries(FrameNumbers(Pending'), Len(delivered), p)
      BY <1>3, <2>2, <2>8, CarriesLess
    <3>3. PostedTo(p)'
      BY <1>1, <2>2, <2>3, <3>1, <3>2 DEF PostedTo
    <3>4. reported' \in {"none", "eof", "error"}
      BY <1>4, <1>7 DEF InInv, InTyped
    <3>5. InTyped' /\ Numbering'
      BY <1>1, <1>2, <3>1, <3>4 DEF InInv, InTyped, Numbering, ReaderWoken
    <3>6. CASE w.kind = "log"
      <4>1. reported' = reported
        BY <1>4, <3>6
      <4>2. EndIsLast'
        BY <2>12, <4>1
      <4>3. QED
        BY <1>9, <3>1, <3>3, <3>5, <4>1, <4>2 DEF InInv, NoneMissing
    <3>7. CASE w.kind = "end"
      <4>1. /\ reported' = w.how /\ reported = "none" /\ w = EndWork(w.how)
            /\ w.how \in {"eof", "error"}
        BY <1>4, <1>7, <1>11, <2>6, <3>7 DEF Runs
      <4>2. \A i \in 1 .. Len(Pending') : Pending'[i].kind = "log"
        BY <1>6, <1>11, <2>5, <3>7 DEF EndIsLast, w
      <4>3. Ended /\ reader = "done" /\ (w.how = "eof" => fromPeer = <<>> /\ peer = "exited")
        BY <1>6, <1>11, <2>5, <3>7, <4>1 DEF EndIsLast, Ended, w
      <4>4. EndIsLast'
        <5>1. EndWork("eof").kind = "end"
          BY WorkTyped
        <5>2. QED
          BY <1>1, <2>3, <4>1, <4>2, <4>3, <5>1 DEF EndIsLast, Ended
      <4>5. ASSUME w.how = "eof" PROVE Len(delivered) = Len(sent)
        <5>1. \A i \in 1 .. Len(Pending) : Pending[i].kind # "frame"
          BY <1>6, <1>11, <2>5, <3>7 DEF EndIsLast, w
        <5>2. /\ Len(FrameNumbers(Pending)) \in Nat
              /\ \A i \in 1 .. Len(FrameNumbers(Pending)) : FrameNumbers(Pending)[i] = 0
          BY <1>2, <5>1, FrameNumbersTyped
        <5>3. Len(delivered) = p
          BY <2>2, <5>2, CarriesNothing
        <5>4. Len(fromPeer) = 0 /\ fromPeer \in Seq(Parts)
          BY <4>3, <4>5, EmptySeq DEF InInv, InTyped
        <5>5. Len(PartNumbers(fromPeer)) = 0
          BY <5>4, PartNumbersTyped
        <5>6. Carries(PartNumbers(fromPeer), p, Len(sent))
          BY <2>2, <4>3
        <5>7. p = Len(sent)
          BY <5>5, <5>6, CarriesNothing
        <5>8. QED
          BY <5>3, <5>7
      <4>6. QED
        BY <1>9, <1>11, <3>1, <3>3, <3>5, <4>1, <4>4, <4>5 DEF InInv, NoneMissing
    <3>8. QED
      BY <1>7, <2>8, <3>6, <3>7
  <2>9. QED
    BY <2>7, <2>8
<1>12. QED
  BY <1>10, <1>11

\* The peer sends a part of a frame: its start, or the rest of one it has started.
LEMMA PartSent ==
  ASSUME InInv, NEW p \in Parts, fromPeer' = Append(fromPeer, p),
         p.part = "rest" <=> midway, p = Start => midway', reader' = reader
  PROVE  Alternates'
<1>1. /\ fromPeer \in Seq(Parts) /\ fromPeer' \in Seq(Parts) /\ Grown(fromPeer', fromPeer, p)
      /\ Len(fromPeer) \in Nat
  BY PartNumbersGrow, PartNumbersTyped DEF InInv, InTyped
<1>2. /\ Len(fromPeer') = Len(fromPeer) + 1 /\ fromPeer'[Len(fromPeer) + 1] = p
      /\ \A i \in 1 .. Len(fromPeer) : fromPeer'[i] = fromPeer[i]
  BY <1>1 DEF Grown
<1>3. /\ \A i \in 1 .. Len(fromPeer) :
           fromPeer[i] = Start => IF i < Len(fromPeer) THEN fromPeer[i + 1].part = "rest" ELSE midway
      /\ reader = "midframe" => IF fromPeer = <<>> THEN midway ELSE fromPeer[1].part = "rest"
  BY DEF InInv, Alternates
<1>4. ASSUME NEW i \in 1 .. Len(fromPeer'), fromPeer'[i] = Start
      PROVE  IF i < Len(fromPeer') THEN fromPeer'[i + 1].part = "rest" ELSE midway'
  <2>1. CASE i = Len(fromPeer) + 1
    BY <1>2, <1>4, <2>1
  <2>2. CASE i = Len(fromPeer)
    BY <1>1, <1>2, <1>3, <1>4, <2>2
  <2>3. CASE i < Len(fromPeer)
    <3>1. i \in 1 .. Len(fromPeer) /\ i + 1 \in 1 .. Len(fromPeer) /\ i < Len(fromPeer')
      BY <1>1, <1>2, <2>3
    <3>2. fromPeer'[i] = fromPeer[i] /\ fromPeer'[i + 1] = fromPeer[i + 1]
      BY <1>2, <3>1
    <3>3. QED
      BY <1>3, <1>4, <2>3, <3>1, <3>2
  <2>4. QED
    BY <1>1, <1>2, <2>1, <2>2, <2>3
<1>5. fromPeer' # <<>>
  BY <1>1, <1>2, EmptySeq
<1>6. ASSUME reader = "midframe" PROVE fromPeer'[1].part = "rest"
  <2>1. CASE fromPeer = <<>>
    <3>1. Len(fromPeer) = 0
      BY <2>1, EmptySeq
    <3>2. QED
      BY <1>2, <1>3, <1>6, <2>1, <3>1
  <2>2. CASE fromPeer # <<>>
    <3>1. 1 \in 1 .. Len(fromPeer)
      BY <1>1, <2>2, EmptySeq
    <3>2. QED
      BY <1>2, <1>3, <1>6, <2>2, <3>1
  <2>3. QED
    BY <2>1, <2>2
<1>7. QED
  BY <1>4, <1>5, <1>6 DEF Alternates

LEMMA PeerSendsKeepsFrames ==
  ASSUME InInv, PeerSends
  PROVE  InInv' /\ (sent' = sent \/ sent' = Append(sent, Len(sent) + 1))
<1>1. /\ peer = "running"
      /\ UNCHANGED <<owner, batch, posted, reader, hand, peer, delivered, reported>>
  BY DEF PeerSends, mainVars
<1>2. Pending' = Pending /\ UNCHANGED Alive /\ sent \in Seq(Nat) /\ Len(sent) \in Nat
  BY <1>1, LenProperties DEF Pending, Alive, InInv, InTyped
<1>3. EndIsLast'
  BY <1>1, <1>2 DEF InInv, EndIsLast, Ended
<1>4. fromPeer \in Seq(Parts) /\ Len(PartNumbers(fromPeer)) \in Nat
  BY PartNumbersTyped DEF InInv, InTyped
\* A part that is no whole frame.
<1>5. ASSUME NEW part \in {Start, Bad, Rest(0, 0)}, fromPeer' = Append(fromPeer, part),
             UNCHANGED sent
      PROVE  NoneMissing' /\ part \in Parts
  <2>1. part \in Parts /\ (part.part = "rest" => part.charge = 0)
    BY PartKinds
  <2>2. Grown(PartNumbers(fromPeer'), PartNumbers(fromPeer), 0)
    BY <1>4, <1>5, <2>1, PartNumbersGrow
  <2>3. \A a, b : Carries(PartNumbers(fromPeer), a, b) => Carries(PartNumbers(fromPeer'), a, b)
    BY <1>4, <2>2, CarriesMore
  <2>4. QED
    BY <1>1, <1>2, <1>5, <2>1, <2>3 DEF InInv, NoneMissing, PostedTo
<1>6. CASE /\ ~midway /\ midway' = TRUE /\ fromPeer' = Append(fromPeer, Start) /\ UNCHANGED sent
  <2>1. NoneMissing' /\ Start \in Parts /\ Start.part = "start"
    BY <1>5, <1>6, PartKinds
  <2>2. Alternates'
    BY <1>1, <1>6, <2>1, PartSent
  <2>3. InTyped' /\ Numbering'
    BY <1>1, <1>4, <1>6, <2>1, PartNumbersGrow DEF InInv, InTyped, Numbering
  <2>4. QED
    BY <1>3, <1>6, <2>1, <2>2, <2>3 DEF InInv
<1>7. CASE /\ ~midway /\ UNCHANGED midway /\ fromPeer' = Append(fromPeer, Bad) /\ UNCHANGED sent
  <2>1. NoneMissing' /\ Bad \in Parts /\ Bad.part = "bad" /\ Bad # Start
    BY <1>5, <1>7, PartKinds
  <2>2. Alternates'
    BY <1>1, <1>7, <2>1, PartSent
  <2>3. InTyped' /\ Numbering'
    BY <1>1, <1>4, <1>7, <2>1, PartNumbersGrow DEF InInv, InTyped, Numbering
  <2>4. QED
    BY <1>3, <1>7, <2>1, <2>2, <2>3 DEF InInv
<1>8. CASE /\ midway /\ midway' = FALSE /\ fromPeer' = Append(fromPeer, Rest(0, 0))
           /\ UNCHANGED sent
  <2>1. NoneMissing' /\ Rest(0, 0) \in Parts /\ Rest(0, 0).part = "rest" /\ Rest(0, 0) # Start
    BY <1>5, <1>8, PartKinds
  <2>2. Alternates'
    BY <1>1, <1>8, <2>1, PartSent
  <2>3. InTyped' /\ Numbering'
    BY <1>1, <1>4, <1>8, <2>1, PartNumbersGrow DEF InInv, InTyped, Numbering
  <2>4. QED
    BY <1>3, <1>8, <2>1, <2>2, <2>3 DEF InInv
<1>9. ASSUME NEW c \in Charges, midway, midway' = FALSE,
             fromPeer' = Append(fromPeer, Rest(Len(sent) + 1, c)),
             sent' = Append(sent, Len(sent) + 1)
      PROVE  InInv'
  <2> DEFINE part == Rest(Len(sent) + 1, c)
  <2>1. /\ part \in Parts /\ part.part = "rest" /\ part.n = Len(sent) + 1
        /\ part.charge # 0 /\ part # Start
    BY <1>2, PartKinds
  <2>2. /\ sent' \in Seq(Nat) /\ Len(sent') = Len(sent) + 1 /\ sent'[Len(sent) + 1] = Len(sent) + 1
        /\ \A i \in 1 .. Len(sent) : sent'[i] = sent[i]
    BY <1>2, <1>9, AppendProperties
  <2>3. fromPeer' = Append(fromPeer, part)
    BY <1>9
  <2> HIDE DEF part
  <2>4. Grown(PartNumbers(fromPeer'), PartNumbers(fromPeer), Len(sent) + 1)
    BY <1>4, <2>1, <2>3, PartNumbersGrow
  <2>5. \A a : Carries(PartNumbers(fromPeer), a, Len(sent))
                 => Carries(PartNumbers(fromPeer'), a, Len(sent'))
    BY <1>4, <2>2, <2>4, CarriesMore
  <2>6. NoneMissing'
    BY <1>1, <1>2, <2>5 DEF InInv, NoneMissing, PostedTo
  <2>7. Alternates'
    BY <1>1, <1>9, <2>1, <2>3, PartSent
  <2>8. fromPeer' \in Seq(Parts)
    BY <1>4, <2>1, <2>3, PartNumbersGrow
  <2>9. InTyped' /\ Numbering'
    <3>1. \A i \in 1 .. Len(sent') : sent'[i] = i
      <4>1. \A i \in 1 .. Len(sent') : i \in 1 .. Len(sent) \/ i = Len(sent) + 1
        BY <1>2, <2>2
      <4>2. \A i \in 1 .. Len(sent) : sent[i] = i
        BY DEF InInv, Numbering
      <4>3. QED
        BY <2>2, <4>1, <4>2
    <3>2. QED
      BY <1>1, <1>9, <2>2, <2>8, <3>1 DEF InInv, InTyped, Numbering
  <2>10. QED
    BY <1>3, <2>6, <2>7, <2>9 DEF InInv
<1>10. QED
  BY <1>6, <1>7, <1>8, <1>9 DEF PeerSends

\* The writer, and the owner's calls that reach only it.
LEMMA OthersKeepFrames ==
  ASSUME [Next]_vars
  PROVE  \/ UNCHANGED inVars
         \/ Destroy \/ Destructor \/ MainLoop \/ Reader \/ StderrReader \/ PeerSends \/ PeerExits
<1>1. CASE UNCHANGED vars
  BY <1>1 DEF vars, inVars, readerVars, peerVars, mainVars
<1>2. CASE \E fits \in BOOLEAN : SendFrame(fits)
  BY <1>2 DEF SendFrame, inVars, readerVars, peerVars, mainVars
<1>3. CASE PrepareForGracefulShutdown
  BY <1>3 DEF PrepareForGracefulShutdown, inVars, readerVars, peerVars, mainVars
<1>4. CASE Writer
  BY <1>4 DEF Writer, WriterChecks, WriterWrites, WriterFails, inVars, readerVars, peerVars, mainVars
<1>5. CASE PeerReads \/ PeerPrints
  BY <1>5 DEF PeerReads, PeerPrints, inVars, readerVars, peerVars, mainVars
<1>6. QED
  BY <1>1, <1>2, <1>3, <1>4, <1>5 DEF Next

LEMMA InInvInductive ==
  ASSUME InInv, [Next]_vars
  PROVE  InInv'
BY OthersKeepFrames, InInvUnchanged, DestructionKeepsFrames, DrainKeepsFrames, RunKeepsFrames,
   ReaderChecksKeepFrames, ReadStartKeepsFrames, ReadRestKeepsFrames, PostFrameKeepsFrames,
   StderrKeepsFrames, PeerSendsKeepsFrames, PeerExitKeepsFrames DEF MainLoop, Reader

-----------------------------------------------------------------------------
(* The incoming half is that channel too *)

told == <<sent, delivered, reported, owner>>

LEMMA InboundStep ==
  ASSUME InInv, [Next]_vars
  PROVE  [Inbound!Next]_Inbound!vars
<1>0. /\ sent \in Seq(Nat) /\ delivered \in Seq(Nat) /\ Len(sent) \in Nat /\ Len(delivered) \in Nat
      /\ \A i \in 1 .. Len(sent) : sent[i] = i
      /\ \A i \in 1 .. Len(delivered) : delivered[i] = i
      /\ reported \in {"none", "eof", "error"}
  BY LenProperties DEF InInv, InTyped, Numbering
<1>1. CASE UNCHANGED told
  BY <1>1 DEF told, Inbound!vars, Alive
<1>2. CASE PeerSends
  <2>1. UNCHANGED <<owner, delivered, reported>>
    BY <1>2 DEF PeerSends, mainVars
  <2>2. CASE sent' = sent
    BY <1>1, <2>1, <2>2 DEF told
  <2>3. CASE sent' = Append(sent, Len(sent) + 1)
    <3>1. Inbound!Send
      BY <2>1, <2>3 DEF Inbound!Send, Alive
    <3>2. QED
      BY <3>1 DEF Inbound!Next
  <2>4. QED
    BY <1>2, <2>2, <2>3, PeerSendsKeepsFrames
<1>3. CASE RunPosted
  <2>1. UNCHANGED <<owner, sent>>
    BY <1>3 DEF RunPosted, peerVars
  <2>2. CASE delivered' = delivered /\ reported' = reported
    BY <1>1, <2>1, <2>2 DEF told
  <2>3. CASE /\ Alive /\ reported = "none" /\ UNCHANGED reported /\ Len(delivered) < Len(sent)
             /\ delivered' = Append(delivered, Len(delivered) + 1)
    <3>1. sent[Len(delivered) + 1] = Len(delivered) + 1
      BY <1>0, <2>3
    <3>2. Inbound!Receive
      BY <2>1, <2>3, <3>1 DEF Inbound!Receive, Alive
    <3>3. QED
      BY <3>2 DEF Inbound!Next
  <2>4. CASE /\ Alive /\ reported = "none" /\ reported' \in {"eof", "error"} /\ UNCHANGED delivered
             /\ reported' = "eof" => Len(delivered) = Len(sent)
    <3>1. ASSUME Len(delivered) = Len(sent) PROVE delivered = sent
      <4>1. \A i \in 1 .. Len(delivered) : delivered[i] = sent[i]
        BY <1>0, <3>1
      <4>2. QED
        BY <1>0, <3>1, <4>1, SeqEqual
    <3>2. Inbound!End(reported')
      BY <2>1, <2>4, <3>1 DEF Inbound!End, Alive
    <3>3. QED
      BY <2>4, <3>2 DEF Inbound!Next
  <2>5. QED
    BY <1>3, <2>2, <2>3, <2>4, RunKeepsFrames
<1>4. CASE Destroy
  <2>1. Alive /\ ~Alive' /\ UNCHANGED <<sent, delivered, reported>>
    BY <1>4 DEF Destroy, Alive, peerVars, mainVars
  <2>2. CASE reported = "none"
    <3>1. Inbound!End("dropped")
      BY <2>1, <2>2 DEF Inbound!End
    <3>2. QED
      BY <3>1 DEF Inbound!Next
  <2>3. CASE reported # "none"
    BY <2>1, <2>3 DEF Inbound!vars
  <2>4. QED
    BY <2>2, <2>3
<1>5. CASE Destructor
  <2>1. ~Alive /\ ~Alive' /\ UNCHANGED <<sent, delivered, reported>>
    BY <1>5 DEF Destructor, CloseTransport, StopReader, JoinReader, JoinStderr, Alive, peerVars, mainVars
  <2>2. QED
    BY <2>1 DEF Inbound!vars
<1>6. CASE DrainPosted \/ Reader \/ StderrReader \/ PeerExits
  BY <1>1, <1>6 DEF DrainPosted, Reader, ReaderChecksStop, ReaderChecksQueue, ReadStart, ReadRest,
     PostFrame, StderrReader, ReadStderr, SplitLine, PeerExits, told, peerVars, mainVars
<1>7. CASE UNCHANGED inVars
  BY <1>1, <1>7 DEF told, inVars
<1>8. QED
  BY <1>2, <1>3, <1>4, <1>5, <1>6, <1>7, OthersKeepFrames DEF MainLoop

\* What the peer sends is handled once and in order, the end is told once and
\* last, a clean end only when nothing is missing, and nothing is told after the
\* owner is destroyed (StartReadLoop, LifetimeToken::Bind): the incoming half of
\* a connection implements FrameChannel.
THEOREM InboundIsAChannel == Spec => ImplementsInbound
<1>1. Init => InInv /\ Inbound!Init
  <2>1. Init => Inbound!Init
    BY DEF Init, Inbound!Init, Alive
  <2>2. QED
    BY <2>1, InInvInit
<1>2. InInv /\ [Next]_vars => InInv' /\ [Inbound!Next]_Inbound!vars
  BY InInvInductive, InboundStep
<1>3. QED
  BY <1>1, <1>2, PTL DEF Spec, ImplementsInbound, Inbound!Spec

-----------------------------------------------------------------------------
(* What the posted work adds up to                                          *)

Bytes == [w \in Work |-> IF w.kind = "frame" THEN w.charge ELSE 0]
Lines == [w \in Work |-> IF w.kind = "log" THEN 1 ELSE 0]

LEMMA SumsAreWeights ==
  /\ Bytes \in [Work -> Nat] /\ Lines \in [Work -> Nat]
  /\ \A q \in Seq(Work) : BytesIn(q) = Total(Weights(q, Bytes)) /\ LinesIn(q) = Total(Weights(q, Lines))
<1>1. Bytes \in [Work -> Nat] /\ Lines \in [Work -> Nat]
  BY WorkTyped DEF Bytes, Lines
<1>2. ASSUME NEW q \in Seq(Work)
      PROVE  /\ [i \in DOMAIN q |-> IF q[i].kind = "frame" THEN q[i].charge ELSE 0] = Weights(q, Bytes)
             /\ [i \in DOMAIN q |-> IF q[i].kind = "log" THEN 1 ELSE 0] = Weights(q, Lines)
  <2>1. DOMAIN q = 1 .. Len(q) /\ \A i \in 1 .. Len(q) : q[i] \in Work
    BY LenProperties, ElementOfSeq
  <2>2. /\ \A i \in 1 .. Len(q) : Bytes[q[i]] = IF q[i].kind = "frame" THEN q[i].charge ELSE 0
        /\ \A i \in 1 .. Len(q) : Lines[q[i]] = IF q[i].kind = "log" THEN 1 ELSE 0
    BY <2>1 DEF Bytes, Lines
  <2>3. QED
    BY <2>1, <2>2 DEF Weights
<1>3. QED
  BY <1>1, <1>2 DEF BytesIn, LinesIn

\* How the sums follow the queue.
LEMMA SumsTyped ==
  \A q \in Seq(Work) : BytesIn(q) \in Nat /\ LinesIn(q) \in Nat
<1>1. Bytes \in [Work -> Nat] /\ Lines \in [Work -> Nat]
  BY SumsAreWeights
<1>2. \A q \in Seq(Work) : Total(Weights(q, Bytes)) \in Nat
  BY <1>1, WeightsTyped
<1>3. \A q \in Seq(Work) : Total(Weights(q, Lines)) \in Nat
  BY <1>1, WeightsTyped
<1>4. QED
  BY <1>2, <1>3, SumsAreWeights

LEMMA SumsEmpty ==
  BytesIn(<<>>) = 0 /\ LinesIn(<<>>) = 0
BY SumsAreWeights, WeightsEmpty, EmptySeq

LEMMA SumsGrow ==
  ASSUME NEW q \in Seq(Work), NEW t \in Seq(Work), NEW w \in Work, Grown(t, q, w)
  PROVE  BytesIn(t) = BytesIn(q) + Bytes[w] /\ LinesIn(t) = LinesIn(q) + Lines[w]
<1>1. Bytes \in [Work -> Nat] /\ Lines \in [Work -> Nat]
  BY SumsAreWeights
<1>2. Total(Weights(t, Bytes)) = Total(Weights(q, Bytes)) + Bytes[w]
  BY <1>1, WeightsGrow
<1>3. Total(Weights(t, Lines)) = Total(Weights(q, Lines)) + Lines[w]
  BY <1>1, WeightsGrow
<1>4. QED
  BY <1>2, <1>3, SumsAreWeights

LEMMA SumsShrink ==
  ASSUME NEW q \in Seq(Work), NEW t \in Seq(Work), Shrunk(t, q)
  PROVE  BytesIn(q) = Bytes[q[1]] + BytesIn(t) /\ LinesIn(q) = Lines[q[1]] + LinesIn(t)
<1>1. Bytes \in [Work -> Nat] /\ Lines \in [Work -> Nat]
  BY SumsAreWeights
<1>2. Total(Weights(q, Bytes)) = Bytes[q[1]] + Total(Weights(t, Bytes))
  BY <1>1, WeightsShrink
<1>3. Total(Weights(q, Lines)) = Lines[q[1]] + Total(Weights(t, Lines))
  BY <1>1, WeightsShrink
<1>4. QED
  BY <1>2, <1>3, SumsAreWeights

\* What each step does to the posted work, and to the sums.
LEMMA WorkRun ==
  ASSUME InInv, RunPosted
  PROVE  /\ Head(batch) = Pending[1] /\ Pending[1] \in Work
         /\ BytesIn(Pending) = Bytes[Pending[1]] + BytesIn(Pending')
         /\ LinesIn(Pending) = Lines[Pending[1]] + LinesIn(Pending')
         /\ BytesIn(Pending') \in Nat /\ LinesIn(Pending') \in Nat
<1>1. batch # <<>> /\ batch' = Tail(batch) /\ posted' = posted
  BY DEF RunPosted
<1>2. /\ Pending \in Seq(Work) /\ Pending' \in Seq(Work) /\ Shrunk(Pending', Pending)
      /\ Head(batch) = Pending[1] /\ Pending[1] \in Work
  BY <1>1, PendingTyped, PendingTaken DEF InInv, InTyped
<1>3. QED
  BY <1>2, SumsShrink, SumsTyped

LEMMA WorkPosted ==
  ASSUME InInv, NEW w \in Work, posted' = Append(posted, w), batch' = batch
  PROVE  /\ BytesIn(Pending') = BytesIn(Pending) + Bytes[w]
         /\ LinesIn(Pending') = LinesIn(Pending) + Lines[w]
         /\ BytesIn(Pending) \in Nat /\ LinesIn(Pending) \in Nat
<1>1. Pending \in Seq(Work) /\ Pending' \in Seq(Work) /\ Grown(Pending', Pending, w)
  BY PendingTyped, PendingPosted DEF InInv, InTyped
<1>2. QED
  BY <1>1, SumsGrow, SumsTyped

LEMMA EndPosted ==
  ASSUME InInv, NEW how \in {"eof", "error"}, ReaderEnds(how), batch' = batch
  PROVE  BytesIn(Pending') = BytesIn(Pending) /\ LinesIn(Pending') = LinesIn(Pending)
<1>1. EndWork(how) \in Work /\ Bytes[EndWork(how)] = 0 /\ Lines[EndWork(how)] = 0
  BY WorkTyped DEF Bytes, Lines
<1>2. /\ BytesIn(Pending') = BytesIn(Pending) + 0 /\ LinesIn(Pending') = LinesIn(Pending) + 0
      /\ BytesIn(Pending) \in Nat /\ LinesIn(Pending) \in Nat
  BY <1>1, WorkPosted DEF ReaderEnds
<1>3. QED
  BY <1>2

LEMMA WorkDrained ==
  ASSUME InInv, DrainPosted
  PROVE  Pending' = Pending
<1>1. batch = <<>> /\ batch' = posted /\ posted' = <<>>
  BY DEF DrainPosted
<1>2. QED
  BY <1>1, PendingDrained DEF InInv, InTyped

\* The reader between two frames, and in one: it posts the end or nothing.
LEMMA ReadingPostsNoWork ==
  ASSUME InInv, ReadStart \/ ReadRest
  PROVE  BytesIn(Pending') = BytesIn(Pending) /\ LinesIn(Pending') = LinesIn(Pending)
<1>1. batch' = batch
  BY DEF ReadStart, ReadRest, mainVars
<1>2. posted' = posted \/ \E how \in {"eof", "error"} : ReaderEnds(how)
  BY DEF ReadStart, ReadRest
<1>3. CASE posted' = posted
  BY <1>1, <1>3 DEF Pending
<1>4. QED
  BY <1>1, <1>2, <1>3, EndPosted

-----------------------------------------------------------------------------
(* No line of stderr is lost                                                *)

Pieces == {"text", "newline"}

\* What is printed and not yet made into lines.
Unread == buffered \o errPipe

\* A newline printed next would end a line.
Midline(q) == q # <<>> /\ q[Len(q)] = "text"

LineInv ==
  /\ logged \in Nat /\ stderr \in {"reading", "splitting", "eof", "done"}
  /\ buffered \in Seq(Pieces) /\ errPipe \in Seq(Pieces) /\ printed \in Seq(Pieces)
  /\ NoLineLost
  /\ Midline(Unread) <=> Midline(printed)
  /\ stderr = "reading" => \A i \in 1 .. Len(buffered) : buffered[i] = "text"

LEMMA EndsTyped ==
  ASSUME NEW q \in Seq(Pieces)
  PROVE  /\ Ends(q) \in Seq(Nat) /\ Len(Ends(q)) = Len(q) /\ Len(q) \in Nat
         /\ \A i \in 1 .. Len(q) :
              Ends(q)[i] = IF q[i] = "newline" /\ i > 1 /\ q[i - 1] = "text" THEN 1 ELSE 0
         /\ LinesEnded(q) \in Nat
<1>1. Len(q) \in Nat
  BY LenProperties
<1>2. Ends(q) \in [1 .. Len(q) -> Nat]
  BY DEF Ends
<1>3. Ends(q) \in Seq(Nat) /\ Len(Ends(q)) = Len(q)
  BY <1>1, <1>2
<1>4. QED
  BY <1>1, <1>3, TotalNat DEF Ends, LinesEnded

LEMMA EmptyEndsNothing ==
  LinesEnded(<<>>) = 0 /\ ~Midline(<<>>)
BY EndsTyped, EmptySeq, TotalEmpty DEF LinesEnded, Midline

\* Text without a newline ends no line.
LEMMA TextEndsNothing ==
  ASSUME NEW q \in Seq(Pieces), \A i \in 1 .. Len(q) : q[i] = "text"
  PROVE  LinesEnded(q) = 0
<1>1. \A i \in 1 .. Len(Ends(q)) : Ends(q)[i] = 0
  BY EndsTyped
<1>2. QED
  BY <1>1, EndsTyped, TotalZero DEF LinesEnded

\* One piece more ends a line if it is a newline after text.
LEMMA PieceEnds ==
  ASSUME NEW q \in Seq(Pieces), NEW p \in Pieces
  PROVE  /\ Append(q, p) \in Seq(Pieces)
         /\ Midline(Append(q, p)) <=> p = "text"
         /\ LinesEnded(Append(q, p)) = LinesEnded(q) + (IF p = "newline" /\ Midline(q) THEN 1 ELSE 0)
<1> DEFINE t == Append(q, p)
           n == IF p = "newline" /\ Midline(q) THEN 1 ELSE 0
<1>1. /\ t \in Seq(Pieces) /\ t # <<>> /\ Len(t) = Len(q) + 1 /\ t[Len(q) + 1] = p
      /\ \A i \in 1 .. Len(q) : t[i] = q[i]
  BY AppendProperties
<1>2. Len(q) \in Nat /\ (q = <<>> <=> Len(q) = 0)
  BY LenProperties, EmptySeq
<1> HIDE DEF t
<1>3. Ends(t)[Len(q) + 1] = n
  <2>1. Ends(t)[Len(q) + 1] = IF p = "newline" /\ Len(q) + 1 > 1 /\ t[(Len(q) + 1) - 1] = "text" THEN 1 ELSE 0
    <3>1. \A i \in 1 .. Len(t) : Ends(t)[i] = IF t[i] = "newline" /\ i > 1 /\ t[i - 1] = "text" THEN 1 ELSE 0
      BY <1>1, EndsTyped
    <3>2. Len(q) + 1 \in 1 .. Len(t)
      BY <1>1, <1>2
    <3>3. QED
      BY <1>1, <3>1, <3>2
  <2>2. Len(q) + 1 > 1 /\ t[(Len(q) + 1) - 1] = "text" <=> Midline(q)
    BY <1>1, <1>2 DEF Midline
  <2>3. QED
    BY <2>1, <2>2
<1>4. ASSUME NEW i \in 1 .. Len(q) PROVE Ends(t)[i] = Ends(q)[i]
  <2>1. t[i] = q[i] /\ (i > 1 => t[i - 1] = q[i - 1]) /\ i \in 1 .. Len(t)
    BY <1>1, <1>2
  <2>2. QED
    BY <1>1, <2>1, EndsTyped
<1>5. Grown(Ends(t), Ends(q), n)
  BY <1>1, <1>3, <1>4, EndsTyped DEF Grown
<1>6. LinesEnded(t) = LinesEnded(q) + n
  BY <1>5, EndsTyped, TotalGrows DEF LinesEnded
<1>7. Midline(t) <=> p = "text"
  BY <1>1 DEF Midline
<1>8. QED
  BY <1>1, <1>6, <1>7 DEF t

\* The text up to the first newline is taken off the front: a line, if there is any.
LEMMA LineTaken ==
  ASSUME NEW q \in Seq(Pieces), NEW t \in Seq(Pieces), NEW m \in 1 .. Len(q),
         q[m] = "newline", \A i \in 1 .. m - 1 : q[i] = "text",
         Len(t) = Len(q) - m, \A i \in 1 .. Len(t) : t[i] = q[i + m]
  PROVE  /\ LinesEnded(q) = (IF m = 1 THEN 0 ELSE 1) + LinesEnded(t)
         /\ Midline(t) <=> Midline(q)
<1> DEFINE n == IF m = 1 THEN 0 ELSE 1
           z == [i \in 1 .. m - 1 |-> 0]
           u == [i \in 1 .. m |-> IF i = m THEN n ELSE 0]
<1>0. \A i \in 1 .. Len(q) : Ends(q)[i] = IF q[i] = "newline" /\ i > 1 /\ q[i - 1] = "text" THEN 1 ELSE 0
  BY EndsTyped
<1>1. m \in Nat \ {0} /\ Len(q) \in Nat /\ m <= Len(q) /\ Len(t) \in Nat
  BY EndsTyped
<1>2. z \in Seq(Nat) /\ Len(z) = m - 1 /\ \A i \in 1 .. m - 1 : z[i] = 0
  BY <1>1
<1>3. u \in Seq(Nat) /\ Len(u) = m /\ \A i \in 1 .. m : u[i] = IF i = m THEN n ELSE 0
  BY <1>1
<1>4. n \in Nat
  OBVIOUS
<1> HIDE DEF z, u
<1>5. Total(z) = 0
  BY <1>1, <1>2, TotalZero
<1>6. Total(u) = n
  <2>1. Grown(u, z, n)
    BY <1>1, <1>2, <1>3 DEF Grown
  <2> HIDE DEF n
  <2>2. Total(u) = Total(z) + n
    BY <1>2, <1>4, <2>1, TotalGrows
  <2>3. QED
    BY <1>4, <1>5, <2>2
<1>7. ASSUME NEW i \in 1 .. m PROVE Ends(q)[i] = u[i]
  <2>1. Ends(q)[i] = IF q[i] = "newline" /\ i > 1 /\ q[i - 1] = "text" THEN 1 ELSE 0
    BY <1>0, <1>1
  <2>2. CASE i = m
    BY <1>1, <1>3, <2>1, <2>2
  <2>3. CASE i # m
    BY <1>1, <1>3, <2>1, <2>3
  <2>4. QED
    BY <2>2, <2>3
<1>8. ASSUME NEW i \in 1 .. Len(t) PROVE Ends(q)[m + i] = Ends(t)[i]
  <2>1. Ends(t)[i] = IF t[i] = "newline" /\ i > 1 /\ t[i - 1] = "text" THEN 1 ELSE 0
    BY EndsTyped
  <2>2. /\ m + i \in 1 .. Len(q) /\ m + i > 1
        /\ Ends(q)[m + i] = IF q[m + i] = "newline" /\ q[(m + i) - 1] = "text" THEN 1 ELSE 0
    <3>1. m + i \in 1 .. Len(q) /\ m + i > 1
      BY <1>1
    <3>2. QED
      BY <1>0, <3>1
  <2>3. t[i] = q[m + i]
    BY <1>1
  <2>4. CASE i = 1
    <3>1. q[(m + i) - 1] = "newline"
      BY <1>1, <2>4
    <3>2. QED
      BY <2>1, <2>2, <2>4, <3>1
  <2>5. CASE i # 1
    <3>1. i > 1 /\ i - 1 \in 1 .. Len(t) /\ (i - 1) + m = (m + i) - 1
      BY <1>1, <2>5
    <3>2. t[i - 1] = q[(m + i) - 1]
      BY <3>1
    <3>3. QED
      BY <2>1, <2>2, <2>3, <3>1, <3>2
  <2>6. QED
    BY <2>4, <2>5
<1>9. Joined(Ends(q), u, Ends(t))
  BY <1>1, <1>3, <1>7, <1>8, EndsTyped DEF Joined
<1>10. Total(Ends(q)) = Total(u) + Total(Ends(t))
  BY <1>3, <1>9, EndsTyped, TotalJoins
<1>11. LinesEnded(q) = n + LinesEnded(t)
  BY <1>6, <1>10 DEF LinesEnded
<1>12. Midline(t) <=> Midline(q)
  <2>1. /\ t = <<>> <=> Len(t) = 0
        /\ q # <<>>
    BY <1>1, EmptySeq
  <2>2. CASE Len(t) = 0
    BY <1>1, <2>1, <2>2 DEF Midline
  <2>3. CASE Len(t) # 0
    <3>1. t[Len(t)] = q[Len(q)]
      BY <1>1, <2>3
    <3>2. QED
      BY <2>1, <2>3, <3>1 DEF Midline
  <2>4. QED
    BY <2>2, <2>3
<1>13. QED
  BY <1>11, <1>12 DEF n

\* A step that changes neither the lines on their way nor what is printed.
LEMMA LineInvUnchanged ==
  ASSUME LineInv, LinesIn(Pending') = LinesIn(Pending),
         UNCHANGED <<logged, stderr, buffered, errPipe, printed>>
  PROVE  LineInv'
<1>1. Unread' = Unread /\ LinesEnded(printed)' = LinesEnded(printed)
      /\ LinesEnded(buffered \o errPipe)' = LinesEnded(buffered \o errPipe)
      /\ Midline(Unread)' = Midline(Unread) /\ Midline(printed)' = Midline(printed)
  BY DEF Unread, LinesEnded, Ends, Midline
<1>2. NoLineLost'
  BY <1>1 DEF LineInv, NoLineLost
<1>3. QED
  BY <1>1, <1>2 DEF LineInv

LEMMA ReadStderrKeepsLines ==
  ASSUME InInv, LineInv, ReadStderr
  PROVE  LineInv'
<1>1. UNCHANGED <<batch, posted, logged, printed>> /\ Pending' = Pending
  BY DEF ReadStderr, mainVars, Pending
<1>2. CASE /\ errPipe # <<>> /\ stderr' = "splitting"
           /\ \E k \in 1 .. Len(errPipe) :
                /\ buffered' = buffered \o SubSeq(errPipe, 1, k)
                /\ errPipe'  = SubSeq(errPipe, k + 1, Len(errPipe))
  <2>1. PICK k \in 1 .. Len(errPipe) : /\ buffered' = buffered \o SubSeq(errPipe, 1, k)
                                       /\ errPipe'  = SubSeq(errPipe, k + 1, Len(errPipe))
    BY <1>2
  <2> DEFINE a == SubSeq(errPipe, 1, k)
             b == SubSeq(errPipe, k + 1, Len(errPipe))
  <2>2. Len(errPipe) \in Nat /\ errPipe \in Seq(Pieces) /\ buffered \in Seq(Pieces)
    BY LenProperties DEF LineInv
  <2>3. a \o b = errPipe
    BY <2>2, ConcatAdjacentSubSeq, SubSeqFull
  <2>4. a \in Seq(Pieces) /\ b \in Seq(Pieces)
    <3>1. \A i \in 1 .. Len(errPipe) : errPipe[i] \in Pieces
      BY <2>2, ElementOfSeq
    <3>2. /\ \A i \in 1 .. k : errPipe[i] \in Pieces
          /\ \A i \in k + 1 .. Len(errPipe) : errPipe[i] \in Pieces
      BY <2>2, <3>1
    <3>3. QED
      BY <2>2, <3>2, SubSeqProperties
  <2> HIDE DEF a, b
  <2>5. buffered' = buffered \o a /\ errPipe' = b
    BY <2>1 DEF a, b
  <2>6. buffered' \in Seq(Pieces) /\ errPipe' \in Seq(Pieces) /\ (buffered \o a) \o b = buffered \o (a \o b)
    <3>1. buffered \o a \in Seq(Pieces)
      BY <2>2, <2>4, ConcatProperties
    <3>2. (buffered \o a) \o b = buffered \o (a \o b)
      <4>1. \A x, y, z \in Seq(Pieces) : (x \o y) \o z = x \o (y \o z)
        BY ConcatAssociative
      <4>2. QED
        BY <2>2, <2>4, <4>1
    <3>3. QED
      BY <2>4, <2>5, <3>1, <3>2
  <2>7. (buffered \o errPipe)' = buffered \o errPipe
    BY <2>3, <2>5, <2>6
  <2>8. NoLineLost'
    BY <1>1, <1>2, <2>7 DEF LineInv, NoLineLost, LinesEnded, Ends, LinesIn
  <2>9. QED
    BY <1>1, <1>2, <2>6, <2>7, <2>8 DEF LineInv, Unread, Midline
<1>3. CASE UNCHANGED <<buffered, errPipe>> /\ stderr' = "eof" /\ errPipe = <<>> /\ stderr = "reading"
  <2>1. buffered \o errPipe = buffered /\ LinesEnded(buffered) = 0
    BY <1>3, TextEndsNothing, ConcatEmptySeq DEF LineInv
  <2>2. logged + LinesIn(Pending) = LinesEnded(printed)
    <3>1. logged + LinesIn(Pending) + 0 = LinesEnded(printed)
      BY <2>1 DEF LineInv, NoLineLost
    <3>2. LinesIn(Pending) \in Nat /\ logged \in Nat
      BY PendingTyped, SumsTyped DEF InInv, InTyped, LineInv
    <3>3. QED
      BY <3>1, <3>2
  <2>3. NoLineLost'
    BY <1>1, <1>3, <2>2 DEF LineInv, NoLineLost, LinesEnded, Ends, LinesIn
  <2>4. QED
    BY <1>1, <1>3, <2>3 DEF LineInv, Unread, Midline
<1>4. CASE UNCHANGED <<buffered, errPipe>> /\ stderr' = "done"
  <2>1. NoLineLost'
    BY <1>1, <1>4 DEF LineInv, NoLineLost, LinesEnded, Ends, LinesIn
  <2>2. QED
    BY <1>1, <1>4, <2>1 DEF LineInv, Unread, Midline
<1>5. QED
  BY <1>2, <1>3, <1>4 DEF ReadStderr

LEMMA SplitLineKeepsLines ==
  ASSUME InInv, LineInv, SplitLine
  PROVE  LineInv'
<1>1. UNCHANGED <<batch, logged, errPipe, printed>> /\ stderr = "splitting"
  BY DEF SplitLine, mainVars
<1>2. CASE /\ \A i \in 1 .. Len(buffered) : buffered[i] = "text"
           /\ stderr' = "reading" /\ UNCHANGED <<buffered, posted>>
  <2>1. NoLineLost'
    BY <1>1, <1>2 DEF LineInv, NoLineLost, LinesEnded, Ends, LinesIn, Pending
  <2>2. QED
    BY <1>1, <1>2, <2>1 DEF LineInv, Unread, Midline
<1>3. ASSUME NEW m \in 1 .. Len(buffered), buffered[m] = "newline",
             \A i \in 1 .. m - 1 : buffered[i] = "text",
             buffered' = SubSeq(buffered, m + 1, Len(buffered)),
             posted' = IF m = 1 THEN posted ELSE Append(posted, LogWork), stderr' = stderr
      PROVE  LineInv'
  <2> DEFINE q == buffered \o errPipe
             t == buffered' \o errPipe'
             n == IF m = 1 THEN 0 ELSE 1
  <2>1. buffered \in Seq(Pieces) /\ errPipe \in Seq(Pieces) /\ Len(buffered) \in Nat /\ Len(errPipe) \in Nat
    BY LenProperties DEF LineInv
  <2>2. /\ buffered' \in Seq(Pieces) /\ Len(buffered') = Len(buffered) - m
        /\ \A i \in 1 .. Len(buffered) - m : buffered'[i] = buffered[i + m]
    <3>1. \A i \in m + 1 .. Len(buffered) : buffered[i] \in Pieces
      BY <2>1, ElementOfSeq
    <3>2. /\ buffered' \in Seq(Pieces)
          /\ Len(buffered') = IF m + 1 <= Len(buffered) THEN Len(buffered) - (m + 1) + 1 ELSE 0
          /\ \A i \in 1 .. Len(buffered) - (m + 1) + 1 : buffered'[i] = buffered[(m + 1) + i - 1]
      BY <1>3, <2>1, <3>1, SubSeqProperties
    <3>3. Len(buffered) - (m + 1) + 1 = Len(buffered) - m /\ \A i \in Int : (m + 1) + i - 1 = i + m
      BY <2>1
    <3>4. Len(buffered') = Len(buffered) - m
      BY <2>1, <3>2
    <3>5. ASSUME NEW i \in 1 .. Len(buffered) - m PROVE buffered'[i] = buffered[i + m]
      <4>1. i \in 1 .. Len(buffered) - (m + 1) + 1 /\ i \in Int
        BY <3>3
      <4>2. buffered'[i] = buffered[(m + 1) + i - 1]
        BY <3>2, <4>1
      <4>3. QED
        BY <3>3, <4>1, <4>2
    <3>6. QED
      BY <3>2, <3>4, <3>5
  <2>3. /\ q \in Seq(Pieces) /\ Len(q) = Len(buffered) + Len(errPipe)
        /\ \A i \in 1 .. Len(buffered) + Len(errPipe) :
             q[i] = IF i <= Len(buffered) THEN buffered[i] ELSE errPipe[i - Len(buffered)]
    BY <2>1, ConcatProperties
  <2>4. /\ t \in Seq(Pieces) /\ Len(t) = Len(buffered') + Len(errPipe)
        /\ \A i \in 1 .. Len(buffered') + Len(errPipe) :
             t[i] = IF i <= Len(buffered') THEN buffered'[i] ELSE errPipe[i - Len(buffered')]
    BY <1>1, <2>1, <2>2, ConcatProperties
  <2> HIDE DEF q, t
  <2>5. /\ m \in 1 .. Len(q) /\ q[m] = "newline" /\ \A i \in 1 .. m - 1 : q[i] = "text"
        /\ Len(t) = Len(q) - m
    <3>1. m \in 1 .. Len(buffered) + Len(errPipe) /\ m <= Len(buffered) /\ m \in 1 .. Len(q)
      BY <2>1, <2>3
    <3>2. q[m] = "newline"
      BY <1>3, <2>3, <3>1
    <3>3. ASSUME NEW i \in 1 .. m - 1 PROVE q[i] = "text"
      <4>1. i \in 1 .. Len(buffered) + Len(errPipe) /\ i <= Len(buffered)
        BY <2>1
      <4>2. QED
        BY <1>3, <2>3, <4>1
    <3>4. Len(t) = Len(q) - m
      BY <2>1, <2>2, <2>3, <2>4
    <3>5. QED
      BY <3>1, <3>2, <3>3, <3>4
  <2>6. ASSUME NEW i \in 1 .. Len(t) PROVE t[i] = q[i + m]
    <3>1. i + m \in 1 .. Len(buffered) + Len(errPipe) /\ i \in 1 .. Len(buffered') + Len(errPipe)
      BY <2>1, <2>2, <2>3, <2>4, <2>5
    <3>2. CASE i <= Len(buffered')
      <4>1. i + m <= Len(buffered) /\ i \in 1 .. Len(buffered) - m
        BY <2>1, <2>2, <3>1, <3>2
      <4>2. QED
        BY <2>2, <2>3, <2>4, <3>1, <3>2, <4>1
    <3>3. CASE ~ (i <= Len(buffered'))
      <4>1. ~ (i + m <= Len(buffered)) /\ (i + m) - Len(buffered) = i - Len(buffered')
        BY <2>1, <2>2, <3>1, <3>3
      <4>2. QED
        BY <2>3, <2>4, <3>1, <3>3, <4>1
    <3>4. QED
      BY <3>2, <3>3
  <2>7. LinesEnded(q) = n + LinesEnded(t) /\ (Midline(t) <=> Midline(q))
    BY <2>3, <2>4, <2>5, <2>6, LineTaken
  <2>8. LinesIn(Pending') = LinesIn(Pending) + n /\ LinesIn(Pending) \in Nat
    <3>1. LogWork \in Work /\ Lines[LogWork] = 1
      BY WorkTyped DEF Lines
    <3>2. LinesIn(Pending) \in Nat
      BY PendingTyped, SumsTyped DEF InInv, InTyped
    <3>3. CASE m = 1
      <4>1. Pending' = Pending
        BY <1>1, <1>3, <3>3 DEF Pending
      <4>2. QED
        BY <3>2, <3>3, <4>1 DEF LinesIn
    <3>4. CASE m # 1
      BY <1>1, <1>3, <3>1, <3>4, WorkPosted
    <3>5. QED
      BY <3>2, <3>3, <3>4
  <2>9. logged \in Nat /\ LinesEnded(t) \in Nat /\ n \in Nat
    BY <2>4, EndsTyped DEF LineInv
  <2>10. logged + LinesIn(Pending) + LinesEnded(q) = LinesEnded(printed)
    BY DEF LineInv, NoLineLost, q
  <2> HIDE DEF n
  <2>11. logged + LinesIn(Pending') + LinesEnded(t) = LinesEnded(printed)
    BY <2>7, <2>8, <2>9, <2>10
  <2>12. NoLineLost'
    BY <1>1, <1>3, <2>11 DEF NoLineLost, t
  <2>13. Midline(Unread)' <=> Midline(printed)'
    BY <1>1, <2>7 DEF LineInv, Unread, q, t
  <2>14. QED
    BY <1>1, <1>3, <2>1, <2>2, <2>12, <2>13 DEF LineInv
<1>4. QED
  BY <1>2, <1>3 DEF SplitLine

LEMMA PeerPrintsKeepsLines ==
  ASSUME InInv, LineInv, PeerPrints
  PROVE  LineInv'
<1>1. PICK p \in Pieces : errPipe' = Append(errPipe, p) /\ printed' = Append(printed, p)
  BY DEF PeerPrints, Pieces
<1>2. /\ UNCHANGED <<batch, posted, logged, stderr, buffered>> /\ Pending' = Pending
      /\ stderr # "eof"
  BY DEF PeerPrints, mainVars, Pending
<1> DEFINE q == buffered \o errPipe
           n == IF p = "newline" /\ Midline(printed) THEN 1 ELSE 0
<1>3. buffered \in Seq(Pieces) /\ errPipe \in Seq(Pieces) /\ printed \in Seq(Pieces) /\ q \in Seq(Pieces)
  BY ConcatProperties DEF LineInv
<1>4. buffered \o Append(errPipe, p) = Append(q, p)
  <2>1. <<p>> \in Seq(Pieces)
    OBVIOUS
  <2>2. buffered \o (errPipe \o <<p>>) = q \o <<p>>
    BY <1>3, <2>1, ConcatAssociative
  <2>3. QED
    BY <1>3, <2>2, AppendIsConcat
<1> HIDE DEF q
<1>5. /\ LinesEnded(Append(q, p)) = LinesEnded(q) + (IF p = "newline" /\ Midline(q) THEN 1 ELSE 0)
      /\ Midline(Append(q, p)) <=> p = "text"
  BY <1>3, PieceEnds
<1>6. /\ LinesEnded(Append(printed, p)) = LinesEnded(printed) + n
      /\ Midline(Append(printed, p)) <=> p = "text"
      /\ Append(printed, p) \in Seq(Pieces) /\ Append(errPipe, p) \in Seq(Pieces)
  BY <1>3, PieceEnds
<1>7. Midline(q) <=> Midline(printed)
  BY DEF LineInv, Unread, q
<1>8. LinesEnded(q) \in Nat /\ LinesEnded(printed) \in Nat /\ LinesIn(Pending) \in Nat /\ logged \in Nat
  BY <1>3, EndsTyped, PendingTyped, SumsTyped DEF InInv, InTyped, LineInv
<1>9. logged + LinesIn(Pending) + LinesEnded(q) = LinesEnded(printed)
  BY DEF LineInv, NoLineLost, q
<1>10. logged + LinesIn(Pending) + LinesEnded(Append(q, p)) = LinesEnded(Append(printed, p))
  BY <1>5, <1>6, <1>7, <1>8, <1>9
<1>11. NoLineLost'
  BY <1>1, <1>2, <1>4, <1>10 DEF NoLineLost
<1>12. Midline(Unread)' <=> Midline(printed)'
  BY <1>1, <1>2, <1>4, <1>5, <1>6 DEF Unread
<1>13. QED
  BY <1>1, <1>2, <1>3, <1>6, <1>11, <1>12 DEF LineInv

LEMMA RunPostedKeepsLines ==
  ASSUME InInv, LineInv, RunPosted
  PROVE  LineInv'
<1> DEFINE w == Pending[1]
<1>1. /\ Head(batch) = w /\ w \in Work /\ LinesIn(Pending) = Lines[w] + LinesIn(Pending')
      /\ LinesIn(Pending') \in Nat
  BY WorkRun
<1>2. /\ logged' = IF w.kind = "log" THEN logged + 1 ELSE logged
      /\ UNCHANGED <<stderr, buffered, errPipe, printed>>
  BY <1>1 DEF RunPosted, Runs, stderrVars
<1> HIDE DEF w
<1>3. Lines[w] = IF w.kind = "log" THEN 1 ELSE 0
  BY <1>1 DEF Lines
<1>4. logged' + LinesIn(Pending') = logged + LinesIn(Pending) /\ logged' \in Nat
  BY <1>1, <1>2, <1>3 DEF LineInv
<1>5. NoLineLost'
  BY <1>2, <1>4 DEF LineInv, NoLineLost, LinesEnded, Ends
<1>6. QED
  BY <1>2, <1>4, <1>5 DEF LineInv, Unread, Midline

LEMMA LineInvInductive ==
  ASSUME InInv, LineInv, [Next]_vars
  PROVE  LineInv'
<1>1. CASE RunPosted \/ ReadStderr \/ SplitLine \/ PeerPrints
  BY <1>1, RunPostedKeepsLines, ReadStderrKeepsLines, SplitLineKeepsLines, PeerPrintsKeepsLines
<1>2. CASE PostFrame
  <2> DEFINE w == FrameWork(hand)
  <2>1. posted' = Append(posted, w) /\ UNCHANGED <<batch, logged, stderrVars>>
    BY <1>2 DEF PostFrame, mainVars
  <2>2. w \in Work /\ w.kind = "frame"
    BY <1>2, WorkTyped DEF InInv, InTyped, PostFrame
  <2> HIDE DEF w
  <2>3. Lines[w] = 0
    BY <2>2 DEF Lines
  <2>4. LinesIn(Pending') = LinesIn(Pending) + 0 /\ LinesIn(Pending) \in Nat
    BY <2>1, <2>2, <2>3, WorkPosted
  <2>5. QED
    BY <2>1, <2>4, LineInvUnchanged DEF stderrVars
<1>3. CASE ReadStart \/ ReadRest
  <2>1. UNCHANGED <<logged, stderrVars>>
    BY <1>3 DEF ReadStart, ReadRest, mainVars
  <2>2. QED
    BY <1>3, <2>1, ReadingPostsNoWork, LineInvUnchanged DEF stderrVars
<1>4. CASE DrainPosted
  <2>1. UNCHANGED <<logged, stderrVars>>
    BY <1>4 DEF DrainPosted
  <2>2. LinesIn(Pending') = LinesIn(Pending)
    BY <1>4, WorkDrained
  <2>3. QED
    BY <2>1, <2>2, LineInvUnchanged DEF stderrVars
<1>5. CASE UNCHANGED <<batch, posted, logged, stderrVars>>
  <2>1. LinesIn(Pending') = LinesIn(Pending)
    BY <1>5 DEF Pending
  <2>2. QED
    BY <1>5, <2>1, LineInvUnchanged DEF stderrVars
<1>6. CASE \/ \E fits \in BOOLEAN : SendFrame(fits)
           \/ PrepareForGracefulShutdown \/ Destroy \/ Destructor \/ Writer
  BY <1>5, <1>6 DEF SendFrame, PrepareForGracefulShutdown, Destroy, Destructor, CloseTransport,
     StopReader, JoinReader, JoinStderr, Writer, WriterChecks, WriterWrites, WriterFails, mainVars
<1>7. CASE \/ ReaderChecksStop \/ ReaderChecksQueue \/ PeerSends \/ PeerReads
           \/ PeerExits \/ UNCHANGED vars
  BY <1>5, <1>7 DEF ReaderChecksStop, ReaderChecksQueue, PeerSends, PeerReads, PeerExits, vars, mainVars
<1>8. QED
  BY <1>1, <1>2, <1>3, <1>4, <1>6, <1>7 DEF Next, MainLoop, Reader, StderrReader

LEMMA LineInvInit ==
  ASSUME Init
  PROVE  LineInv
<1>1. /\ Pending = <<>> /\ logged = 0 /\ printed = <<>> /\ buffered = <<>> /\ errPipe = <<>>
      /\ stderr \in {"reading", "done"}
  BY EmptySeq, ConcatEmptySeq DEF Init, Pending
<1>2. /\ buffered \o errPipe = <<>> /\ buffered \in Seq(Pieces) /\ errPipe \in Seq(Pieces)
      /\ printed \in Seq(Pieces) /\ Len(buffered) = 0
  BY <1>1, EmptySeq, ConcatEmptySeq
<1>3. NoLineLost
  BY <1>1, <1>2, SumsEmpty, EmptyEndsNothing DEF NoLineLost
<1>4. QED
  BY <1>1, <1>2, <1>3, EmptyEndsNothing DEF LineInv, Unread

\* Every line the peer has ended is once in the log, posted, or not yet taken
\* up, however the reads are cut; after the end of stderr it is in the log or
\* posted, also when the connection is gone (StartStderrReadLoop posts by value).
THEOREM NoLineIsEverLost == Spec => []NoLineLost
<1>1. Init => InInv /\ LineInv
  BY InInvInit, LineInvInit
<1>2. InInv /\ LineInv /\ [Next]_vars => InInv' /\ LineInv'
  BY InInvInductive, LineInvInductive
<1>3. LineInv => NoLineLost
  BY DEF LineInv
<1>4. QED
  BY <1>1, <1>2, <1>3, PTL DEF Spec

-----------------------------------------------------------------------------
(* The reader's pause                                                       *)

LEMMA BelowLimitUnchanged ==
  ASSUME BelowLimit, UNCHANGED <<queuedBytes, hand>>, Alive' => Alive,
         Alive' => BytesIn(Pending') = BytesIn(Pending),
         reader' \in {"reading", "midframe", "posting"} =>
           reader \in {"reading", "midframe", "posting"} \/ MayRead,
         reader' = "posting" => hand.charge \in Charges
  PROVE  BelowLimit'
BY DEF BelowLimit, MayRead

LEMMA RunStaysBelow ==
  ASSUME InInv, BelowLimit, RunPosted
  PROVE  BelowLimit'
<1> DEFINE w == Pending[1]
<1>1. /\ Head(batch) = w /\ w \in Work /\ BytesIn(Pending) = Bytes[w] + BytesIn(Pending')
      /\ BytesIn(Pending') \in Nat
  BY WorkRun
<1>2. /\ UNCHANGED <<owner, hand>> /\ reader' \in {reader, ReaderWoken}
      /\ queuedBytes' = IF w.kind = "frame" /\ Runs(w) THEN queuedBytes - w.charge ELSE queuedBytes
  BY <1>1 DEF RunPosted
<1> HIDE DEF w
<1>3. Bytes[w] = (IF w.kind = "frame" THEN w.charge ELSE 0) /\ Bytes[w] \in Nat
  BY <1>1, SumsAreWeights DEF Bytes
<1>4. Alive' = Alive
  BY <1>2 DEF Alive
<1>5. CASE ~Alive \/ w.kind # "frame"
  <2>1. queuedBytes' = queuedBytes
    BY <1>2, <1>5 DEF Runs
  <2>2. Alive' => BytesIn(Pending') = BytesIn(Pending)
    BY <1>1, <1>3, <1>4, <1>5
  <2>3. reader' \in {"reading", "midframe", "posting"} => reader' = reader
    BY <1>2 DEF ReaderWoken
  <2>4. QED
    BY <1>2, <1>4, <2>1, <2>2, <2>3, BelowLimitUnchanged DEF BelowLimit
<1>6. CASE Alive /\ w.kind = "frame"
  <2>1. queuedBytes' = queuedBytes - Bytes[w] /\ queuedBytes = BytesIn(Pending)
    BY <1>2, <1>3, <1>6 DEF Runs, BelowLimit
  <2>2. queuedBytes' = BytesIn(Pending') /\ queuedBytes' \in Nat /\ queuedBytes' <= queuedBytes
    BY <1>1, <1>3, <2>1
  <2>3. reader' \in {"reading", "midframe", "posting"} => reader' = reader
    BY <1>2 DEF ReaderWoken
  <2>4. \A x \in Nat : queuedBytes < x => queuedBytes' < x
    BY <1>1, <1>3, <2>1, <2>2
  <2>5. \A c \in Charges : MaxQueuedBytes + c \in Nat
    BY RoomAssumption, ChargeAssumption
  <2>6. MaxQueuedBytes \in Nat
    BY RoomAssumption
  <2>7. QED
    BY <1>2, <2>2, <2>3, <2>4, <2>5, <2>6 DEF BelowLimit
<1>7. QED
  BY <1>5, <1>6

LEMMA PostStaysBelow ==
  ASSUME InInv, BelowLimit, PostFrame
  PROVE  BelowLimit'
<1> DEFINE w == FrameWork(hand)
<1>1. /\ posted' = Append(posted, w) /\ reader = "posting" /\ reader' = "top"
      /\ UNCHANGED <<owner, batch, hand>> /\ queuedBytes' = queuedBytes + hand.charge
  BY DEF PostFrame, Charge, mainVars
<1>2. w \in Work /\ w.kind = "frame" /\ w.charge = hand.charge
  BY <1>1, WorkTyped DEF InInv, InTyped
<1> HIDE DEF w
<1>3. Bytes[w] = hand.charge
  BY <1>2 DEF Bytes
<1>4. BytesIn(Pending') = BytesIn(Pending) + hand.charge
  BY <1>1, <1>2, <1>3, WorkPosted
<1>5. hand.charge \in Charges /\ hand.charge \in Nat /\ queuedBytes \in Nat
      /\ queuedBytes < MaxQueuedBytes
  BY <1>1, ChargeAssumption DEF BelowLimit
<1>6. ASSUME NEW c \in Charges, \A d \in Charges : d <= c
      PROVE  queuedBytes' < MaxQueuedBytes + c
  BY <1>1, <1>5, <1>6, RoomAssumption, ChargeAssumption
<1>7. Alive' = Alive
  BY <1>1 DEF Alive
<1>8. QED
  BY <1>1, <1>4, <1>5, <1>6, <1>7 DEF BelowLimit

LEMMA BelowLimitInductive ==
  ASSUME InInv, BelowLimit, [Next]_vars
  PROVE  BelowLimit'
<1>1. CASE ReadStart
  <2>1. reader = "reading" /\ reader' \in {"done", "midframe"} /\ UNCHANGED <<owner, queuedBytes, hand>>
    BY <1>1 DEF ReadStart, ReaderEnds
  <2>2. BytesIn(Pending') = BytesIn(Pending)
    BY <1>1, ReadingPostsNoWork
  <2>3. QED
    BY <2>1, <2>2, BelowLimitUnchanged DEF Alive
<1>2. CASE ReadRest
  <2>1. /\ reader = "midframe" /\ UNCHANGED <<owner, queuedBytes>>
        /\ reader' = "posting" => hand'.charge \in Charges
    <3>1. CASE ReaderEnds("error")
      BY <1>2, <3>1 DEF ReadRest, ReaderEnds
    <3>2. CASE /\ fromPeer # <<>> /\ hand' = [n |-> Head(fromPeer).n, charge |-> Head(fromPeer).charge]
               /\ reader' = IF Head(fromPeer).charge = 0 THEN "top" ELSE "posting"
      <4>1. Head(fromPeer) \in Parts /\ Head(fromPeer).part = "rest"
        BY <1>2, <3>2, TailAlternates DEF InInv, Alternates, ReadRest
      <4>2. QED
        BY <1>2, <3>2, <4>1, PartKinds DEF ReadRest
    <3>3. QED
      BY <1>2, <3>1, <3>2 DEF ReadRest
  <2>2. BytesIn(Pending') = BytesIn(Pending)
    BY <1>2, ReadingPostsNoWork
  <2>3. QED
    BY <2>1, <2>2 DEF BelowLimit, Alive
<1>3. CASE ReaderChecksStop \/ ReaderChecksQueue
  <2>1. /\ UNCHANGED <<owner, queuedBytes, hand, batch, posted>>
        /\ reader' \in {"done", "gate", "parked"} \/ (reader' = "reading" /\ MayRead)
    BY <1>3 DEF ReaderChecksStop, ReaderChecksQueue, mainVars
  <2>2. Pending' = Pending /\ UNCHANGED Alive
    BY <2>1 DEF Pending, Alive
  <2>3. QED
    BY <2>1, <2>2, BelowLimitUnchanged
<1>4. CASE StderrReader
  <2>1. UNCHANGED <<owner, queuedBytes, hand, reader, batch>>
    BY <1>4 DEF StderrReader, ReadStderr, SplitLine, readerVars, mainVars
  <2>2. LogWork \in Work /\ Bytes[LogWork] = 0
    BY WorkTyped DEF Bytes
  <2>3. BytesIn(Pending') = BytesIn(Pending)
    <3>1. CASE posted' = posted
      BY <2>1, <3>1 DEF Pending
    <3>2. CASE posted' = Append(posted, LogWork)
      <4>1. BytesIn(Pending') = BytesIn(Pending) + 0 /\ BytesIn(Pending) \in Nat
        BY <2>1, <2>2, <3>2, WorkPosted
      <4>2. QED
        BY <4>1
    <3>3. QED
      BY <1>4, <3>1, <3>2 DEF StderrReader, ReadStderr, SplitLine
  <2>4. QED
    BY <2>1, <2>3, BelowLimitUnchanged DEF BelowLimit, Alive
<1>5. CASE DrainPosted
  <2>1. UNCHANGED <<owner, queuedBytes, hand, reader>>
    BY <1>5 DEF DrainPosted, readerVars
  <2>2. QED
    BY <1>5, <2>1, WorkDrained, BelowLimitUnchanged DEF BelowLimit, Alive
<1>6. CASE Destroy \/ Destructor
  <2>1. ~Alive' /\ UNCHANGED <<queuedBytes, hand>> /\ reader' \in {reader, ReaderWoken}
    BY <1>6 DEF Destroy, Destructor, CloseTransport, StopReader, JoinReader, JoinStderr, Alive, readerVars
  <2>2. QED
    BY <2>1, BelowLimitUnchanged DEF BelowLimit, ReaderWoken
<1>7. CASE UNCHANGED <<owner, batch, posted, reader, hand, queuedBytes>>
  <2>1. Pending' = Pending /\ UNCHANGED Alive
    BY <1>7 DEF Pending, Alive
  <2>2. QED
    BY <1>7, <2>1, BelowLimitUnchanged DEF BelowLimit
<1>8. CASE \/ \E fits \in BOOLEAN : SendFrame(fits)
           \/ PrepareForGracefulShutdown \/ Writer
  BY <1>7, <1>8 DEF SendFrame, PrepareForGracefulShutdown, Writer, WriterChecks, WriterWrites,
     WriterFails, readerVars, mainVars
<1>9. CASE \/ PeerSends \/ PeerReads \/ PeerPrints \/ PeerExits \/ UNCHANGED vars
  BY <1>7, <1>9 DEF PeerSends, PeerReads, PeerPrints, PeerExits, vars, readerVars, mainVars
<1>10. QED
  BY <1>1, <1>2, <1>3, <1>4, <1>5, <1>6, <1>8, <1>9, RunStaysBelow, PostStaysBelow
     DEF Next, MainLoop, Reader

LEMMA BelowLimitInit ==
  ASSUME Init
  PROVE  BelowLimit
<1>1. Pending = <<>> /\ queuedBytes = 0 /\ reader = "top"
  BY EmptySeq, ConcatEmptySeq DEF Init, Pending
<1>2. QED
  BY <1>1, SumsEmpty, RoomAssumption, ChargeAssumption DEF BelowLimit

\* The reader's count is exactly what is posted and not taken, and exceeds the
\* limit by less than one frame (StartReadLoop, kDefaultMaxQueuedBytes).
THEOREM QueuedBytesAreExact == Spec => []QueuedBytesExact
<1>1. Init => InInv /\ BelowLimit
  BY InInvInit, BelowLimitInit
<1>2. InInv /\ BelowLimit /\ [Next]_vars => InInv' /\ BelowLimit'
  BY InInvInductive, BelowLimitInductive
<1>3. BelowLimit => QueuedBytesExact
  BY DEF BelowLimit, QueuedBytesExact
<1>4. QED
  BY <1>1, <1>2, <1>3, PTL DEF Spec

-----------------------------------------------------------------------------
(* Types and bounds                                                         *)

SizeInv ==
  /\ drain \in BOOLEAN /\ Len(errPipe) <= PipeRoom /\ Len(printed) <= MaxPrinted
  /\ Len(fromPeer) <= PipeRoom /\ Len(toPeer) <= PipeRoom
  /\ enqueued <= MaxSent /\ Len(sent) <= MaxFrames
  /\ midway => Len(sent) < MaxFrames

AllInv == OutInv /\ InInv /\ LineInv /\ BelowLimit /\ SizeInv

LEMMA LengthSteps ==
  /\ \A S : \A q \in Seq(S), x \in S : Len(Append(q, x)) = Len(q) + 1
  /\ \A S : \A q \in Seq(S) : Len(q) \in Nat /\ (q # <<>> => Len(Tail(q)) = Len(q) - 1)
  /\ Len(<<>>) = 0
BY AppendProperties, HeadTailProperties, EmptySeq, LenProperties

LEMMA RestIsShorter ==
  ASSUME NEW q \in Seq(Pieces), NEW k \in 1 .. Len(q)
  PROVE  Len(SubSeq(q, k + 1, Len(q))) <= Len(q)
<1>1. Len(q) \in Nat /\ \A i \in k + 1 .. Len(q) : q[i] \in Pieces
  BY LenProperties, ElementOfSeq
<1>2. Len(SubSeq(q, k + 1, Len(q))) = IF k + 1 <= Len(q) THEN Len(q) - (k + 1) + 1 ELSE 0
  BY <1>1, SubSeqProperties
<1>3. QED
  BY <1>1, <1>2

LEMMA SizeInvInductive ==
  ASSUME AllInv, [Next]_vars
  PROVE  SizeInv'
<1>1. /\ fromPeer \in Seq(Parts) /\ sent \in Seq(Nat) /\ toPeer \in Seq(Nat) /\ enqueued \in Nat
      /\ errPipe \in Seq(Pieces) /\ printed \in Seq(Pieces)
      /\ PipeRoom \in Nat /\ MaxSent \in Nat /\ MaxFrames \in Nat /\ MaxPrinted \in Nat
      /\ Len(fromPeer) \in Nat /\ Len(sent) \in Nat /\ Len(toPeer) \in Nat
      /\ Len(errPipe) \in Nat /\ Len(printed) \in Nat
  BY RoomAssumption, BoundsAssumption, LengthSteps DEF AllInv, OutInv, OutTyped, InInv, InTyped, LineInv
<1>2. SizeInv
  BY DEF AllInv
<1>3. CASE \E fits \in BOOLEAN : SendFrame(fits)
  BY <1>1, <1>2, <1>3 DEF SendFrame, SizeInv, readerVars, stderrVars, peerVars
<1>4. CASE PrepareForGracefulShutdown \/ Destroy \/ Destructor \/ MainLoop \/ UNCHANGED vars
  <2>1. /\ UNCHANGED <<errPipe, printed, fromPeer, toPeer, enqueued, sent, midway>>
        /\ drain' \in {drain, TRUE}
    BY <1>4 DEF PrepareForGracefulShutdown, Destroy, Destructor, CloseTransport, StopReader,
       JoinReader, JoinStderr, MainLoop, DrainPosted, RunPosted, vars, writerVars, readerVars,
       stderrVars, peerVars, mainVars
  <2>2. QED
    BY <1>2, <2>1 DEF SizeInv
<1>5. CASE WriterChecks \/ WriterFails
  BY <1>2, <1>5 DEF WriterChecks, WriterFails, SizeInv, readerVars, stderrVars, peerVars, mainVars
<1>6. CASE WriterWrites
  <2>1. /\ Len(toPeer) < PipeRoom /\ toPeer' = Append(toPeer, writing.n)
        /\ UNCHANGED <<drain, errPipe, printed, fromPeer, enqueued, sent, midway>>
    BY <1>6 DEF WriterWrites, readerVars, stderrVars, peerVars, mainVars
  <2>2. toPeer' \in Seq(Nat)
    BY <1>6, WriterWritesKeepsOrder DEF AllInv, OutInv, OutTyped
  <2>3. Len(toPeer') = Len(toPeer) + 1
    BY <1>1, <2>1, AppendProperties
  <2>4. QED
    BY <1>1, <1>2, <2>1, <2>3 DEF SizeInv
<1>7. CASE Reader
  <2>1. UNCHANGED <<drain, errPipe, printed, toPeer, enqueued, sent, midway>>
    BY <1>7 DEF Reader, ReaderChecksStop, ReaderChecksQueue, ReadStart, ReadRest, PostFrame,
       writerVars, stderrVars, peerVars, mainVars
  <2>2. fromPeer' = fromPeer \/ (fromPeer # <<>> /\ fromPeer' = Tail(fromPeer))
    BY <1>7 DEF Reader, ReaderChecksStop, ReaderChecksQueue, ReadStart, ReadRest, PostFrame
  <2>3. fromPeer' = fromPeer \/ Len(fromPeer') = Len(fromPeer) - 1
    BY <1>1, <2>2, LengthSteps
  <2>4. Len(fromPeer') <= PipeRoom
    BY <1>1, <1>2, <2>3 DEF SizeInv
  <2>5. QED
    BY <1>2, <2>1, <2>4 DEF SizeInv
<1>8. CASE StderrReader
  <2>1. /\ UNCHANGED <<drain, printed, toPeer, fromPeer, enqueued, sent, midway>>
        /\ errPipe' = errPipe \/ \E k \in 1 .. Len(errPipe) : errPipe' = SubSeq(errPipe, k + 1, Len(errPipe))
    BY <1>8 DEF StderrReader, ReadStderr, SplitLine, writerVars, readerVars, peerVars, mainVars
  <2>2. Len(errPipe') <= Len(errPipe)
    BY <1>1, <2>1, RestIsShorter
  <2>3. QED
    BY <1>1, <1>2, <2>1, <2>2 DEF SizeInv
<1>9. CASE PeerSends
  <2>1. /\ Len(fromPeer) < PipeRoom /\ \E p : fromPeer' = Append(fromPeer, p)
        /\ UNCHANGED <<drain, errPipe, printed, toPeer, enqueued>>
    BY <1>9 DEF PeerSends, writerVars, stderrVars, mainVars
  <2>2. fromPeer' \in Seq(Parts)
    BY <1>9, PeerSendsKeepsFrames DEF AllInv, InInv, InTyped
  <2>3. Len(fromPeer') = Len(fromPeer) + 1
    BY <1>1, <2>1
  <2>4. /\ \/ midway' /\ Len(sent) < MaxFrames /\ sent' = sent
           \/ UNCHANGED <<midway, sent>>
           \/ ~midway' /\ midway /\ sent' = sent
           \/ ~midway' /\ midway /\ sent' = Append(sent, Len(sent) + 1)
    BY <1>9 DEF PeerSends
  <2>5. Len(Append(sent, Len(sent) + 1)) = Len(sent) + 1
    BY <1>1, AppendProperties
  <2>6. Len(sent') <= MaxFrames /\ (midway' => Len(sent') < MaxFrames)
    BY <1>1, <1>2, <2>4, <2>5 DEF SizeInv
  <2>7. Len(fromPeer') <= PipeRoom
    BY <1>1, <2>1, <2>3
  <2>8. QED
    BY <1>2, <2>1, <2>6, <2>7 DEF SizeInv
<1>10. CASE PeerReads \/ PeerExits
  <2>1. UNCHANGED <<drain, errPipe, printed, fromPeer, enqueued, sent, midway>>
    BY <1>10 DEF PeerReads, PeerExits, readerVars, stderrVars, mainVars
  <2>2. toPeer' = <<>> \/ (toPeer # <<>> /\ toPeer' = Tail(toPeer))
    BY <1>10 DEF PeerReads, PeerExits
  <2>3. Len(toPeer') = 0 \/ Len(toPeer') = Len(toPeer) - 1
    BY <1>1, <2>2, LengthSteps
  <2>4. Len(toPeer') <= PipeRoom
    BY <1>1, <1>2, <2>3 DEF SizeInv
  <2>5. QED
    BY <1>2, <2>1, <2>4 DEF SizeInv
<1>11. CASE PeerPrints
  <2>1. /\ UNCHANGED <<drain, toPeer, fromPeer, enqueued, sent, midway>>
        /\ Len(errPipe) < PipeRoom /\ Len(printed) < MaxPrinted
        /\ \E p \in Pieces : errPipe' = Append(errPipe, p) /\ printed' = Append(printed, p)
    BY <1>11 DEF PeerPrints, Pieces, writerVars, readerVars, peerVars, mainVars
  <2>2. Len(errPipe') = Len(errPipe) + 1 /\ Len(printed') = Len(printed) + 1
    BY <1>1, <2>1, LengthSteps
  <2>3. QED
    BY <1>1, <1>2, <2>1, <2>2 DEF SizeInv
<1>12. QED
  BY <1>3, <1>4, <1>5, <1>6, <1>7, <1>8, <1>9, <1>10, <1>11 DEF Next, Writer

\* Every thread, queue and count has its type, and the pipes and histories stay
\* in their bounds.
THEOREM ConnectionIsTyped == Spec => []TypeOK
<1>1. Init => AllInv
  <2>1. ASSUME Init PROVE SizeInv
    <3>1. /\ drain = FALSE /\ ~midway /\ enqueued = 0 /\ Len(errPipe) = 0 /\ Len(printed) = 0
          /\ Len(fromPeer) = 0 /\ Len(toPeer) = 0 /\ Len(sent) = 0
      BY <2>1, EmptySeq DEF Init
    <3>2. drain \in BOOLEAN
      BY <3>1
    <3>3. QED
      BY <3>1, <3>2, RoomAssumption, BoundsAssumption DEF SizeInv
  <2>2. QED
    BY <2>1, OutInvInit, InInvInit, LineInvInit, BelowLimitInit DEF AllInv
<1>2. AllInv /\ [Next]_vars => AllInv'
  BY OutInvInductive, InInvInductive, LineInvInductive, BelowLimitInductive, SizeInvInductive DEF AllInv
<1>3. AllInv => TypeOK
  <2> SUFFICES ASSUME AllInv PROVE TypeOK
    OBVIOUS
  <2>1. /\ \A i \in DOMAIN posted : posted[i].kind \in Works
        /\ \A i \in DOMAIN batch : batch[i].kind \in Works
    BY WorkTyped, ElementOfSeq DEF AllInv, InInv, InTyped, Works
  <2>2. enqueued \in 0 .. MaxSent
    BY BoundsAssumption DEF AllInv, SizeInv, OutInv, OutTyped
  <2>3. QED
    BY <2>1, <2>2 DEF TypeOK, AllInv, OutInv, OutTyped, InInv, InTyped, LineInv, BelowLimit, SizeInv
<1>4. QED
  BY <1>1, <1>2, <1>3, PTL DEF Spec
=============================================================================
