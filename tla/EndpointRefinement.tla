-------------------------- MODULE EndpointRefinement --------------------------
(***************************************************************************)
(* For every number of requests and chunks and every window, the endpoints *)
(* and their channels implement RequestStream, and nothing on the host     *)
(* waits for an event that cannot come.                                    *)
(***************************************************************************)
EXTENDS EndpointSafety

-----------------------------------------------------------------------------
(* What waits on the host *)

\* Nobody waits for a request that has not arrived.
WaitsForKnown == \A id \in Ids : waiting[id] => id <= lastPeerId

BInv == BacklogIsDriven /\ WaitsForKnown

\* What BacklogIsDriven asks of one request.
Driven(e, waits) ==
  e.live => /\ e.queued # <<>> => e.credit = 0
            /\ e.response # "none" => e.queued # <<>>
            /\ waits => e.queued # <<>>

LEMMA BacklogOfOne == BacklogIsDriven <=> \A id \in Ids : Driven(incoming[id], waiting[id])
  BY DEF BacklogIsDriven, Driven

LEMMA StoppedIsDriven ==
  ASSUME NEW e \in Incoming, NEW waits
  PROVE  Driven(Stopped(e), waits)
  BY DEF Stopped, Driven, Incoming

\* A flush that ends with the held response leaves no entry.
LEMMA FlushedEnds ==
  ASSUME NEW e \in Incoming, NEW n \in Nat, NEW k \in Nat, NEW rest,
         NEW left, left = Flushed(e, n, k, rest)
  PROVE  ~Stopped(left).live
  BY FlushedCounts, Zenon

\* A flush leaves a backlog only for want of credit, and tells a producer when
\* there is none.
LEMMA FlushIsDriven ==
  ASSUME NEW e \in Incoming, NEW n \in Nat, NEW waits \in BOOLEAN, e.live,
         NEW k, k = MinOf(e.credit + n, Len(e.queued)),
         NEW rest, rest = SubSeq(e.queued, k + 1, Len(e.queued)),
         NEW left, left = Flushed(e, n, k, rest),
         e.queued = <<>> => ~waits,
         ~(rest = <<>> /\ e.response # "none")
  PROVE  Driven(left, waits /\ ~Drained(e, left))
<1>1. /\ e.credit \in Nat /\ e.queued \in Seq(Nat) /\ Len(e.queued) \in Nat
      /\ k \in 0 .. Len(e.queued) /\ k \in Nat
  BY DEF Incoming, MinOf
<1>2. /\ left.credit = e.credit + n - k
  BY <1>1, FlushedCounts
<1>3. left.queued = rest /\ left.response = e.response
  <2> DEFINE c == [e EXCEPT !.credit = @ + n]
             d == Charged(c, k)
  <2>1. c.response = e.response /\ DOMAIN c = {"live", "credit", "nextSeq", "queued", "response"}
    BY DEF Incoming
  <2> HIDE DEF c
  <2>2. d.response = c.response /\ DOMAIN d = {"live", "credit", "nextSeq", "queued", "response"}
    BY <2>1 DEF Charged
  <2> HIDE DEF d
  <2>3. left = [d EXCEPT !.queued = rest]
    BY DEF Flushed, d, c
  <2>4. QED
    BY <2>1, <2>2, <2>3
<1>4. rest # <<>> => k < Len(e.queued)
  <2>1. k = Len(e.queued) => rest = <<>>
    BY <1>1, SubSeqEmpty
  <2>2. QED
    BY <1>1, <2>1
<1>5. rest # <<>> => left.credit = 0
  <2>1. k < Len(e.queued) => k = e.credit + n
    BY <1>1 DEF MinOf
  <2>2. k = e.credit + n => e.credit + n - k = 0
    BY <1>1
  <2>3. QED
    BY <1>2, <1>4, <2>1, <2>2
<1>6. e.response # "none" => rest # <<>>
  OBVIOUS
<1>7. rest = <<>> => ~(waits /\ ~Drained(e, left))
  BY <1>3, <1>6 DEF Drained
<1>8. QED
  BY <1>3, <1>5, <1>6, <1>7 DEF Driven

LEMMA BacklogStep ==
  ASSUME IInv, IInv', BInv, [Next]_vars
  PROVE  BInv'
<1>1. /\ incoming \in [Ids -> Incoming] /\ incoming' \in [Ids -> Incoming]
      /\ waiting \in [Ids -> BOOLEAN] /\ waiting' \in [Ids -> BOOLEAN] /\ ~fault'
      /\ lastPeerId \in Nat /\ lastPeerId' \in Nat
  BY BoundsAssumption DEF IInv, TypeInv, TypeOK
<1>2. \A id \in Ids : Driven(incoming[id], waiting[id]) /\ (waiting[id] => id <= lastPeerId)
  BY BacklogOfOne DEF BInv, WaitsForKnown
<1>3. SUFFICES ASSUME NEW id \in Ids
               PROVE  Driven(incoming'[id], waiting'[id]) /\ (waiting'[id] => id <= lastPeerId')
  BY <1>3, BacklogOfOne DEF BInv, WaitsForKnown, BacklogIsDriven, Driven
<1>4. CASE UNCHANGED hostVars
  BY <1>2, <1>4 DEF hostVars
<1>5. CASE HostClose
  <2>1. incoming'[id] = Stopped(incoming[id]) /\ UNCHANGED <<waiting, lastPeerId>>
    BY <1>5 DEF HostClose, CloseHost
  <2>2. QED
    BY <1>1, <1>2, <2>1, StoppedIsDriven
<1>6. CASE HostReceive
  <2>1. PICK m : m = Head(toHost)
    OBVIOUS
  <2>2. /\ m \in HostMsg /\ m.id \in Ids
    <3>1. toHost \in Seq(HostMsg) /\ toHost # <<>>
      BY <1>6 DEF HostReceive, IInv, TypeInv, TypeOK
    <3>2. QED
      BY <2>1, <3>1 DEF HostMsg, RequestMsg, CancelMsg, CreditMsg
  <2>3. /\ HostExpects(m)
        /\ \/ m.kind = "request" /\ ReceiveRequest(m)
           \/ m.kind = "credit" /\ ReceiveCredit(m) /\ UNCHANGED lastPeerId
           \/ m.kind = "cancel" /\ ReceiveCancel(m) /\ UNCHANGED lastPeerId
    <3>1. m.kind \in {"request", "credit", "cancel"}
      BY <2>2 DEF HostMsg, RequestMsg, CancelMsg, CreditMsg
    <3>2. HostExpects(m)
      BY <1>1, <1>6, <2>1 DEF HostReceive, HostProtocolError
    <3>3. QED
      BY <1>6, <2>1, <3>1, <3>2 DEF HostReceive
  <2>4. CASE m.kind = "request" /\ ReceiveRequest(m)
    <3>1. m.id > lastPeerId /\ lastPeerId' = m.id /\ waiting' = waiting
      BY <2>3, <2>4 DEF HostExpects, ReceiveRequest
    <3>2. id \in Nat /\ m.id \in Nat
      BY <2>2, IdsAreNumbers
    <3>3. CASE id = m.id
      <4>1. ~waiting[id]
        BY <1>1, <1>2, <3>1, <3>2, <3>3
      <4>2. incoming'[id] = NewIncoming \/ incoming'[id] = incoming[id]
        BY <1>1, <2>4, <3>3 DEF ReceiveRequest
      <4>3. Driven(NewIncoming, waiting[id])
        BY <4>1 DEF Driven, NewIncoming
      <4>4. QED
        BY <1>2, <3>1, <4>1, <4>2, <4>3
    <3>4. CASE id # m.id
      <4>1. incoming'[id] = incoming[id]
        BY <1>1, <2>2, <2>4, <3>4 DEF ReceiveRequest
      <4>2. QED
        BY <1>1, <1>2, <3>1, <3>2, <4>1
    <3>5. QED
      BY <3>3, <3>4
  <2>5. CASE m.kind = "credit" /\ ReceiveCredit(m) /\ UNCHANGED lastPeerId
    <3>1. CASE m.id # id \/ ~incoming[m.id].live
      <4>1. incoming'[id] = incoming[id] /\ waiting'[id] = waiting[id]
        BY <1>1, <2>2, <2>5, <3>1 DEF ReceiveCredit
      <4>2. QED
        BY <1>2, <2>5, <4>1
    <3>2. CASE m.id = id /\ incoming[id].live
      <4> DEFINE e    == incoming[id]
                 k    == MinOf(e.credit + m.n, Len(e.queued))
                 rest == SubSeq(e.queued, k + 1, Len(e.queued))
                 left == Flushed(e, m.n, k, rest)
                 last == rest = <<>> /\ e.response # "none"
      <4>1. /\ incoming' = [incoming EXCEPT ![id] = IF last THEN Stopped(left) ELSE left]
            /\ waiting'  = [waiting EXCEPT ![id] = @ /\ ~Drained(e, left)]
        BY <2>5, <3>2 DEF ReceiveCredit, Flushed
      <4>2. m.n \in Nat /\ e \in Incoming /\ e.live /\ waiting[id] \in BOOLEAN
        BY <1>1, <2>2, <2>5, <3>2 DEF HostMsg, RequestMsg, CancelMsg, CreditMsg
      <4>3. e.queued = <<>> => ~waiting[id]
        BY <1>2, <4>2 DEF Driven
      <4> HIDE DEF e, k, rest, left
      <4>4. /\ waiting'[id] = (waiting[id] /\ ~Drained(e, left))
            /\ incoming'[id] = IF last THEN Stopped(left) ELSE left
        BY <1>1, <4>1
      <4>5. CASE last
        <5>1. incoming'[id] = Stopped(left)
          BY <4>4, <4>5
        <5>2. ~incoming'[id].live
          <6>1. k \in Nat
            BY <4>2 DEF k, MinOf, Incoming
          <6>2. left = Flushed(e, m.n, k, rest)
            BY DEF left
          <6>3. ~Stopped(left).live
            BY <4>2, <6>1, <6>2, FlushedEnds
          <6>4. QED
            BY <5>1, <6>2, <6>3
        <5>3. QED
          BY <1>2, <2>5, <4>4, <5>2 DEF Driven
      <4>6. CASE ~last
        <5>1. Driven(left, waiting[id] /\ ~Drained(e, left))
          BY <4>2, <4>3, <4>6, FlushIsDriven DEF k, rest, left
        <5>2. QED
          BY <1>2, <2>5, <4>4, <4>6, <5>1
      <4>7. QED
        BY <4>5, <4>6
    <3>3. QED
      BY <3>1, <3>2
  <2>6. CASE m.kind = "cancel" /\ ReceiveCancel(m) /\ UNCHANGED lastPeerId
    <3>1. waiting' = waiting /\ incoming'[id] \in {incoming[id], Stopped(incoming[id])}
      BY <1>1, <2>2, <2>6 DEF ReceiveCancel
    <3>2. QED
      BY <1>1, <1>2, <2>6, <3>1, StoppedIsDriven
  <2>7. QED
    BY <2>3, <2>4, <2>5, <2>6
<1>7. ASSUME NEW r \in Ids, NEW paces \in BOOLEAN, HostChunk(r, paces)
      PROVE  Driven(incoming'[id], waiting'[id]) /\ (waiting'[id] => id <= lastPeerId')
  <2>1. incoming[r].live /\ ~waiting[r] /\ lastPeerId' = lastPeerId
    BY <1>7 DEF HostChunk
  <2>2. CASE r # id
    <3>1. incoming'[id] = incoming[id] /\ waiting'[id] = waiting[id]
      BY <1>1, <1>7, <2>2 DEF HostChunk
    <3>2. QED
      BY <1>2, <2>1, <3>1
  <2>3. CASE r = id
    <3> DEFINE e    == incoming[id]
               data == produced[id] + 1
    <3>1. /\ e \in Incoming /\ e.live /\ id <= lastPeerId
          /\ e.queued \in Seq(Nat) /\ e.credit \in Nat /\ data \in Nat
      <4>1. e \in Incoming /\ e.live /\ id <= lastPeerId
        BY <1>1, <2>1, <2>3 DEF IInv, IdsInv
      <4>2. data \in Nat
        <5>1. produced \in [Ids -> Nat]
          BY DEF IInv, TypeInv, TypeOK
        <5>2. produced[id] \in Nat
          BY <5>1
        <5>3. QED
          BY <5>2
      <4>3. QED
        BY <4>1, <4>2 DEF Incoming
    <3>2. CASE MayGoOut(e)
      <4>1. incoming'[id] = Charged(e, 1) /\ waiting'[id] = waiting[id]
        BY <1>1, <1>7, <2>3, <3>2 DEF HostChunk
      <4>2. e.queued = <<>> /\ Charged(e, 1).queued = e.queued /\ Charged(e, 1).response = e.response
        BY <3>1, <3>2 DEF MayGoOut, Charged, Incoming
      <4>3. QED
        BY <1>2, <2>1, <2>3, <3>1, <4>1, <4>2 DEF Driven
    <3>3. CASE ~MayGoOut(e)
      <4>1. incoming'[id] = [e EXCEPT !.queued = Append(@, data)]
        BY <1>1, <1>7, <2>3, <3>3 DEF HostChunk
      <4> HIDE DEF e, data
      <4>2. Append(e.queued, data) # <<>>
        BY <3>1, AppendProperties
      <4>3. incoming'[id].queued # <<>> /\ incoming'[id].credit = e.credit
        BY <3>1, <4>1, <4>2 DEF Incoming
      <4>4. e.credit = 0
        BY <1>2, <3>1, <3>3 DEF MayGoOut, Driven, e
      <4>5. QED
        BY <2>1, <3>1, <4>3, <4>4 DEF Driven
    <3>4. QED
      BY <3>2, <3>3
  <2>4. QED
    BY <2>2, <2>3
<1>8. ASSUME NEW r \in Ids, NEW answer \in {"result", "error"}, HostAnswer(r, answer)
      PROVE  Driven(incoming'[id], waiting'[id]) /\ (waiting'[id] => id <= lastPeerId')
  <2>1. waiting' = waiting /\ lastPeerId' = lastPeerId
    BY <1>8 DEF HostAnswer
  <2>2. CASE incoming'[id] \in {incoming[id], Stopped(incoming[id])}
    BY <1>1, <1>2, <2>1, <2>2, StoppedIsDriven
  <2>3. CASE /\ r = id /\ incoming[id].queued # <<>>
             /\ incoming'[id] = [incoming[id] EXCEPT !.response = answer]
    <3>1. /\ incoming'[id].queued = incoming[id].queued /\ incoming'[id].credit = incoming[id].credit
          /\ incoming'[id].live = incoming[id].live
      BY <1>1, <2>3 DEF Incoming
    <3>2. QED
      BY <1>2, <2>1, <2>3, <3>1 DEF Driven
  <2>4. QED
    BY <1>1, <1>8, <2>2, <2>3 DEF HostAnswer, MayAnswer
<1>9. QED
  BY <1>4, <1>5, <1>6, <1>7, <1>8 DEF Next, vars, ReserveRequestIds, Issue, Grant, Cancel, ExpireIdle,
     ClientClose, ClientDestroy, ClientReceive, ClientProtocolError, hostVars

\* Nothing on the host waits for an event that cannot come, for every window and
\* number of chunks (Chunk, Answer, Flush).
THEOREM BacklogAlwaysDriven == Spec => []BacklogIsDriven
<1>1. Init => BInv
  BY DEF Init, BInv, BacklogIsDriven, WaitsForKnown, NoIncoming
<1>2. IInv /\ IInv' /\ BInv /\ [Next]_vars => BInv'
  BY BacklogStep
<1>3. BInv => BacklogIsDriven
  BY DEF BInv
<1>4. QED
  BY <1>1, <1>2, <1>3, Invariant, PTL DEF Spec

-----------------------------------------------------------------------------
(* What ties the endpoints to the streams *)

\* An id that is not taken has no history.
FreshInv ==
  \A id \in Ids : id >= nextId =>
    ~outgoing[id].cancelled /\ settled[id] = <<>> /\ delivered[id] = <<>>

\* A pending request has had no terminal callback if it can still get one; if it
\* was not given up it can, and was handed every chunk that was heard.
PendingInv ==
  \A id \in Ids : outgoing[id].live =>
    /\ outgoing[id].handled => settled[id] = <<>>
    /\ ~outgoing[id].cancelled =>
         outgoing[id].handled /\ Len(delivered[id]) = outgoing[id].nextSeq

\* What a handler produced, p chunks, was sent or is queued, in order.
Emitted(e, p) ==
  /\ e.nextSeq + Len(e.queued) <= p
  /\ e.live => p = e.nextSeq + Len(e.queued)
  /\ \A i \in DOMAIN e.queued : e.queued[i] = e.nextSeq + i

ProducedInv ==
  \A id \in Ids : /\ id > lastPeerId => produced[id] = 0
                  /\ Emitted(incoming[id], produced[id])

\* A chunk in flight carries what was produced in its place.
NumberedInv ==
  \A i \in DOMAIN toClient : toClient[i].kind = "chunk" => toClient[i].data = toClient[i].seq + 1

\* A result in flight comes after everything that was produced.
CompleteInv ==
  \A i \in DOMAIN toClient :
    toClient[i].kind = "response" /\ toClient[i].answer = "result" =>
      LET id == toClient[i].id IN
        /\ produced[id] = incoming[id].nextSeq
        /\ outgoing[id].nextSeq <= incoming[id].nextSeq
        /\ outgoing[id].nextSeq < incoming[id].nextSeq =>
             \E j \in DOMAIN toClient :
               /\ j < i /\ toClient[j].kind = "chunk" /\ toClient[j].id = id
               /\ toClient[j].seq = incoming[id].nextSeq - 1

ClientInv  == FreshInv /\ PendingInv
ChannelInv == NumberedInv /\ CompleteInv
SInv       == ClientInv /\ ProducedInv /\ ChannelInv

LEMMA InitSInv == Init => SInv
  BY BoundsAssumption DEF Init, SInv, ClientInv, FreshInv, PendingInv, ProducedInv, Emitted, ChannelInv,
     NumberedInv, CompleteInv, NoOutgoing, NoIncoming

LEMMA HistoriesTyped ==
  ASSUME IInv
  PROVE  /\ outgoing \in [Ids -> Outgoing] /\ incoming \in [Ids -> Incoming]
         /\ settled \in [Ids -> Seq(Outcomes)] /\ delivered \in [Ids -> Seq(Nat)]
         /\ produced \in [Ids -> Nat]
         /\ toClient \in Seq(ClientMsg) /\ toHost \in Seq(HostMsg)
         /\ nextId \in Nat /\ lastPeerId \in Nat
         /\ cState \in {"open", "closed", "destroyed"} /\ ~fault
  BY BoundsAssumption DEF IInv, TypeInv, TypeOK

-----------------------------------------------------------------------------
(* Steps of the streams *)

GivenUpAsBefore == \A id \in Ids : outgoing'[id].cancelled = outgoing[id].cancelled

\* A step that no issuer of a request sees.
LEMMA Stutters ==
  ASSUME GivenUpAsBefore, UNCHANGED <<produced, delivered, settled>>
  PROVE  UNCHANGED Stream!vars
  BY DEF GivenUpAsBefore, Stream!vars

\* Requests rs end with o.
LEMMA Settles ==
  ASSUME NEW rs \in SUBSET Ids, NEW o \in Outcomes,
         \A r \in rs : /\ settled[r] = <<>>
                       /\ o = "result" /\ ~outgoing[r].cancelled =>
                            Len(delivered[r]) = produced[r],
         settled' = [r \in Ids |-> IF r \in rs THEN <<o>> ELSE settled[r]],
         UNCHANGED <<produced, delivered>>,
         outgoing \in [Ids -> Outgoing], outgoing' \in [Ids -> Outgoing],
         \/ GivenUpAsBefore
         \/ \A r \in Ids : outgoing'[r].cancelled = (r \in rs \/ outgoing[r].cancelled)
  PROVE  Stream!Next
<1>1. \A r \in Ids : outgoing[r].cancelled \in BOOLEAN /\ outgoing'[r].cancelled \in BOOLEAN
  BY DEF Outgoing
<1>2. \A r \in rs : /\ settled[r] = <<>>
                    /\ o = "result" /\ ~[id \in Ids |-> outgoing[id].cancelled][r] =>
                         Len(delivered[r]) = produced[r]
  OBVIOUS
<1>3. \/ UNCHANGED [id \in Ids |-> outgoing[id].cancelled]
      \/ [id \in Ids |-> outgoing[id].cancelled]' =
           [r \in Ids |-> r \in rs \/ [id \in Ids |-> outgoing[id].cancelled][r]]
  <2>1. CASE GivenUpAsBefore
    BY <2>1 DEF GivenUpAsBefore
  <2>2. CASE \A r \in Ids : outgoing'[r].cancelled = (r \in rs \/ outgoing[r].cancelled)
    BY <2>2
  <2>3. QED
    BY <2>1, <2>2
<1>4. Stream!Settle(rs, o)
  BY <1>2, <1>3 DEF Stream!Settle
<1>5. QED
  BY <1>4 DEF Stream!Next

\* One request ends with o.
LEMMA SettlesOne ==
  ASSUME NEW id \in Ids, NEW o \in Outcomes, settled \in [Ids -> Seq(Outcomes)], settled[id] = <<>>,
         o = "result" /\ ~outgoing[id].cancelled => Len(delivered[id]) = produced[id],
         settled' = [settled EXCEPT ![id] = Append(@, o)],
         UNCHANGED <<produced, delivered>>,
         outgoing \in [Ids -> Outgoing], outgoing' \in [Ids -> Outgoing], GivenUpAsBefore
  PROVE  Stream!Next /\ \A r \in Ids \ {id} : settled'[r] = settled[r]
<1>1. Append(settled[id], o) = <<o>>
  OBVIOUS
<1>2. settled' = [r \in Ids |-> IF r \in {id} THEN <<o>> ELSE settled[r]]
  BY <1>1
<1>3. Stream!Next
  <2>1. {id} \in SUBSET Ids
    OBVIOUS
  <2>2. \A r \in {id} : /\ settled[r] = <<>>
                        /\ o = "result" /\ ~outgoing[r].cancelled =>
                             Len(delivered[r]) = produced[r]
    OBVIOUS
  <2>3. QED
    BY <1>2, <2>1, <2>2, Settles, Zenon
<1>4. \A r \in Ids \ {id} : settled'[r] = settled[r]
  OBVIOUS
<1>5. QED
  BY <1>3, <1>4

-----------------------------------------------------------------------------
(* The client's calls *)

LEMMA ErasedKeeps ==
  \A e \in Outgoing : /\ ~Erased(e).live /\ Erased(e).cancelled = e.cancelled
                      /\ Erased(e).nextSeq = e.nextSeq
  BY DEF Erased, Outgoing

\* Closing an end fails what can still be answered.
LEMMA CloseClientRefines ==
  ASSUME IInv, IInv', ClientInv, CloseClient(outgoing), UNCHANGED <<nextId, delivered, produced>>
  PROVE  ClientInv' /\ [Stream!Next]_Stream!vars
<1> DEFINE rs == {id \in Ids : outgoing[id].live /\ outgoing[id].handled}
<1>1. /\ \A id \in Ids : outgoing'[id] = Erased(outgoing[id]) /\ outgoing[id] \in Outgoing
      /\ settled' = [id \in Ids |-> IF id \in rs THEN Append(settled[id], "closed") ELSE settled[id]]
  BY HistoriesTyped DEF CloseClient
<1>2. \A id \in rs : settled[id] = <<>> /\ id < nextId
  BY DEF ClientInv, PendingInv, IInv, IdsInv
<1>3. settled' = [id \in Ids |-> IF id \in rs THEN <<"closed">> ELSE settled[id]]
  <2>1. Append(<<>>, "closed") = <<"closed">>
    OBVIOUS
  <2>2. QED
    BY <1>1, <1>2, <2>1
<1>4. GivenUpAsBefore /\ \A id \in Ids : ~outgoing'[id].live
  BY <1>1, ErasedKeeps DEF GivenUpAsBefore
<1>5. Stream!Next
  <2>1. outgoing \in [Ids -> Outgoing] /\ outgoing' \in [Ids -> Outgoing] /\ "closed" \in Outcomes
    BY HistoriesTyped DEF IInv, TypeInv, TypeOK, Outcomes
  <2>2. rs \in SUBSET Ids
    OBVIOUS
  <2> HIDE DEF rs
  <2>3. QED
    BY <1>2, <1>3, <1>4, <2>1, <2>2, Settles
<1>6. FreshInv'
  <2>1. ASSUME NEW id \in Ids, id >= nextId
        PROVE  ~outgoing'[id].cancelled /\ settled'[id] = <<>> /\ delivered'[id] = <<>>
    <3>1. id \notin rs
      BY <1>2, <2>1, HistoriesTyped, IdsAreNumbers
    <3>2. QED
      BY <1>3, <1>4, <2>1, <3>1 DEF ClientInv, FreshInv, GivenUpAsBefore
  <2>2. QED
    BY <2>1 DEF FreshInv
<1>7. PendingInv'
  BY <1>4 DEF PendingInv
<1>8. QED
  BY <1>5, <1>6, <1>7 DEF ClientInv

\* A request of a closed endpoint fails at once; of an open one it is pending.
LEMMA IssueRefines ==
  ASSUME IInv, IInv', ClientInv, NEW known \in BOOLEAN, NEW byHand \in BOOLEAN,
         NEW idleLimit \in BOOLEAN, Issue(known, byHand, idleLimit)
  PROVE  ClientInv' /\ [Stream!Next]_Stream!vars
<1>1. PICK id \in Ids : id = nextId
  BY DEF Issue
<1>2. /\ nextId' = id + 1 /\ UNCHANGED <<delivered, produced>> /\ id \in Nat
      /\ \A r \in Ids : r \in Nat /\ (r >= nextId' => r >= nextId /\ r # id)
  BY <1>1, HistoriesTyped, IdsAreNumbers DEF Issue, hostVars
<1>3. /\ outgoing \in [Ids -> Outgoing] /\ outgoing' \in [Ids -> Outgoing]
      /\ settled \in [Ids -> Seq(Outcomes)] /\ "closed" \in Outcomes
  BY HistoriesTyped DEF IInv, TypeInv, TypeOK, Outcomes
<1>4. settled[id] = <<>> /\ ~outgoing[id].cancelled /\ delivered[id] = <<>> /\ ~outgoing[id].live
  BY <1>1, <1>2 DEF ClientInv, FreshInv, IInv, IdsInv
<1>5. CASE cState = "closed"
  <2>1. settled' = [settled EXCEPT ![id] = Append(@, "closed")] /\ outgoing' = outgoing
    BY <1>1, <1>5 DEF Issue
  <2>2. Stream!Next /\ \A r \in Ids \ {id} : settled'[r] = settled[r]
    BY <1>2, <1>3, <1>4, <2>1, SettlesOne DEF GivenUpAsBefore
  <2>3. FreshInv'
    BY <1>2, <2>1, <2>2 DEF ClientInv, FreshInv
  <2>4. PendingInv'
    BY <1>2, <1>4, <2>1, <2>2 DEF ClientInv, PendingInv
  <2>5. QED
    BY <2>2, <2>3, <2>4 DEF ClientInv
<1>6. CASE cState # "closed"
  <2>1. outgoing' = [outgoing EXCEPT ![id] = NewOutgoing(byHand, idleLimit)] /\ settled' = settled
    BY <1>1, <1>6 DEF Issue
  <2>2. /\ outgoing'[id].live /\ ~outgoing'[id].cancelled /\ outgoing'[id].handled
        /\ outgoing'[id].nextSeq = 0
        /\ \A r \in Ids \ {id} : outgoing'[r] = outgoing[r]
    BY <1>3, <2>1 DEF NewOutgoing
  <2>3. GivenUpAsBefore
    <3>1. outgoing[id].cancelled \in BOOLEAN /\ outgoing'[id].cancelled \in BOOLEAN
      BY <1>3 DEF Outgoing
    <3>2. QED
      BY <1>4, <2>2, <3>1 DEF GivenUpAsBefore
  <2>4. UNCHANGED Stream!vars
    BY <1>2, <2>1, <2>3, Stutters
  <2>5. FreshInv'
    BY <1>2, <2>1, <2>2 DEF ClientInv, FreshInv
  <2>6. PendingInv'
    <3>1. Len(delivered[id]) = 0
      BY <1>4
    <3>2. QED
      BY <1>2, <1>4, <2>1, <2>2, <3>1 DEF ClientInv, PendingInv
  <2>7. QED
    BY <2>4, <2>5, <2>6 DEF ClientInv
<1>7. QED
  BY <1>5, <1>6

\* A batch of credit is nothing the issuer sees.
LEMMA GrantingKeeps ==
  \A e \in Outgoing : e.consumed <= e.nextSeq =>
    /\ Granting(e).live = e.live /\ Granting(e).cancelled = e.cancelled
    /\ Granting(e).handled = e.handled /\ Granting(e).nextSeq = e.nextSeq
<1> TAKE e \in Outgoing
<1> HAVE e.consumed <= e.nextSeq
<1>1. DOMAIN e = {"live", "cancelled", "handled", "byHand", "idleLimit",
                  "nextSeq", "consumed", "granted"}
  BY DEF Outgoing
<1>2. \A n : /\ Granted(e, n).live = e.live /\ Granted(e, n).cancelled = e.cancelled
             /\ Granted(e, n).handled = e.handled /\ Granted(e, n).nextSeq = e.nextSeq
  BY <1>1 DEF Granted
<1>3. QED
  BY <1>2 DEF Granting

\* A change that leaves what the issuer sees of each request as it was.
SameForIssuer ==
  /\ \A id \in Ids : /\ outgoing'[id].live = outgoing[id].live
                     /\ outgoing'[id].cancelled = outgoing[id].cancelled
                     /\ outgoing'[id].handled = outgoing[id].handled
                     /\ outgoing'[id].nextSeq = outgoing[id].nextSeq
  /\ UNCHANGED <<delivered, settled>>

LEMMA SameRefines ==
  ASSUME IInv, IInv', ClientInv, SameForIssuer, nextId <= nextId', UNCHANGED produced
  PROVE  ClientInv' /\ [Stream!Next]_Stream!vars
<1>1. UNCHANGED Stream!vars
  BY Stutters DEF SameForIssuer, GivenUpAsBefore
<1>2. \A id \in Ids : id >= nextId' => id >= nextId
  <2>1. nextId \in Nat /\ nextId' \in Nat
    BY BoundsAssumption DEF IInv, TypeInv, TypeOK
  <2>2. QED
    BY <2>1, IdsAreNumbers
<1>3. FreshInv'
  BY <1>2 DEF ClientInv, FreshInv, SameForIssuer
<1>4. PendingInv'
  BY DEF ClientInv, PendingInv, SameForIssuer
<1>5. QED
  BY <1>1, <1>3, <1>4 DEF ClientInv

LEMMA CancelRefines ==
  ASSUME IInv, IInv', ClientInv, NEW id \in Ids, Cancel(id)
  PROVE  ClientInv' /\ [Stream!Next]_Stream!vars
<1>1. /\ outgoing \in [Ids -> Outgoing] /\ outgoing[id].live
      /\ outgoing' = [outgoing EXCEPT ![id].cancelled = TRUE]
      /\ UNCHANGED <<nextId, delivered, settled, produced>>
  BY HistoriesTyped DEF Cancel, hostVars
<1>2. /\ outgoing'[id].cancelled /\ outgoing'[id].live = outgoing[id].live
      /\ outgoing'[id].handled = outgoing[id].handled
      /\ \A r \in Ids \ {id} : outgoing'[r] = outgoing[r]
      /\ outgoing'[id].cancelled = TRUE
  BY <1>1 DEF Outgoing
<1>3. Stream!Abandon(id)
  BY <1>1, <1>2 DEF Stream!Abandon
<1>4. Stream!Next
  BY <1>3 DEF Stream!Next
<1>5. id < nextId /\ nextId \in Nat /\ id \in Nat
  BY <1>1, HistoriesTyped, IdsAreNumbers DEF IInv, IdsInv
<1>6. FreshInv'
  BY <1>1, <1>2, <1>5 DEF ClientInv, FreshInv
<1>7. PendingInv'
  BY <1>1, <1>2 DEF ClientInv, PendingInv
<1>8. QED
  BY <1>4, <1>6, <1>7 DEF ClientInv

LEMMA ExpireIdleRefines ==
  ASSUME IInv, IInv', ClientInv, NEW ids \in SUBSET Ids, ExpireIdle(ids)
  PROVE  ClientInv' /\ [Stream!Next]_Stream!vars
<1>1. /\ outgoing \in [Ids -> Outgoing] /\ outgoing' \in [Ids -> Outgoing] /\ "timedout" \in Outcomes
      /\ \A id \in Ids : outgoing'[id] = IF id \in ids THEN Expired(outgoing[id]) ELSE outgoing[id]
      /\ settled' = [id \in Ids |-> IF id \in ids THEN Append(settled[id], "timedout") ELSE settled[id]]
      /\ UNCHANGED <<nextId, delivered, produced>>
  BY HistoriesTyped DEF ExpireIdle, hostVars, IInv, TypeInv, TypeOK, Outcomes
<1>2. \A id \in ids : outgoing[id].live /\ ~outgoing[id].cancelled /\ settled[id] = <<>> /\ id < nextId
  BY DEF ExpireIdle, MayExpire, ClientInv, PendingInv, IInv, IdsInv
<1>3. \A id \in ids : /\ outgoing'[id].cancelled = TRUE /\ ~outgoing'[id].handled
                      /\ outgoing'[id].live = outgoing[id].live
  BY <1>1 DEF Expired, Outgoing
<1>4. settled' = [id \in Ids |-> IF id \in ids THEN <<"timedout">> ELSE settled[id]]
  <2>1. Append(<<>>, "timedout") = <<"timedout">>
    OBVIOUS
  <2>2. QED
    BY <1>1, <1>2, <2>1
<1>5. \A id \in Ids : outgoing'[id].cancelled = (id \in ids \/ outgoing[id].cancelled)
  <2> TAKE id \in Ids
  <2>1. outgoing[id].cancelled \in BOOLEAN
    BY <1>1 DEF Outgoing
  <2>2. QED
    BY <1>1, <1>3, <2>1
<1>6. Stream!Next
  BY <1>1, <1>2, <1>4, <1>5, Settles
<1>7. FreshInv'
  <2>1. \A id \in Ids : id >= nextId => id \notin ids
    BY <1>2, HistoriesTyped, IdsAreNumbers
  <2>2. QED
    BY <1>1, <1>4, <2>1 DEF ClientInv, FreshInv
<1>8. PendingInv'
  BY <1>1, <1>3, <1>4 DEF ClientInv, PendingInv
<1>9. QED
  BY <1>6, <1>7, <1>8 DEF ClientInv

\* The client's calls, and the loss of its end of the connection.
LEMMA ClientCallsRefine ==
  ASSUME IInv, IInv', ClientInv,
         \/ \E id \in Ids : ReserveRequestIds(id)
         \/ \E known, byHand, idleLimit \in BOOLEAN : Issue(known, byHand, idleLimit)
         \/ \E id \in Ids, n \in 1 .. MaxChunks : Grant(id, n)
         \/ \E id \in Ids : Cancel(id)
         \/ \E ids \in SUBSET Ids : ExpireIdle(ids)
         \/ ClientClose \/ ClientDestroy
  PROVE  ClientInv' /\ [Stream!Next]_Stream!vars
<1>1. ASSUME NEW id \in Ids, ReserveRequestIds(id)
      PROVE  ClientInv' /\ [Stream!Next]_Stream!vars
  <2>1. nextId <= nextId'
    BY <1>1, HistoriesTyped, IdsAreNumbers DEF ReserveRequestIds, MaxOf
  <2>2. SameForIssuer /\ UNCHANGED produced
    BY <1>1 DEF ReserveRequestIds, SameForIssuer, hostVars
  <2>3. QED
    BY <2>1, <2>2, SameRefines
<1>2. ASSUME NEW id \in Ids, NEW n \in 1 .. MaxChunks, Grant(id, n)
      PROVE  ClientInv' /\ [Stream!Next]_Stream!vars
  <2> DEFINE e == [outgoing[id] EXCEPT !.granted = @ + n]
  <2>1. /\ outgoing' = [outgoing EXCEPT ![id] = Granting(e)]
        /\ UNCHANGED <<nextId, delivered, settled, produced>>
    BY <1>2 DEF Grant, hostVars
  <2>2. /\ outgoing \in [Ids -> Outgoing] /\ outgoing[id] \in Outgoing /\ n \in Nat
        /\ outgoing[id].consumed <= outgoing[id].nextSeq /\ outgoing[id].granted \in Nat
    BY HistoriesTyped, BoundsAssumption DEF IInv, TypeInv, ConsumedHeard, Outgoing
  <2>3. /\ e \in Outgoing /\ e.consumed <= e.nextSeq /\ e.live = outgoing[id].live
        /\ e.cancelled = outgoing[id].cancelled /\ e.handled = outgoing[id].handled
        /\ e.nextSeq = outgoing[id].nextSeq
    BY <2>2 DEF Outgoing
  <2> HIDE DEF e
  <2>4. SameForIssuer
    BY <2>1, <2>2, <2>3, GrantingKeeps DEF SameForIssuer
  <2>5. nextId <= nextId'
    BY <2>1, HistoriesTyped
  <2>6. QED
    BY <2>1, <2>4, <2>5, SameRefines
<1>3. CASE ClientClose
  BY <1>3, CloseClientRefines DEF ClientClose, hostVars
<1>4. CASE ClientDestroy
  <2>1. /\ \A id \in Ids : outgoing'[id] = Erased(outgoing[id]) /\ outgoing[id] \in Outgoing
        /\ UNCHANGED <<nextId, delivered, settled, produced>>
    BY <1>4, HistoriesTyped DEF ClientDestroy, hostVars
  <2>2. GivenUpAsBefore /\ \A id \in Ids : ~outgoing'[id].live
    BY <2>1, ErasedKeeps DEF GivenUpAsBefore
  <2>3. UNCHANGED Stream!vars
    BY <2>1, <2>2, Stutters
  <2>4. ClientInv'
    BY <2>1, <2>2 DEF ClientInv, FreshInv, PendingInv, GivenUpAsBefore
  <2>5. QED
    BY <2>3, <2>4
<1>5. QED
  BY <1>1, <1>2, <1>3, <1>4, IssueRefines, CancelRefines, ExpireIdleRefines

-----------------------------------------------------------------------------
(* What the client hears *)

\* The frame at the head of the channel is one the client expects.
LEMMA HeardFrame ==
  ASSUME IInv, IInv', ClientReceive, NEW m, m = Head(toClient), NEW id, id = m.id
  PROVE  /\ m \in ClientMsg /\ id \in Ids /\ 1 \in DOMAIN toClient /\ toClient[1] = m
         /\ outgoing[id].live /\ (m.kind = "chunk" => m.seq = outgoing[id].nextSeq)
         /\ \/ m.kind = "chunk" /\ \E cancels \in BOOLEAN : ReceiveChunk(m, cancels)
            \/ m.kind = "response" /\ ReceiveResponse(m)
         /\ toClient' = Tail(toClient)
         /\ UNCHANGED <<nextId, cState, taken, hostVars>>
<1>1. toClient \in Seq(ClientMsg) /\ toClient # <<>> /\ ~fault'
  BY HistoriesTyped DEF ClientReceive, IInv
<1>2. m \in ClientMsg /\ 1 \in DOMAIN toClient /\ toClient[1] = m
  BY <1>1
<1>3. id \in Ids /\ (m.kind = "chunk" \/ m.kind = "response")
  BY <1>2 DEF ClientMsg, ChunkMsg, ResponseMsg
<1>4. ClientExpects(m)
  BY <1>1 DEF ClientReceive, ClientProtocolError
<1>5. QED
  BY <1>2, <1>3, <1>4 DEF ClientReceive, ClientExpects

\* A chunk's entry, whether or not its handler gives up or credit goes back.
LEMMA HeardEntry ==
  ASSUME IInv, NEW m \in ClientMsg, m.id \in Ids, NEW cancels \in BOOLEAN, ReceiveChunk(m, cancels)
  PROVE  /\ outgoing'[m.id].live = outgoing[m.id].live
         /\ outgoing'[m.id].handled = outgoing[m.id].handled
         /\ outgoing'[m.id].nextSeq = outgoing[m.id].nextSeq + 1
         /\ outgoing'[m.id].cancelled = (cancels \/ outgoing[m.id].cancelled)
         /\ \A r \in Ids \ {m.id} : outgoing'[r] = outgoing[r]
<1> DEFINE e     == outgoing[m.id]
           heard == [e EXCEPT !.nextSeq = @ + 1, !.consumed = @ + 1]
           gone  == [heard EXCEPT !.cancelled = TRUE]
<1>1. /\ outgoing \in [Ids -> Outgoing] /\ e \in Outgoing /\ e.consumed <= e.nextSeq
  BY HistoriesTyped DEF IInv, TypeInv, ConsumedHeard
<1>2. /\ heard \in Outgoing /\ heard.nextSeq = e.nextSeq + 1 /\ heard.live = e.live
      /\ heard.handled = e.handled /\ heard.cancelled = e.cancelled
      /\ heard.consumed <= heard.nextSeq
  <2>1. /\ e.nextSeq \in Nat /\ e.consumed \in Nat /\ e.nextSeq + 1 \in Nat /\ e.consumed + 1 \in Nat
    BY <1>1 DEF Outgoing
  <2>2. /\ heard \in Outgoing /\ heard.nextSeq = e.nextSeq + 1 /\ heard.live = e.live
        /\ heard.handled = e.handled /\ heard.cancelled = e.cancelled
        /\ heard.consumed = e.consumed + 1
    BY <1>1, <2>1 DEF Outgoing
  <2>3. QED
    BY <1>1, <2>1, <2>2
<1>3. \/ outgoing' = [outgoing EXCEPT ![m.id] = gone] /\ cancels
      \/ outgoing' = [outgoing EXCEPT ![m.id] = heard] /\ ~cancels
      \/ outgoing' = [outgoing EXCEPT ![m.id] = Granting(heard)] /\ ~cancels
  BY DEF ReceiveChunk
<1>4. /\ gone.nextSeq = heard.nextSeq /\ gone.live = heard.live
      /\ gone.handled = heard.handled /\ gone.cancelled = TRUE
  BY <1>2 DEF Outgoing
<1> HIDE DEF heard, gone
<1>5. e.cancelled \in BOOLEAN
  BY <1>1 DEF Outgoing
<1>6. PICK f : /\ outgoing' = [outgoing EXCEPT ![m.id] = f]
               /\ \/ f = gone /\ cancels
                  \/ f \in {heard, Granting(heard)} /\ ~cancels
  BY <1>3
<1>7. /\ f.live = e.live /\ f.handled = e.handled /\ f.nextSeq = e.nextSeq + 1
      /\ f.cancelled = (cancels \/ e.cancelled)
  <2>1. /\ Granting(heard).live = heard.live /\ Granting(heard).cancelled = heard.cancelled
        /\ Granting(heard).handled = heard.handled /\ Granting(heard).nextSeq = heard.nextSeq
    BY <1>2, GrantingKeeps
  <2>2. CASE cancels
    BY <1>2, <1>4, <1>6, <2>2
  <2>3. CASE ~cancels
    BY <1>2, <1>5, <1>6, <2>1, <2>3
  <2>4. QED
    BY <2>2, <2>3
<1>8. QED
  BY <1>1, <1>6, <1>7

\* A chunk that is heard is delivered, unless the request was given up.
LEMMA ChunkRefines ==
  ASSUME IInv, IInv', SInv, ClientReceive, NEW m, m = Head(toClient), NEW id, id = m.id,
         m.kind = "chunk", NEW cancels \in BOOLEAN, ReceiveChunk(m, cancels)
  PROVE  ClientInv' /\ [Stream!Next]_Stream!vars
<1>1. /\ m \in ClientMsg /\ id \in Ids /\ 1 \in DOMAIN toClient /\ toClient[1] = m
      /\ outgoing[id].live /\ m.seq = outgoing[id].nextSeq
      /\ UNCHANGED <<nextId, hostVars>>
  BY HeardFrame
<1>2. /\ outgoing \in [Ids -> Outgoing] /\ outgoing' \in [Ids -> Outgoing]
      /\ delivered \in [Ids -> Seq(Nat)] /\ produced \in [Ids -> Nat]
      /\ nextId \in Nat /\ id \in Nat
  BY <1>1, HistoriesTyped, IdsAreNumbers DEF IInv, TypeInv, TypeOK
<1>3. /\ outgoing'[id].live = outgoing[id].live /\ outgoing'[id].handled = outgoing[id].handled
      /\ outgoing'[id].nextSeq = outgoing[id].nextSeq + 1
      /\ outgoing'[id].cancelled = (cancels \/ outgoing[id].cancelled)
      /\ \A r \in Ids \ {id} : outgoing'[r] = outgoing[r]
  BY <1>1, HeardEntry
<1>4. /\ outgoing[id].nextSeq \in Nat /\ Len(delivered[id]) \in Nat /\ produced[id] \in Nat
      /\ outgoing[id].cancelled \in BOOLEAN /\ outgoing[id].handled \in BOOLEAN
  BY <1>1, <1>2 DEF Outgoing
<1>5. settled' = settled /\ produced' = produced /\ nextId' = nextId /\ id < nextId
  BY <1>1 DEF ReceiveChunk, hostVars, IInv, IdsInv
<1>6. CASE ~outgoing[id].cancelled /\ outgoing[id].handled
  <2>1. settled[id] = <<>> /\ Len(delivered[id]) = outgoing[id].nextSeq
    BY <1>1, <1>6 DEF SInv, ClientInv, PendingInv
  <2>2. outgoing[id].nextSeq < produced[id]
    <3>1. m.seq < incoming[id].nextSeq
      BY <1>1 DEF IInv, ChunksInv
    <3>2. incoming[id].nextSeq \in Nat /\ Len(incoming[id].queued) \in Nat
      BY <1>1, HistoriesTyped DEF Incoming
    <3>3. incoming[id].nextSeq + Len(incoming[id].queued) <= produced[id]
      BY <1>1 DEF SInv, ProducedInv, Emitted
    <3>4. QED
      BY <1>1, <1>4, <3>1, <3>2, <3>3
  <2>3. m.data = Len(delivered[id]) + 1
    BY <1>1, <2>1 DEF SInv, ChannelInv, NumberedInv
  <2>4. delivered' = [delivered EXCEPT ![id] = Append(@, Len(@) + 1)]
    BY <1>6, <2>3 DEF ReceiveChunk
  <2>5. \/ [r \in Ids |-> outgoing'[r].cancelled] = [r \in Ids |-> outgoing[r].cancelled]
        \/ [r \in Ids |-> outgoing'[r].cancelled] =
             [[r \in Ids |-> outgoing[r].cancelled] EXCEPT ![id] = TRUE]
    <3>1. CASE cancels
      <4>1. outgoing'[id].cancelled = TRUE
        BY <1>3, <3>1
      <4>2. QED
        BY <1>3, <4>1
    <3>2. CASE ~cancels
      <4>1. outgoing'[id].cancelled = outgoing[id].cancelled
        BY <1>3, <1>4, <3>2
      <4>2. QED
        BY <1>3, <4>1
    <3>3. QED
      BY <3>1, <3>2
  <2>6. Stream!Deliver(id)
    <3>1. ~[r \in Ids |-> outgoing[r].cancelled][id]
      BY <1>1, <1>6
    <3>2. Len(delivered[id]) < produced[id]
      BY <2>1, <2>2
    <3>3. QED
      BY <1>5, <2>1, <2>4, <2>5, <3>1, <3>2 DEF Stream!Deliver
  <2>7. Stream!Next
    BY <1>1, <2>6 DEF Stream!Next
  <2>8. /\ Len(delivered'[id]) = outgoing[id].nextSeq + 1
        /\ \A r \in Ids \ {id} : delivered'[r] = delivered[r]
    BY <1>1, <1>2, <2>1, <2>4
  <2>9. FreshInv'
    BY <1>2, <1>3, <1>5, <2>8 DEF SInv, ClientInv, FreshInv
  <2>10. PendingInv'
    <3> SUFFICES ASSUME NEW r \in Ids, outgoing'[r].live
                 PROVE  /\ outgoing'[r].handled => settled'[r] = <<>>
                        /\ ~outgoing'[r].cancelled =>
                             outgoing'[r].handled /\ Len(delivered'[r]) = outgoing'[r].nextSeq
      BY DEF PendingInv
    <3>1. CASE r = id
      BY <1>3, <1>5, <1>6, <2>1, <2>8, <3>1
    <3>2. CASE r # id
      BY <1>3, <1>5, <2>8, <3>2 DEF SInv, ClientInv, PendingInv
    <3>3. QED
      BY <3>1, <3>2
  <2>11. QED
    BY <2>7, <2>9, <2>10 DEF ClientInv
<1>7. CASE ~(~outgoing[id].cancelled /\ outgoing[id].handled)
  <2>1. delivered' = delivered /\ ~cancels
    BY <1>7 DEF ReceiveChunk
  <2>2. outgoing[id].cancelled = TRUE
    BY <1>1, <1>4, <1>7 DEF SInv, ClientInv, PendingInv
  <2>3. outgoing'[id].cancelled = TRUE
    BY <1>3, <2>2
  <2>4. UNCHANGED Stream!vars
    BY <1>3, <1>5, <2>1, <2>2, <2>3, Stutters DEF GivenUpAsBefore
  <2>5. FreshInv'
    BY <1>2, <1>3, <1>5, <2>1 DEF SInv, ClientInv, FreshInv
  <2>6. PendingInv'
    BY <1>3, <1>5, <2>1, <2>3 DEF SInv, ClientInv, PendingInv
  <2>7. QED
    BY <2>4, <2>5, <2>6 DEF ClientInv
<1>8. QED
  BY <1>6, <1>7

\* A response settles its request, unless it expired.
LEMMA ResponseRefines ==
  ASSUME IInv, IInv', SInv, ClientReceive, NEW m, m = Head(toClient), NEW id, id = m.id,
         m.kind = "response", ReceiveResponse(m)
  PROVE  ClientInv' /\ [Stream!Next]_Stream!vars
<1>1. /\ m \in ClientMsg /\ id \in Ids /\ 1 \in DOMAIN toClient /\ toClient[1] = m
      /\ outgoing[id].live /\ UNCHANGED <<nextId, hostVars>>
  BY HeardFrame
<1>2. /\ outgoing \in [Ids -> Outgoing] /\ outgoing' \in [Ids -> Outgoing]
      /\ settled \in [Ids -> Seq(Outcomes)] /\ nextId \in Nat /\ id \in Nat
      /\ m.answer \in Outcomes
  <2>1. m.answer \in Outcomes
    BY <1>1 DEF ClientMsg, ChunkMsg, ResponseMsg, Outcomes
  <2>2. QED
    BY <1>1, <2>1, HistoriesTyped, IdsAreNumbers DEF IInv, TypeInv, TypeOK
<1>3. /\ outgoing' = [outgoing EXCEPT ![id] = Erased(@)]
      /\ delivered' = delivered /\ produced' = produced /\ nextId' = nextId /\ id < nextId
  BY <1>1 DEF ReceiveResponse, hostVars, IInv, IdsInv
<1>4. /\ ~outgoing'[id].live /\ \A r \in Ids \ {id} : outgoing'[r] = outgoing[r]
      /\ GivenUpAsBefore
  BY <1>1, <1>2, <1>3, ErasedKeeps DEF GivenUpAsBefore
<1>5. CASE outgoing[id].handled
  <2>1. settled' = [settled EXCEPT ![id] = Append(@, m.answer)] /\ settled[id] = <<>>
    BY <1>1, <1>5 DEF ReceiveResponse, SInv, ClientInv, PendingInv
  <2>2. ASSUME m.answer = "result", ~outgoing[id].cancelled
        PROVE  Len(delivered[id]) = produced[id]
    <3>1. Len(delivered[id]) = outgoing[id].nextSeq
      BY <1>1, <2>2 DEF SInv, ClientInv, PendingInv
    <3>2. /\ produced[id] = incoming[id].nextSeq
          /\ outgoing[id].nextSeq <= incoming[id].nextSeq
          /\ outgoing[id].nextSeq < incoming[id].nextSeq => \E j \in DOMAIN toClient : j < 1
      BY <1>1, <2>2 DEF SInv, ChannelInv, CompleteInv
    <3>3. \A j \in DOMAIN toClient : j \in Nat /\ 1 <= j
      BY HistoriesTyped, Frames
    <3>4. outgoing[id].nextSeq \in Nat /\ incoming[id].nextSeq \in Nat
      BY <1>1, HistoriesTyped DEF Outgoing, Incoming
    <3>5. QED
      BY <3>1, <3>2, <3>3, <3>4
  <2>3. Stream!Next /\ \A r \in Ids \ {id} : settled'[r] = settled[r]
    BY <1>1, <1>2, <1>3, <1>4, <2>1, <2>2, SettlesOne
  <2>4. FreshInv'
    BY <1>2, <1>3, <1>4, <2>3 DEF SInv, ClientInv, FreshInv, GivenUpAsBefore
  <2>5. PendingInv'
    BY <1>3, <1>4, <2>3 DEF SInv, ClientInv, PendingInv
  <2>6. QED
    BY <2>3, <2>4, <2>5 DEF ClientInv
<1>6. CASE ~outgoing[id].handled
  <2>1. settled' = settled
    BY <1>1, <1>6 DEF ReceiveResponse
  <2>2. UNCHANGED Stream!vars
    BY <1>3, <1>4, <2>1, Stutters
  <2>3. FreshInv'
    BY <1>2, <1>3, <1>4, <2>1 DEF SInv, ClientInv, FreshInv, GivenUpAsBefore
  <2>4. PendingInv'
    BY <1>3, <1>4, <2>1 DEF SInv, ClientInv, PendingInv
  <2>5. QED
    BY <2>2, <2>3, <2>4 DEF ClientInv
<1>7. QED
  BY <1>5, <1>6

LEMMA ClientReceiveRefines ==
  ASSUME IInv, IInv', SInv, ClientReceive
  PROVE  ClientInv' /\ [Stream!Next]_Stream!vars
<1>1. PICK m : m = Head(toClient)
  OBVIOUS
<1>2. \/ m.kind = "chunk" /\ \E cancels \in BOOLEAN : ReceiveChunk(m, cancels)
      \/ m.kind = "response" /\ ReceiveResponse(m)
  BY <1>1, HeardFrame
<1>3. QED
  BY <1>1, <1>2, ChunkRefines, ResponseRefines

-----------------------------------------------------------------------------
(* What the host does *)

LEMMA StoppedEmitted ==
  ASSUME NEW e \in Incoming, NEW p \in Nat, Emitted(e, p)
  PROVE  Emitted(Stopped(e), p)
<1>1. /\ ~Stopped(e).live /\ Stopped(e).queued = <<>> /\ Stopped(e).nextSeq = e.nextSeq
  BY DEF Stopped, Incoming
<1>2. e.nextSeq \in Nat /\ Len(e.queued) \in Nat
  BY DEF Incoming
<1>3. QED
  BY <1>1, <1>2 DEF Emitted

\* A chunk that goes out, or joins the queue.
LEMMA ChunkEmitted ==
  ASSUME NEW e \in Incoming, NEW p \in Nat, Emitted(e, p), e.live
  PROVE  /\ MayGoOut(e) => Emitted(Charged(e, 1), p + 1) /\ Charged(e, 1).nextSeq = e.nextSeq + 1
         /\ Emitted([e EXCEPT !.queued = Append(@, p + 1)], p + 1)
<1>1. /\ e.nextSeq \in Nat /\ e.queued \in Seq(Nat) /\ Len(e.queued) \in Nat
      /\ p = e.nextSeq + Len(e.queued)
      /\ DOMAIN e = {"live", "credit", "nextSeq", "queued", "response"}
  BY DEF Incoming, Emitted
<1>2. ASSUME MayGoOut(e)
      PROVE  Emitted(Charged(e, 1), p + 1) /\ Charged(e, 1).nextSeq = e.nextSeq + 1
  <2>1. e.queued = <<>> /\ Len(e.queued) = 0
    BY <1>2 DEF MayGoOut
  <2>2. Charged(e, 1).queued = e.queued /\ Charged(e, 1).nextSeq = e.nextSeq + 1
    BY <1>1 DEF Charged
  <2>3. QED
    BY <1>1, <2>1, <2>2 DEF Emitted
<1>3. Emitted([e EXCEPT !.queued = Append(@, p + 1)], p + 1)
  <2> DEFINE q == Append(e.queued, p + 1)
             f == [e EXCEPT !.queued = q]
  <2>1. f.queued = q /\ f.nextSeq = e.nextSeq
    BY <1>1
  <2>2. /\ Len(q) = Len(e.queued) + 1
        /\ \A i \in DOMAIN q : \/ i \in DOMAIN e.queued /\ q[i] = e.queued[i]
                               \/ i = Len(e.queued) + 1 /\ q[i] = p + 1
    BY <1>1
  <2> HIDE DEF q, f
  <2>3. \A i \in DOMAIN q : q[i] = e.nextSeq + i
    BY <1>1, <2>2 DEF Emitted
  <2>4. QED
    BY <1>1, <2>1, <2>2, <2>3 DEF Emitted, f, q
<1>4. QED
  BY <1>2, <1>3

\* What is left of a queue when k of it are gone.
LEMMA RestOfQueue ==
  ASSUME NEW q \in Seq(Nat), NEW k \in 0 .. Len(q), NEW rest, rest = SubSeq(q, k + 1, Len(q))
  PROVE  /\ rest \in Seq(Nat) /\ Len(rest) = Len(q) - k
         /\ \A i \in DOMAIN rest : i \in Nat /\ i + k \in DOMAIN q /\ rest[i] = q[i + k]
<1>1. Len(q) \in Nat /\ k \in Nat /\ k + 1 \in Int /\ Len(q) \in Int /\ k <= Len(q)
  OBVIOUS
<1>2. \A i \in k + 1 .. Len(q) : q[i] \in Nat
  BY <1>1
<1>3. /\ rest \in Seq(Nat)
      /\ Len(rest) = IF k + 1 <= Len(q) THEN Len(q) - (k + 1) + 1 ELSE 0
      /\ \A i \in 1 .. Len(q) - (k + 1) + 1 : rest[i] = q[k + 1 + i - 1]
  BY <1>1, <1>2, SubSeqProperties
<1>4. Len(rest) = Len(q) - k
  BY <1>1, <1>3
<1>5. ASSUME NEW i \in DOMAIN rest
      PROVE  i \in Nat /\ i + k \in DOMAIN q /\ rest[i] = q[i + k]
  <2>1. DOMAIN rest = 1 .. Len(rest) /\ DOMAIN q = 1 .. Len(q)
    BY <1>3
  <2>2. i \in 1 .. Len(q) - k /\ i \in Nat
    <3>1. i \in 1 .. Len(rest)
      BY <2>1
    <3>2. i \in 1 .. Len(q) - k
      BY <1>4, <3>1
    <3>3. QED
      BY <3>2
  <2>3. i \in 1 .. Len(q) - (k + 1) + 1 /\ i + k \in 1 .. Len(q) /\ k + 1 + i - 1 = i + k
    BY <1>1, <2>2
  <2>4. QED
    BY <1>3, <2>1, <2>2, <2>3
<1>6. QED
  BY <1>3, <1>4, <1>5

LEMMA FlushedEntry ==
  \A e \in Incoming : \A n \in Nat, k \in Nat : \A rest : \A f : f = Flushed(e, n, k, rest) =>
    /\ f.live = e.live /\ f.nextSeq = e.nextSeq + k
    /\ f.queued = rest /\ f.response = e.response
<1> TAKE e \in Incoming
<1> TAKE n \in Nat, k \in Nat
<1> TAKE rest
<1> DEFINE c    == [e EXCEPT !.credit = @ + n]
           d    == Charged(c, k)
           left == [d EXCEPT !.queued = rest]
<1>1. /\ DOMAIN c = {"live", "credit", "nextSeq", "queued", "response"}
      /\ c.live = e.live /\ c.nextSeq = e.nextSeq /\ c.response = e.response
  BY DEF Incoming
<1> HIDE DEF c
<1>2. /\ DOMAIN d = {"live", "credit", "nextSeq", "queued", "response"}
      /\ d.live = c.live /\ d.nextSeq = c.nextSeq + k /\ d.response = c.response
  BY <1>1 DEF Charged
<1> HIDE DEF d
<1>3. left.live = d.live /\ left.nextSeq = d.nextSeq /\ left.queued = rest /\ left.response = d.response
  BY <1>2
<1>4. left = Flushed(e, n, k, rest)
  BY DEF Flushed, d, c
<1> HIDE DEF left
<1>5. QED
  BY <1>1, <1>2, <1>3, <1>4

LEMMA RestNumbered ==
  ASSUME NEW a \in Nat, NEW k \in Nat, NEW q, NEW rest,
         \A i \in DOMAIN rest : i \in Nat /\ i + k \in DOMAIN q /\ rest[i] = q[i + k],
         \A i \in DOMAIN q : q[i] = a + i
  PROVE  \A i \in DOMAIN rest : rest[i] = (a + k) + i
<1> TAKE i \in DOMAIN rest
<1>1. i \in Nat /\ rest[i] = a + (i + k)
  OBVIOUS
<1>2. QED
  BY <1>1

\* A flush sends the head of the queue and leaves the rest of it.
LEMMA FlushEmitted ==
  ASSUME NEW e \in Incoming, NEW p \in Nat, Emitted(e, p), e.live, NEW n \in Nat, NEW k \in Nat,
         NEW rest, rest \in Seq(Nat), Len(rest) = Len(e.queued) - k,
         \A i \in DOMAIN rest : i \in Nat /\ i + k \in DOMAIN e.queued /\ rest[i] = e.queued[i + k],
         NEW left, left = Flushed(e, n, k, rest)
  PROVE  /\ Emitted(left, p) /\ left.nextSeq = e.nextSeq + k
         /\ rest = <<>> => p = e.nextSeq + k
<1>1. left.nextSeq = e.nextSeq + k /\ left.queued = rest
  BY FlushedEntry
<1>2. /\ e.nextSeq \in Nat /\ Len(e.queued) \in Nat /\ p = e.nextSeq + Len(e.queued)
      /\ \A i \in DOMAIN e.queued : e.queued[i] = e.nextSeq + i
  BY DEF Incoming, Emitted
<1>3. left.nextSeq + Len(rest) = p
  BY <1>1, <1>2
<1>4. \A i \in DOMAIN rest : rest[i] = left.nextSeq + i
  <2>1. \A i \in DOMAIN rest : rest[i] = (e.nextSeq + k) + i
    <3>1. e.nextSeq \in Nat /\ k \in Nat
      BY <1>2
    <3>2. \A i \in DOMAIN e.queued : e.queued[i] = e.nextSeq + i
      BY <1>2
    <3> DEFINE q == e.queued
               a == e.nextSeq
    <3>3. \A i \in DOMAIN q : q[i] = a + i
      BY <3>2
    <3>4. /\ a \in Nat
          /\ \A i \in DOMAIN rest : i \in Nat /\ i + k \in DOMAIN q /\ rest[i] = q[i + k]
      BY <3>1
    <3> HIDE DEF q, a
    <3>5. \A i \in DOMAIN rest : rest[i] = (a + k) + i
      BY <3>1, <3>3, <3>4, RestNumbered
    <3>6. QED
      BY <3>5 DEF a
  <2>2. QED
    BY <1>1, <2>1
<1>5. rest = <<>> => p = e.nextSeq + k
  <2>1. rest = <<>> => Len(rest) = 0
    OBVIOUS
  <2>2. QED
    BY <1>2, <2>1
<1>6. Emitted(left, p)
  BY <1>1, <1>3, <1>4 DEF Emitted
<1>7. QED
  BY <1>1, <1>5, <1>6

\* The host takes a frame off its channel.
LEMMA FrameTaken ==
  ASSUME IInv, IInv', HostReceive
  PROVE  \E m \in HostMsg :
           /\ m.id \in Ids /\ m.id \in Nat /\ HostExpects(m)
           /\ UNCHANGED <<produced, outgoing, cState>>
           /\ \/ m.kind = "request" /\ ReceiveRequest(m)
              \/ m.kind = "credit" /\ ReceiveCredit(m) /\ UNCHANGED lastPeerId
              \/ m.kind = "cancel" /\ ReceiveCancel(m) /\ UNCHANGED lastPeerId
<1>1. PICK m : m = Head(toHost)
  OBVIOUS
<1>2. m \in HostMsg
  BY <1>1, HistoriesTyped DEF HostReceive
<1>3. m.id \in Ids /\ m.kind \in {"request", "credit", "cancel"}
  BY <1>2 DEF HostMsg, RequestMsg, CancelMsg, CreditMsg
<1>4. HostExpects(m) /\ UNCHANGED <<produced, outgoing, cState>>
  BY <1>1 DEF HostReceive, HostProtocolError, clientVars, IInv
<1>5. \/ m.kind = "request" /\ ReceiveRequest(m)
      \/ m.kind = "credit" /\ ReceiveCredit(m) /\ UNCHANGED lastPeerId
      \/ m.kind = "cancel" /\ ReceiveCancel(m) /\ UNCHANGED lastPeerId
  BY <1>1, <1>3, <1>4 DEF HostReceive
<1>6. QED
  BY <1>2, <1>3, <1>4, <1>5, IdsAreNumbers

\* What the host does keeps what a handler produced in order.
LEMMA EmittedStep ==
  ASSUME IInv, IInv', ProducedInv, [Next]_vars
  PROVE  ProducedInv'
<1>1. /\ incoming \in [Ids -> Incoming] /\ incoming' \in [Ids -> Incoming] /\ ~fault'
      /\ produced \in [Ids -> Nat] /\ lastPeerId \in Nat /\ lastPeerId' \in Nat
      /\ toHost \in Seq(HostMsg)
  BY HistoriesTyped, BoundsAssumption DEF IInv, TypeInv, TypeOK
<1>2. SUFFICES ASSUME NEW id \in Ids
               PROVE  /\ id > lastPeerId' => produced'[id] = 0
                      /\ Emitted(incoming'[id], produced'[id])
  BY <1>2 DEF ProducedInv, Emitted
<1>3. /\ id > lastPeerId => produced[id] = 0
      /\ Emitted(incoming[id], produced[id])
      /\ incoming[id] \in Incoming /\ produced[id] \in Nat /\ id \in Nat
      /\ incoming[id].live => id <= lastPeerId
  BY <1>1, IdsAreNumbers DEF ProducedInv, IInv, IdsInv
<1>4. CASE UNCHANGED hostVars
  BY <1>3, <1>4 DEF hostVars
<1>5. CASE HostClose
  <2>1. incoming'[id] = Stopped(incoming[id]) /\ UNCHANGED <<produced, lastPeerId>>
    BY <1>5 DEF HostClose, CloseHost
  <2>2. QED
    BY <1>3, <2>1, StoppedEmitted
<1>6. CASE HostReceive
  <2>1. PICK m \in HostMsg :
          /\ m.id \in Ids /\ m.id \in Nat /\ HostExpects(m)
          /\ UNCHANGED <<produced, outgoing, cState>>
          /\ \/ m.kind = "request" /\ ReceiveRequest(m)
             \/ m.kind = "credit" /\ ReceiveCredit(m) /\ UNCHANGED lastPeerId
             \/ m.kind = "cancel" /\ ReceiveCancel(m) /\ UNCHANGED lastPeerId
    BY <1>6, FrameTaken
  <2>2. CASE m.kind = "request" /\ ReceiveRequest(m)
    <3>1. m.id > lastPeerId /\ lastPeerId' = m.id
      BY <2>1, <2>2 DEF HostExpects, ReceiveRequest
    <3>2. incoming'[id] = incoming[id] \/ (id = m.id /\ incoming'[id] = NewIncoming)
      BY <1>1, <2>1, <2>2 DEF ReceiveRequest
    <3>3. id = m.id => produced[id] = 0
      BY <1>3, <3>1
    <3>4. Emitted(NewIncoming, 0)
      BY DEF Emitted, NewIncoming
    <3>5. id > lastPeerId' => id > lastPeerId
      BY <1>1, <1>3, <2>1, <3>1
    <3>6. Emitted(incoming'[id], produced'[id])
      <4>1. CASE incoming'[id] = incoming[id]
        BY <1>3, <2>1, <4>1
      <4>2. CASE id = m.id /\ incoming'[id] = NewIncoming
        BY <2>1, <3>3, <3>4, <4>2
      <4>3. QED
        BY <3>2, <4>1, <4>2
    <3>7. QED
      BY <1>3, <2>1, <3>5, <3>6
  <2>3. CASE m.kind = "credit" /\ ReceiveCredit(m) /\ UNCHANGED lastPeerId
    <3>1. CASE m.id # id \/ ~incoming[m.id].live
      <4>1. incoming'[id] = incoming[id]
        BY <1>1, <2>1, <2>3, <3>1 DEF ReceiveCredit
      <4>2. QED
        BY <1>3, <2>1, <2>3, <4>1
    <3>2. CASE m.id = id /\ incoming[id].live
      <4> DEFINE e    == incoming[id]
                 k    == MinOf(e.credit + m.n, Len(e.queued))
                 rest == SubSeq(e.queued, k + 1, Len(e.queued))
                 left == Flushed(e, m.n, k, rest)
                 last == rest = <<>> /\ e.response # "none"
      <4>1. incoming' = [incoming EXCEPT ![id] = IF last THEN Stopped(left) ELSE left]
        BY <2>3, <3>2 DEF ReceiveCredit, Flushed
      <4>2. m.n \in Nat
        BY <2>1, <2>3 DEF HostMsg, RequestMsg, CancelMsg, CreditMsg
      <4>3. /\ e \in Incoming /\ e.live /\ e.queued \in Seq(Nat) /\ e.credit \in Nat
            /\ k \in 0 .. Len(e.queued) /\ k \in Nat
        <5>1. e \in Incoming /\ e.live /\ e.queued \in Seq(Nat) /\ e.credit \in Nat
          BY <1>3, <3>2 DEF Incoming
        <5>2. e.credit + m.n \in Nat /\ Len(e.queued) \in Nat
          BY <4>2, <5>1
        <5> HIDE DEF e
        <5>3. k \in 0 .. Len(e.queued) /\ k \in Nat
          BY <5>2 DEF MinOf
        <5>4. QED
          BY <5>1, <5>3
      <4> HIDE DEF e, k
      <4>4. /\ rest \in Seq(Nat) /\ Len(rest) = Len(e.queued) - k
            /\ \A i \in DOMAIN rest : i \in Nat /\ i + k \in DOMAIN e.queued /\ rest[i] = e.queued[i + k]
        BY <4>3, RestOfQueue
      <4> HIDE DEF rest
      <4>5. left = Flushed(e, m.n, k, rest)
        OBVIOUS
      <4>6. Emitted(e, produced[id])
        BY <1>3 DEF e
      <4> HIDE DEF left
      <4>7. Emitted(left, produced[id])
        BY <1>3, <4>2, <4>3, <4>4, <4>5, <4>6, FlushEmitted
      <4>8. incoming'[id] = IF last THEN Stopped(left) ELSE left
        BY <1>1, <4>1
      <4>9. Emitted(incoming'[id], produced[id])
        <5>1. CASE ~last
          BY <4>7, <4>8, <5>1
        <5>2. CASE last
          <6>1. incoming'[id] = Stopped(left)
            BY <4>8, <5>2
          <6>2. left \in Incoming
            <7>1. left = [Charged([e EXCEPT !.credit = @ + m.n], k) EXCEPT !.queued = rest]
              BY <4>5 DEF Flushed
            <7>2. k <= e.credit + m.n
              BY <4>2, <4>3 DEF k, MinOf, e
            <7>3. Charged([e EXCEPT !.credit = @ + m.n], k) \in Incoming
              BY <4>2, <4>3, <7>2, ChargedTyped
            <7>4. QED
              BY <4>4, <7>1, <7>3 DEF Incoming
          <6>3. QED
            BY <1>3, <4>7, <6>1, <6>2, StoppedEmitted
        <5>3. QED
          BY <5>1, <5>2
      <4>10. QED
        BY <1>3, <2>1, <2>3, <4>9
    <3>3. QED
      BY <3>1, <3>2
  <2>4. CASE m.kind = "cancel" /\ ReceiveCancel(m) /\ UNCHANGED lastPeerId
    <3>1. incoming'[id] \in {incoming[id], Stopped(incoming[id])}
      BY <1>1, <2>1, <2>4 DEF ReceiveCancel
    <3>2. QED
      BY <1>3, <2>1, <2>4, <3>1, StoppedEmitted
  <2>5. QED
    BY <2>1, <2>2, <2>3, <2>4
<1>7. ASSUME NEW r \in Ids, NEW paces \in BOOLEAN, HostChunk(r, paces)
      PROVE  (id > lastPeerId' => produced'[id] = 0) /\ Emitted(incoming'[id], produced'[id])
  <2>1. /\ incoming[r].live /\ lastPeerId' = lastPeerId
        /\ produced' = [produced EXCEPT ![r] = produced[r] + 1]
    BY <1>7 DEF HostChunk
  <2>2. CASE r # id
    <3>1. incoming'[id] = incoming[id] /\ produced'[id] = produced[id]
      BY <1>1, <1>7, <2>1, <2>2 DEF HostChunk
    <3>2. QED
      BY <1>3, <2>1, <3>1
  <2>3. CASE r = id
    <3> DEFINE e    == incoming[id]
               data == produced[id] + 1
    <3>1. produced'[id] = data /\ ~(id > lastPeerId)
      BY <1>1, <1>3, <2>1, <2>3
    <3>2. \/ MayGoOut(e) /\ incoming'[id] = Charged(e, 1)
          \/ incoming'[id] = [e EXCEPT !.queued = Append(@, data)]
      BY <1>1, <1>7, <2>3 DEF HostChunk
    <3>3. e \in Incoming /\ produced[id] \in Nat /\ Emitted(e, produced[id]) /\ e.live
      BY <1>3, <2>1, <2>3
    <3>4. /\ MayGoOut(e) => Emitted(Charged(e, 1), data)
          /\ Emitted([e EXCEPT !.queued = Append(@, data)], data)
      BY <3>3, ChunkEmitted
    <3>5. QED
      BY <2>1, <3>1, <3>2, <3>4
  <2>4. QED
    BY <2>2, <2>3
<1>8. ASSUME NEW r \in Ids, NEW answer \in {"result", "error"}, HostAnswer(r, answer)
      PROVE  (id > lastPeerId' => produced'[id] = 0) /\ Emitted(incoming'[id], produced'[id])
  <2>1. produced' = produced /\ lastPeerId' = lastPeerId
    BY <1>8 DEF HostAnswer
  <2>2. \/ incoming'[id] \in {incoming[id], Stopped(incoming[id])}
        \/ incoming'[id] = [incoming[id] EXCEPT !.response = answer]
    BY <1>1, <1>8 DEF HostAnswer
  <2>3. Emitted([incoming[id] EXCEPT !.response = answer], produced[id])
    <3> DEFINE held == [incoming[id] EXCEPT !.response = answer]
    <3>1. /\ held.live = incoming[id].live /\ held.nextSeq = incoming[id].nextSeq
          /\ held.queued = incoming[id].queued
      BY <1>3 DEF Incoming
    <3> HIDE DEF held
    <3>2. Emitted(held, produced[id])
      BY <1>3, <3>1 DEF Emitted
    <3>3. QED
      BY <3>2 DEF held
  <2>4. QED
    BY <1>3, <2>1, <2>2, <2>3, StoppedEmitted
<1>9. QED
  BY <1>4, <1>5, <1>6, <1>7, <1>8 DEF Next, vars, ReserveRequestIds, Issue, Grant, Cancel, ExpireIdle,
     ClientClose, ClientDestroy, ClientReceive, ClientProtocolError, hostVars

\* The issuer sees nothing of what the host does, but that a chunk was produced.
LEMMA HostRefines ==
  ASSUME IInv, IInv', ClientInv,
         \/ HostClose \/ HostReceive
         \/ \E id \in Ids, paces \in BOOLEAN : HostChunk(id, paces)
         \/ \E id \in Ids, answer \in {"result", "error"} : HostAnswer(id, answer)
  PROVE  ClientInv' /\ [Stream!Next]_Stream!vars
<1>1. UNCHANGED <<nextId, outgoing, delivered, settled>>
  BY DEF HostClose, HostReceive, HostProtocolError, HostChunk, HostAnswer, clientVars
<1>2. ClientInv'
  BY <1>1 DEF ClientInv, FreshInv, PendingInv
<1>3. UNCHANGED produced => [Stream!Next]_Stream!vars
  BY <1>1, Stutters DEF GivenUpAsBefore
<1>4. ASSUME NEW id \in Ids, NEW paces \in BOOLEAN, HostChunk(id, paces)
      PROVE  [Stream!Next]_Stream!vars
  <2>1. produced' = [produced EXCEPT ![id] = @ + 1]
    BY <1>4 DEF HostChunk
  <2>2. Stream!Produce(id)
    BY <1>1, <2>1 DEF Stream!Produce
  <2>3. QED
    BY <2>2 DEF Stream!Next
<1>5. HostClose \/ HostReceive => [Stream!Next]_Stream!vars
  BY <1>3 DEF HostClose, HostReceive, HostProtocolError
<1>6. ASSUME NEW id \in Ids, NEW answer \in {"result", "error"}, HostAnswer(id, answer)
      PROVE  [Stream!Next]_Stream!vars
  <2>1. UNCHANGED produced
    BY <1>6 DEF HostAnswer
  <2>2. QED
    BY <1>3, <2>1
<1>7. QED
  BY <1>2, <1>4, <1>5, <1>6

-----------------------------------------------------------------------------
(* What is in flight to the client *)

\* A channel that at most lost frames at its end, while nothing changed for the
\* requests whose response is in flight.
LEMMA ChannelKept ==
  ASSUME IInv, IInv', ChannelInv,
         \A i \in DOMAIN toClient' : /\ i \in DOMAIN toClient /\ toClient'[i] = toClient[i]
                                     /\ \A j \in 1..i : j \in DOMAIN toClient',
         \A i \in DOMAIN toClient' : toClient[i].kind = "response" =>
           /\ outgoing'[toClient[i].id].nextSeq = outgoing[toClient[i].id].nextSeq
           /\ incoming'[toClient[i].id].nextSeq = incoming[toClient[i].id].nextSeq
           /\ produced'[toClient[i].id] = produced[toClient[i].id]
  PROVE  ChannelInv'
<1>1. NumberedInv'
  BY DEF ChannelInv, NumberedInv
<1>2. ASSUME NEW i \in DOMAIN toClient', toClient'[i].kind = "response", toClient'[i].answer = "result"
      PROVE  LET id == toClient'[i].id IN
               /\ produced'[id] = incoming'[id].nextSeq
               /\ outgoing'[id].nextSeq <= incoming'[id].nextSeq
               /\ outgoing'[id].nextSeq < incoming'[id].nextSeq =>
                    \E j \in DOMAIN toClient' :
                      /\ j < i /\ toClient'[j].kind = "chunk" /\ toClient'[j].id = id
                      /\ toClient'[j].seq = incoming'[id].nextSeq - 1
  <2> DEFINE id == toClient'[i].id
  <2>1. i \in DOMAIN toClient /\ toClient'[i] = toClient[i]
    OBVIOUS
  <2>2. /\ produced[id] = incoming[id].nextSeq
        /\ outgoing[id].nextSeq <= incoming[id].nextSeq
        /\ outgoing[id].nextSeq < incoming[id].nextSeq =>
             \E j \in DOMAIN toClient :
               /\ j < i /\ toClient[j].kind = "chunk" /\ toClient[j].id = id
               /\ toClient[j].seq = incoming[id].nextSeq - 1
    BY <1>2, <2>1 DEF ChannelInv, CompleteInv
  <2>3. /\ outgoing'[id].nextSeq = outgoing[id].nextSeq
        /\ incoming'[id].nextSeq = incoming[id].nextSeq
        /\ produced'[id] = produced[id]
    BY <1>2, <2>1
  <2>4. \A j \in DOMAIN toClient : j < i => j \in DOMAIN toClient' /\ toClient'[j] = toClient[j]
    <3>1. \A j \in DOMAIN toClient : j \in Nat /\ 1 <= j
      BY HistoriesTyped, Frames
    <3>2. i \in Nat
      BY <2>1, <3>1
    <3>3. \A j \in DOMAIN toClient : j < i => j \in 1..i
      BY <3>1, <3>2
    <3>4. QED
      BY <3>3
  <2>5. QED
    BY <2>2, <2>3, <2>4
<1>3. CompleteInv'
  BY <1>2 DEF CompleteInv
<1>4. QED
  BY <1>1, <1>3 DEF ChannelInv

\* The host sends for a live request: numbered chunks, and a result only once
\* everything that was produced is sent.
Sends(id, k, ms, answers) ==
  /\ incoming[id].live
  /\ Frame(ms, id, k, answers) /\ toClient' = SentToClient(ms)
  /\ UNCHANGED <<outgoing, cState>>
  /\ incoming'[id].nextSeq = incoming[id].nextSeq + k
  /\ \A r \in Ids \ {id} : incoming'[r] = incoming[r] /\ produced'[r] = produced[r]
  /\ \A i \in DOMAIN ms : ms[i].kind = "chunk" => ms[i].data = ms[i].seq + 1
  /\ \A i \in DOMAIN ms : ms[i].kind = "response" /\ ms[i].answer = "result" =>
       produced'[id] = incoming[id].nextSeq + k

LEMMA ChannelSent ==
  ASSUME IInv, IInv', ChannelInv, NEW id \in Ids, NEW k \in Nat, NEW ms, NEW answers,
         Sends(id, k, ms, answers)
  PROVE  ChannelInv'
<1>1. /\ toClient \in Seq(ClientMsg) /\ ms \in Seq(ClientMsg)
      /\ Len(toClient) \in Nat
      /\ outgoing[id].nextSeq \in Nat /\ incoming[id].nextSeq \in Nat
  <2>1. outgoing[id] \in Outgoing /\ incoming[id] \in Incoming /\ toClient \in Seq(ClientMsg)
    BY HistoriesTyped
  <2>2. outgoing[id].nextSeq \in Nat /\ incoming[id].nextSeq \in Nat
    BY <2>1 DEF Outgoing, Incoming
  <2>3. ms \in Seq(ClientMsg)
    BY DEF Sends, Frame
  <2>4. QED
    BY <2>1, <2>2, <2>3
<1>2. /\ \A i \in DOMAIN toClient' :
           \/ i \in DOMAIN toClient /\ toClient'[i] = toClient[i]
           \/ /\ cState = "open"
              /\ i - Len(toClient) \in DOMAIN ms /\ toClient'[i] = ms[i - Len(toClient)]
              /\ \A j \in DOMAIN toClient : j < i
              /\ \A j \in DOMAIN ms : /\ Len(toClient) + j \in DOMAIN toClient'
                                      /\ toClient'[Len(toClient) + j] = ms[j]
      /\ \A i \in DOMAIN toClient : i \in DOMAIN toClient' /\ toClient'[i] = toClient[i]
  <2>1. CASE cState = "open" /\ hState = "open"
    <3>1. toClient' = toClient \o ms
      BY <2>1 DEF Sends, SentToClient
    <3> HIDE DEF Sends
    <3>2. /\ \A i \in DOMAIN (toClient \o ms) :
                \/ i \in DOMAIN toClient /\ (toClient \o ms)[i] = toClient[i]
                \/ /\ i - Len(toClient) \in DOMAIN ms /\ (toClient \o ms)[i] = ms[i - Len(toClient)]
                   /\ \A j \in DOMAIN toClient : j < i
          /\ \A i \in DOMAIN toClient :
                i \in DOMAIN (toClient \o ms) /\ (toClient \o ms)[i] = toClient[i]
          /\ \A i \in DOMAIN ms : /\ Len(toClient) + i \in DOMAIN (toClient \o ms)
                                  /\ (toClient \o ms)[Len(toClient) + i] = ms[i]
      BY <1>1, Appended
    <3>3. QED
      BY <2>1, <3>1, <3>2, Zenon
  <2>2. CASE ~(cState = "open" /\ hState = "open")
    BY <2>2 DEF Sends, SentToClient
  <2>3. QED
    BY <2>1, <2>2
<1> USE DEF Sends
<1>3. /\ \A i \in DOMAIN toClient : i \in Nat /\ toClient[i].id \in Ids
      /\ \A i \in DOMAIN ms : i \in Nat
  BY <1>1, Frames
<1>4. NumberedInv'
  <2> SUFFICES ASSUME NEW i \in DOMAIN toClient', toClient'[i].kind = "chunk"
               PROVE  toClient'[i].data = toClient'[i].seq + 1
    BY DEF NumberedInv
  <2>1. CASE i \in DOMAIN toClient /\ toClient'[i] = toClient[i]
    BY <2>1 DEF ChannelInv, NumberedInv
  <2>2. CASE i - Len(toClient) \in DOMAIN ms /\ toClient'[i] = ms[i - Len(toClient)]
    BY <2>2
  <2>3. QED
    BY <1>2, <2>1, <2>2
<1>5. ASSUME NEW i \in DOMAIN toClient', toClient'[i].kind = "response", toClient'[i].answer = "result",
             NEW r, r = toClient'[i].id
      PROVE  /\ produced'[r] = incoming'[r].nextSeq
             /\ outgoing'[r].nextSeq <= incoming'[r].nextSeq
             /\ outgoing'[r].nextSeq < incoming'[r].nextSeq =>
                  \E j \in DOMAIN toClient' :
                    /\ j < i /\ toClient'[j].kind = "chunk" /\ toClient'[j].id = r
                    /\ toClient'[j].seq = incoming'[r].nextSeq - 1
  <2>1. CASE i \in DOMAIN toClient /\ toClient'[i] = toClient[i]
    <3>1. r \in Ids /\ ~incoming[r].live
      BY <1>3, <1>5, <2>1 DEF IInv, ResponsesInv
    <3>2. r \in Ids \ {id}
      BY <3>1
    <3>3. incoming'[r] = incoming[r] /\ produced'[r] = produced[r] /\ outgoing'[r] = outgoing[r]
      BY <3>2
    <3>4. /\ produced[r] = incoming[r].nextSeq
          /\ outgoing[r].nextSeq <= incoming[r].nextSeq
          /\ outgoing[r].nextSeq < incoming[r].nextSeq =>
               \E j \in DOMAIN toClient :
                 /\ j < i /\ toClient[j].kind = "chunk" /\ toClient[j].id = r
                 /\ toClient[j].seq = incoming[r].nextSeq - 1
      BY <1>5, <2>1 DEF ChannelInv, CompleteInv
    <3>5. QED
      BY <1>2, <3>3, <3>4
  <2>2. CASE /\ cState = "open"
             /\ i - Len(toClient) \in DOMAIN ms /\ toClient'[i] = ms[i - Len(toClient)]
             /\ \A j \in DOMAIN toClient : j < i
             /\ \A j \in DOMAIN ms : /\ Len(toClient) + j \in DOMAIN toClient'
                                     /\ toClient'[Len(toClient) + j] = ms[j]
    <3> DEFINE a == i - Len(toClient)
    <3>1. /\ a \in DOMAIN ms /\ ms[a].kind = "response" /\ ms[a].answer = "result"
          /\ a \in Nat /\ i = Len(toClient) + a
      <4>1. a \in DOMAIN ms /\ ms[a].kind = "response" /\ ms[a].answer = "result"
        BY <1>5, <2>2
      <4>2. a \in Nat
        BY <1>3, <4>1
      <4>3. DOMAIN toClient' = 1..Len(toClient')
        BY DEF IInv, TypeInv, TypeOK
      <4>4. i = Len(toClient) + a
        BY <1>1, <4>3
      <4>5. QED
        BY <4>1, <4>2, <4>4
    <3> HIDE DEF a
    <3>2. r = id /\ a = k + 1
      BY <1>5, <2>2, <3>1 DEF Frame, a
    <3>3. produced'[id] = incoming[id].nextSeq + k
      BY <3>1
    <3>4. /\ outgoing[id].nextSeq <= incoming[id].nextSeq
          /\ incoming[id].nextSeq > outgoing[id].nextSeq =>
               \E j \in DOMAIN toClient :
                 /\ toClient[j].kind = "chunk" /\ toClient[j].id = id
                 /\ toClient[j].seq = incoming[id].nextSeq - 1
      BY <2>2 DEF IInv, ChunksInv
    <3>5. outgoing'[id] = outgoing[id]
      OBVIOUS
    <3>6. outgoing[id].nextSeq <= incoming[id].nextSeq + k
      BY <1>1, <3>4
    <3>7. CASE k = 0
      <4>1. incoming[id].nextSeq + k = incoming[id].nextSeq
        BY <1>1, <3>7
      <4>2. outgoing[id].nextSeq < incoming[id].nextSeq =>
              \E j \in DOMAIN toClient' :
                /\ j < i /\ toClient'[j].kind = "chunk" /\ toClient'[j].id = id
                /\ toClient'[j].seq = incoming[id].nextSeq - 1
        BY <1>1, <1>2, <2>2, <3>4
      <4>3. QED
        BY <3>2, <3>3, <3>4, <3>5, <4>1, <4>2
    <3>8. CASE k > 0
      <4>1. k \in DOMAIN ms
        BY <3>8 DEF Frame
      <4>2. ms[k].kind = "chunk" /\ ms[k].id = id /\ ms[k].seq = incoming[id].nextSeq + k - 1
        BY <3>8, <4>1 DEF Frame
      <4>3. Len(toClient) + k \in DOMAIN toClient' /\ toClient'[Len(toClient) + k] = ms[k]
        BY <2>2, <4>1
      <4>4. Len(toClient) + k < i
        BY <1>1, <3>1, <3>2
      <4>5. PICK n : n = incoming[id].nextSeq + k
        OBVIOUS
      <4>6. /\ produced'[r] = n /\ incoming'[r].nextSeq = n
            /\ outgoing'[r].nextSeq <= n
        BY <3>2, <3>3, <3>5, <3>6, <4>5
      <4>7. ms[k].kind = "chunk" /\ ms[k].id = r /\ ms[k].seq = n - 1
        <5>1. ms[k].kind = "chunk" /\ ms[k].id = r
          BY <3>2, <4>2
        <5>2. n - 1 = incoming[id].nextSeq + k - 1
          <6>1. \A x, y \in Nat : (x + y) - 1 = x + (y - 1)
            OBVIOUS
          <6>2. QED
            BY <1>1, <4>5, <6>1
        <5>3. QED
          BY <4>2, <5>1, <5>2
      <4>8. \E j \in DOMAIN toClient' :
              /\ j < i /\ toClient'[j].kind = "chunk" /\ toClient'[j].id = r
              /\ toClient'[j].seq = n - 1
        BY <4>3, <4>4, <4>7, Zenon
      <4>9. QED
        BY <4>6, <4>8, Zenon
    <3>9. QED
      BY <3>7, <3>8
  <2>3. QED
    BY <1>2, <2>1, <2>2
<1>6. CompleteInv'
  BY <1>5 DEF CompleteInv
<1>7. QED
  BY <1>4, <1>6 DEF ChannelInv

\* The client's calls count no chunk.
LEMMA ClientCallsCount ==
  ASSUME IInv,
         \/ \E id \in Ids : ReserveRequestIds(id)
         \/ \E known, byHand, idleLimit \in BOOLEAN : Issue(known, byHand, idleLimit)
         \/ \E id \in Ids, n \in 1 .. MaxChunks : Grant(id, n)
         \/ \E id \in Ids : Cancel(id)
         \/ \E ids \in SUBSET Ids : ExpireIdle(ids)
         \/ ClientClose \/ ClientDestroy
  PROVE  /\ UNCHANGED <<incoming, produced>>
         /\ \/ toClient' = <<>>
            \/ /\ toClient' = toClient
               /\ \A r \in Ids : outgoing[r].live => outgoing'[r].nextSeq = outgoing[r].nextSeq
<1>1. UNCHANGED <<incoming, produced>>
  BY DEF ReserveRequestIds, Issue, Grant, Cancel, ExpireIdle, ClientClose, ClientDestroy, hostVars
<1>2. outgoing \in [Ids -> Outgoing] /\ nextId \in Nat
  BY HistoriesTyped
<1>3. ASSUME NEW id \in Ids, ReserveRequestIds(id)
      PROVE  toClient' = toClient /\ outgoing' = outgoing
  BY <1>3 DEF ReserveRequestIds
<1>4. ASSUME NEW known \in BOOLEAN, NEW byHand \in BOOLEAN, NEW idleLimit \in BOOLEAN,
             Issue(known, byHand, idleLimit)
      PROVE  /\ toClient' = toClient
             /\ \A r \in Ids : outgoing[r].live => outgoing'[r].nextSeq = outgoing[r].nextSeq
  <2>1. \A r \in Ids : outgoing[r].live => r # nextId
    <3>1. \A r \in Ids : r \in Nat /\ (outgoing[r].live => r < nextId)
      BY IdsAreNumbers DEF IInv, IdsInv
    <3>2. QED
      BY <1>2, <3>1
  <2>2. toClient' = toClient /\ \A r \in Ids : r # nextId => outgoing'[r] = outgoing[r]
    BY <1>2, <1>4 DEF Issue
  <2>3. QED
    BY <2>1, <2>2
<1>5. ASSUME NEW id \in Ids, NEW n \in 1 .. MaxChunks, Grant(id, n)
      PROVE  /\ toClient' = toClient
             /\ \A r \in Ids : outgoing'[r].nextSeq = outgoing[r].nextSeq
  <2> DEFINE e == [outgoing[id] EXCEPT !.granted = @ + n]
  <2>1. toClient' = toClient /\ outgoing' = [outgoing EXCEPT ![id] = Granting(e)]
    BY <1>5 DEF Grant
  <2>2. /\ outgoing[id] \in Outgoing /\ n \in Nat /\ outgoing[id].granted \in Nat
        /\ outgoing[id].consumed <= outgoing[id].nextSeq
    BY <1>2, BoundsAssumption DEF IInv, TypeInv, ConsumedHeard, Outgoing
  <2>3. e \in Outgoing /\ e.consumed <= e.nextSeq /\ e.nextSeq = outgoing[id].nextSeq
    BY <2>2 DEF Outgoing
  <2> HIDE DEF e
  <2>4. Granting(e).nextSeq = outgoing[id].nextSeq
    BY <2>3, GrantingKeeps
  <2>5. QED
    BY <1>2, <2>1, <2>4
<1>6. ASSUME NEW id \in Ids, Cancel(id)
      PROVE  /\ toClient' = toClient
             /\ \A r \in Ids : outgoing'[r].nextSeq = outgoing[r].nextSeq
  <2>1. toClient' = toClient /\ outgoing' = [outgoing EXCEPT ![id].cancelled = TRUE]
    BY <1>6 DEF Cancel
  <2>2. QED
    BY <1>2, <2>1 DEF Outgoing
<1>7. ASSUME NEW ids \in SUBSET Ids, ExpireIdle(ids)
      PROVE  /\ toClient' = toClient
             /\ \A r \in Ids : outgoing'[r].nextSeq = outgoing[r].nextSeq
  <2>1. /\ toClient' = toClient
        /\ \A r \in Ids : outgoing'[r] \in {outgoing[r], Expired(outgoing[r])}
    BY <1>7 DEF ExpireIdle
  <2>2. \A e \in Outgoing : Expired(e).nextSeq = e.nextSeq
    BY DEF Expired, Outgoing
  <2>3. QED
    BY <1>2, <2>1, <2>2
<1>8. ClientClose \/ ClientDestroy => toClient' = <<>>
  BY DEF ClientClose, ClientDestroy, CloseClient
<1>9. QED
  BY <1>1, <1>3, <1>4, <1>5, <1>6, <1>7, <1>8

LEMMA ChannelCalls ==
  ASSUME IInv, IInv', SInv,
         \/ \E id \in Ids : ReserveRequestIds(id)
         \/ \E known, byHand, idleLimit \in BOOLEAN : Issue(known, byHand, idleLimit)
         \/ \E id \in Ids, n \in 1 .. MaxChunks : Grant(id, n)
         \/ \E id \in Ids : Cancel(id)
         \/ \E ids \in SUBSET Ids : ExpireIdle(ids)
         \/ ClientClose \/ ClientDestroy
  PROVE  ChannelInv'
<1>1. UNCHANGED <<incoming, produced>>
  BY ClientCallsCount
<1>2. CASE toClient' = <<>>
  <2>1. DOMAIN toClient' = {}
    BY <1>2
  <2>2. QED
    BY <2>1 DEF ChannelInv, NumberedInv, CompleteInv
<1>3. CASE /\ toClient' = toClient
           /\ \A r \in Ids : outgoing[r].live => outgoing'[r].nextSeq = outgoing[r].nextSeq
  <2>1. \A i \in DOMAIN toClient : /\ i \in Nat /\ toClient[i].id \in Ids /\ outgoing[toClient[i].id].live
                                   /\ \A j \in 1..i : j \in DOMAIN toClient
    <3>1. \A i \in DOMAIN toClient : i \in Nat /\ toClient[i].id \in Ids
      BY HistoriesTyped, Frames
    <3>2. \A i \in DOMAIN toClient : \A j \in 1..i : j \in DOMAIN toClient
      <4>1. DOMAIN toClient = 1..Len(toClient) /\ Len(toClient) \in Nat
        BY HistoriesTyped
      <4>2. QED
        BY <4>1
    <3>3. \A i \in DOMAIN toClient : outgoing[toClient[i].id].live
      BY DEF IInv, ResponsesInv
    <3>4. QED
      BY <3>1, <3>2, <3>3
  <2>2. ChannelInv
    BY DEF SInv
  <2>3. QED
    BY <1>1, <1>3, <2>1, <2>2, ChannelKept
<1>4. QED
  BY <1>2, <1>3, ClientCallsCount

\* The frame that is heard leaves the channel; a chunk is counted.
LEMMA ChannelHeard ==
  ASSUME IInv, IInv', SInv, ClientReceive
  PROVE  ChannelInv'
<1>1. PICK m : m = Head(toClient)
  OBVIOUS
<1>2. PICK id : id = m.id
  OBVIOUS
<1>3. /\ m \in ClientMsg /\ id \in Ids /\ 1 \in DOMAIN toClient /\ toClient[1] = m
      /\ m.kind = "chunk" => m.seq = outgoing[id].nextSeq
      /\ \/ m.kind = "chunk" /\ \E cancels \in BOOLEAN : ReceiveChunk(m, cancels)
         \/ m.kind = "response" /\ ReceiveResponse(m)
      /\ toClient' = Tail(toClient)
      /\ UNCHANGED <<incoming, produced>>
  BY <1>1, <1>2, HeardFrame DEF hostVars
<1>4. /\ \A r \in Ids : /\ outgoing[r].nextSeq \in Nat /\ incoming[r].nextSeq \in Nat
      /\ \A i \in DOMAIN toClient : i \in Nat /\ 1 <= i /\ toClient[i].id \in Ids
      /\ \A i \in DOMAIN toClient' : i \in Nat /\ 1 <= i
  BY HistoriesTyped, Frames DEF Outgoing, Incoming, IInv, TypeInv, TypeOK
<1>5. /\ \A i \in DOMAIN toClient' : i + 1 \in DOMAIN toClient /\ toClient'[i] = toClient[i + 1]
      /\ \A i \in DOMAIN toClient : i # 1 => i - 1 \in DOMAIN toClient' /\ toClient'[i - 1] = toClient[i]
  <2>1. toClient \in Seq(ClientMsg) /\ toClient # <<>>
    BY HistoriesTyped DEF ClientReceive
  <2>2. QED
    BY <1>3, <2>1
<1>6. \A r \in Ids : outgoing'[r].nextSeq = IF r = id /\ m.kind = "chunk" THEN outgoing[r].nextSeq + 1
                                            ELSE outgoing[r].nextSeq
  <2>1. CASE m.kind = "chunk"
    <3>1. PICK cancels \in BOOLEAN : ReceiveChunk(m, cancels)
      BY <1>3, <2>1
    <3>2. /\ outgoing'[m.id].nextSeq = outgoing[m.id].nextSeq + 1
          /\ \A r \in Ids \ {m.id} : outgoing'[r] = outgoing[r]
      BY <1>2, <1>3, <3>1, HeardEntry
    <3>3. QED
      BY <1>2, <2>1, <3>2
  <2>2. CASE m.kind # "chunk"
    <3>1. outgoing' = [outgoing EXCEPT ![id] = Erased(@)]
      BY <1>2, <1>3, <2>2 DEF ReceiveResponse
    <3>2. outgoing \in [Ids -> Outgoing]
      BY HistoriesTyped
    <3>3. QED
      BY <2>2, <3>1, <3>2, ErasedKeeps
  <2>3. QED
    BY <2>1, <2>2
<1>7. NumberedInv'
  BY <1>5 DEF SInv, ChannelInv, NumberedInv
<1>8. ASSUME NEW i \in DOMAIN toClient', toClient'[i].kind = "response", toClient'[i].answer = "result",
             NEW r, r = toClient'[i].id
      PROVE  /\ produced'[r] = incoming'[r].nextSeq
             /\ outgoing'[r].nextSeq <= incoming'[r].nextSeq
             /\ outgoing'[r].nextSeq < incoming'[r].nextSeq =>
                  \E j \in DOMAIN toClient' :
                    /\ j < i /\ toClient'[j].kind = "chunk" /\ toClient'[j].id = r
                    /\ toClient'[j].seq = incoming'[r].nextSeq - 1
  <2>1. /\ i + 1 \in DOMAIN toClient /\ toClient'[i] = toClient[i + 1] /\ i \in Nat
        /\ r \in Ids /\ r = toClient[i + 1].id
    BY <1>4, <1>5, <1>8
  <2>2. /\ produced[r] = incoming[r].nextSeq
        /\ outgoing[r].nextSeq <= incoming[r].nextSeq
        /\ outgoing[r].nextSeq < incoming[r].nextSeq =>
             \E j \in DOMAIN toClient :
               /\ j < i + 1 /\ toClient[j].kind = "chunk" /\ toClient[j].id = r
               /\ toClient[j].seq = incoming[r].nextSeq - 1
    BY <1>8, <2>1 DEF SInv, ChannelInv, CompleteInv
  <2>3. /\ produced'[r] = produced[r] /\ incoming'[r].nextSeq = incoming[r].nextSeq
    BY <1>3
  <2>4. outgoing'[r].nextSeq <= incoming[r].nextSeq
    <3>1. CASE r = id /\ m.kind = "chunk"
      <4>1. m.seq < incoming[r].nextSeq
        BY <1>2, <1>3, <3>1 DEF IInv, ChunksInv
      <4>2. QED
        BY <1>3, <1>4, <1>6, <2>1, <3>1, <4>1
    <3>2. CASE ~(r = id /\ m.kind = "chunk")
      BY <1>6, <2>1, <2>2, <3>2
    <3>3. QED
      BY <3>1, <3>2
  <2>5. ASSUME outgoing'[r].nextSeq < incoming[r].nextSeq
        PROVE  \E j \in DOMAIN toClient' :
                 /\ j < i /\ toClient'[j].kind = "chunk" /\ toClient'[j].id = r
                 /\ toClient'[j].seq = incoming[r].nextSeq - 1
    <3>1. outgoing[r].nextSeq < incoming[r].nextSeq
      BY <1>4, <1>6, <2>1, <2>5
    <3>2. PICK j \in DOMAIN toClient :
            /\ j < i + 1 /\ toClient[j].kind = "chunk" /\ toClient[j].id = r
            /\ toClient[j].seq = incoming[r].nextSeq - 1
      BY <2>2, <3>1
    <3>3. j # 1
      <4>1. SUFFICES ASSUME j = 1
                     PROVE  FALSE
        OBVIOUS
      <4>2. m.kind = "chunk" /\ r = id /\ outgoing[r].nextSeq = incoming[r].nextSeq - 1
        BY <1>2, <1>3, <3>2, <4>1
      <4>3. outgoing'[r].nextSeq = outgoing[r].nextSeq + 1
        BY <1>6, <2>1, <4>2
      <4>4. QED
        BY <1>4, <2>1, <2>5, <4>2, <4>3
    <3>4. j - 1 \in DOMAIN toClient' /\ toClient'[j - 1] = toClient[j] /\ j - 1 < i
      <4>1. j - 1 \in DOMAIN toClient' /\ toClient'[j - 1] = toClient[j]
        BY <1>5, <3>3
      <4>2. j - 1 < i
        BY <1>4, <2>1, <3>2
      <4>3. QED
        BY <4>1, <4>2
    <3>5. QED
      BY <3>2, <3>4
  <2>6. QED
    BY <2>2, <2>3, <2>4, <2>5
<1>9. CompleteInv'
  BY <1>8 DEF CompleteInv
<1>10. QED
  BY <1>7, <1>9 DEF ChannelInv

\* A host that closes, or that changes nothing a response in flight tells of.
LEMMA ChannelUntouched ==
  ASSUME IInv, IInv', ChannelInv, outgoing' = outgoing, UNCHANGED toClient,
         \A r \in Ids : \/ incoming[r].live
                        \/ incoming'[r].nextSeq = incoming[r].nextSeq /\ produced'[r] = produced[r]
  PROVE  ChannelInv'
<1>1. \A i \in DOMAIN toClient : /\ i \in Nat /\ toClient[i].id \in Ids
                                 /\ \A j \in 1..i : j \in DOMAIN toClient
  <2>1. DOMAIN toClient = 1..Len(toClient) /\ Len(toClient) \in Nat
    BY HistoriesTyped
  <2>2. \A i \in DOMAIN toClient : i \in Nat /\ toClient[i].id \in Ids
    BY HistoriesTyped, Frames
  <2>3. QED
    BY <2>1, <2>2
<1>2. \A i \in DOMAIN toClient : toClient[i].kind = "response" => ~incoming[toClient[i].id].live
  BY DEF IInv, ResponsesInv
<1>3. QED
  BY <1>1, <1>2, ChannelKept

LEMMA ChannelClosed ==
  ASSUME IInv, IInv', ChannelInv, HostClose
  PROVE  ChannelInv'
<1>1. /\ toClient \in Seq(ClientMsg) /\ SomeArrive(toClient, toClient')
      /\ incoming' = [id \in Ids |-> Stopped(incoming[id])]
      /\ UNCHANGED <<outgoing, produced>>
  BY HistoriesTyped DEF HostClose, CloseHost, clientVars
<1>2. \A i \in DOMAIN toClient' : /\ i \in DOMAIN toClient /\ toClient'[i] = toClient[i]
                                  /\ \A j \in 1..i : j \in DOMAIN toClient'
  BY <1>1, Cut
<1>3. \A id \in Ids : incoming'[id].nextSeq = incoming[id].nextSeq
  BY <1>1, HistoriesTyped DEF Stopped, Incoming
<1>4. \A i \in DOMAIN toClient : toClient[i].id \in Ids
  BY <1>1, Frames
<1>5. QED
  BY <1>1, <1>2, <1>3, <1>4, ChannelKept

\* What the handlers send.
LEMMA ChannelAnswered ==
  ASSUME IInv, IInv', SInv,
         \/ \E id \in Ids, paces \in BOOLEAN : HostChunk(id, paces)
         \/ \E id \in Ids, answer \in {"result", "error"} : HostAnswer(id, answer)
  PROVE  ChannelInv'
<1>1. incoming \in [Ids -> Incoming] /\ produced \in [Ids -> Nat] /\ ChannelInv
  BY HistoriesTyped DEF SInv
<1>2. ASSUME NEW id \in Ids, NEW paces \in BOOLEAN, HostChunk(id, paces)
      PROVE  ChannelInv'
  <2> DEFINE e    == incoming[id]
             data == produced[id] + 1
  <2>1. /\ e \in Incoming /\ e.live /\ e.nextSeq \in Nat /\ data \in Nat
        /\ UNCHANGED <<outgoing, cState>>
        /\ produced' = [produced EXCEPT ![id] = data]
        /\ produced[id] = e.nextSeq + Len(e.queued)
    BY <1>1, <1>2 DEF HostChunk, clientVars, Incoming, SInv, ProducedInv, Emitted
  <2>2. CASE MayGoOut(e)
    <3> DEFINE x  == Chunk(id, e.nextSeq, data)
               ms == <<x>>
    <3>1. incoming' = [incoming EXCEPT ![id] = Charged(e, 1)] /\ toClient' = SentToClient(ms)
      BY <1>2, <2>2 DEF HostChunk
    <3>2. /\ incoming'[id].nextSeq = e.nextSeq + 1
          /\ \A r \in Ids \ {id} : incoming'[r] = incoming[r] /\ produced'[r] = produced[r]
      BY <1>1, <2>1, <3>1 DEF Charged, Incoming
    <3>3. data = e.nextSeq + 1
      BY <2>1, <2>2 DEF MayGoOut
    <3>4. /\ x \in ClientMsg /\ x.id = id /\ x.kind = "chunk" /\ x.seq = e.nextSeq /\ x.data = x.seq + 1
      BY <2>1, <3>3 DEF Chunk, ChunkMsg, ClientMsg
    <3> HIDE DEF x
    <3>5. /\ ms \in Seq(ClientMsg) /\ DOMAIN ms = {1} /\ ms[1] = x
      BY <3>4
    <3> HIDE DEF ms
    <3>6. Frame(ms, id, 1, FALSE)
      BY <2>1, <3>4, <3>5 DEF Frame
    <3>7. /\ \A i \in DOMAIN ms : ms[i].kind = "chunk" => ms[i].data = ms[i].seq + 1
          /\ \A i \in DOMAIN ms : ms[i].kind = "response" /\ ms[i].answer = "result" =>
               produced'[id] = incoming[id].nextSeq + 1
      BY <3>4, <3>5
    <3>8. Sends(id, 1, ms, FALSE)
      BY <2>1, <3>1, <3>2, <3>6, <3>7 DEF Sends
    <3>9. QED
      BY <1>1, <3>8, ChannelSent
  <2>3. CASE ~MayGoOut(e)
    <3>1. toClient' = toClient /\ incoming' = [incoming EXCEPT ![id].queued = Append(@, data)]
      BY <1>2, <2>3 DEF HostChunk
    <3>2. \A r \in Ids : \/ incoming[r].live
                         \/ incoming'[r].nextSeq = incoming[r].nextSeq /\ produced'[r] = produced[r]
      BY <1>1, <2>1, <3>1
    <3>3. QED
      BY <1>1, <2>1, <3>1, <3>2, ChannelUntouched
  <2>4. QED
    BY <2>2, <2>3
<1>3. ASSUME NEW id \in Ids, NEW answer \in {"result", "error"}, HostAnswer(id, answer)
      PROVE  ChannelInv'
  <2> DEFINE e == incoming[id]
  <2>1. e \in Incoming /\ e.nextSeq \in Nat /\ UNCHANGED <<outgoing, cState, produced>>
    BY <1>1, <1>3 DEF HostAnswer, clientVars, Incoming
  <2>2. CASE e.live /\ MayAnswer(e)
    <3> DEFINE ms == <<Response(id, answer)>>
    <3>1. incoming' = [incoming EXCEPT ![id] = Stopped(@)] /\ toClient' = SentToClient(ms)
      BY <1>3, <2>2 DEF HostAnswer
    <3>2. /\ incoming'[id].nextSeq = e.nextSeq + 0
          /\ \A r \in Ids \ {id} : incoming'[r] = incoming[r] /\ produced'[r] = produced[r]
      BY <1>1, <2>1, <3>1 DEF Stopped, Incoming
    <3>3. Frame(ms, id, 0, TRUE)
      BY ResponseAlone DEF Answers
    <3>4. \A i \in DOMAIN ms : ms[i].kind # "chunk"
      BY DEF Response
    <3>5. produced'[id] = incoming[id].nextSeq + 0
      BY <1>1, <2>1, <2>2 DEF MayAnswer, SInv, ProducedInv, Emitted
    <3> HIDE DEF ms
    <3>6. Sends(id, 0, ms, TRUE)
      BY <2>1, <2>2, <3>1, <3>2, <3>3, <3>4, <3>5 DEF Sends
    <3>7. QED
      BY <1>1, <3>6, ChannelSent
  <2>3. CASE ~(e.live /\ MayAnswer(e))
    <3> DEFINE held == [e EXCEPT !.response = answer]
    <3>1. held.nextSeq = e.nextSeq
      BY <2>1 DEF Incoming
    <3>2. /\ toClient' = toClient
          /\ incoming' = incoming \/ incoming' = [incoming EXCEPT ![id] = held]
      BY <1>3, <2>3 DEF HostAnswer
    <3> HIDE DEF held
    <3>3. \A r \in Ids : incoming'[r].nextSeq = incoming[r].nextSeq /\ produced'[r] = produced[r]
      BY <1>1, <2>1, <3>1, <3>2
    <3>4. QED
      BY <1>1, <2>1, <3>2, <3>3, ChannelUntouched
  <2>4. QED
    BY <2>2, <2>3
<1>4. QED
  BY <1>2, <1>3

\* A request that is answered with an error on arrival.
LEMMA ChannelErred ==
  ASSUME IInv, IInv', ChannelInv, NEW id \in Ids,
         toClient' = SentToClient(<<Response(id, "error")>>),
         UNCHANGED <<outgoing, incoming, produced>>
  PROVE  ChannelInv'
<1> DEFINE x == Response(id, "error")
<1>1. x \in ClientMsg /\ x.kind = "response" /\ x.answer = "error"
  BY DEF Response, ResponseMsg, ClientMsg, Answers
<1> HIDE DEF x
<1>2. /\ \A i \in DOMAIN toClient' : \/ i \in DOMAIN toClient /\ toClient'[i] = toClient[i]
                                     \/ toClient'[i] = x
      /\ \A i \in DOMAIN toClient : i \in DOMAIN toClient' /\ toClient'[i] = toClient[i]
  <2>1. toClient \in Seq(ClientMsg)
    BY HistoriesTyped
  <2>2. toClient' = toClient \/ toClient' = Append(toClient, x)
    BY <1>1, <2>1, Longer DEF SentToClient, x
  <2>3. QED
    BY <1>1, <2>1, <2>2, Longer
<1>3. NumberedInv'
  BY <1>1, <1>2 DEF ChannelInv, NumberedInv
<1>4. CompleteInv'
  <2> SUFFICES ASSUME NEW i \in DOMAIN toClient', toClient'[i].kind = "response", toClient'[i].answer = "result",
                      NEW r, r = toClient'[i].id
               PROVE  /\ produced[r] = incoming[r].nextSeq
                      /\ outgoing[r].nextSeq <= incoming[r].nextSeq
                      /\ outgoing[r].nextSeq < incoming[r].nextSeq =>
                           \E j \in DOMAIN toClient' :
                             /\ j < i /\ toClient'[j].kind = "chunk" /\ toClient'[j].id = r
                             /\ toClient'[j].seq = incoming[r].nextSeq - 1
    BY DEF CompleteInv
  <2>1. i \in DOMAIN toClient /\ toClient'[i] = toClient[i]
    BY <1>1, <1>2
  <2>2. /\ produced[r] = incoming[r].nextSeq
        /\ outgoing[r].nextSeq <= incoming[r].nextSeq
        /\ outgoing[r].nextSeq < incoming[r].nextSeq =>
             \E j \in DOMAIN toClient :
               /\ j < i /\ toClient[j].kind = "chunk" /\ toClient[j].id = r
               /\ toClient[j].seq = incoming[r].nextSeq - 1
    BY <2>1 DEF ChannelInv, CompleteInv
  <2>3. QED
    BY <1>2, <2>2
<1>5. QED
  BY <1>3, <1>4 DEF ChannelInv

\* What a flush sends carries what was queued.
LEMMA FlushNumbered ==
  ASSUME NEW id \in Ids, NEW p \in Nat, incoming[id] \in Incoming, Emitted(incoming[id], p),
         NEW k \in 0 .. Len(incoming[id].queued), NEW last \in BOOLEAN, NEW held, held \in Answers \/ ~last,
         QueuedChunks(id, k) \in Seq(ClientMsg),
         NEW ms, ms = QueuedChunks(id, k) \o (IF last THEN <<Response(id, held)>> ELSE <<>>)
  PROVE  /\ \A i \in DOMAIN ms : ms[i].kind = "chunk" => ms[i].data = ms[i].seq + 1
         /\ \A i \in DOMAIN ms : ms[i].kind = "response" => last
<1> DEFINE q == QueuedChunks(id, k)
           x == Response(id, held)
<1>1. \A i \in DOMAIN q : q[i].kind = "chunk" /\ q[i].data = q[i].seq + 1
  <2>1. /\ incoming[id].nextSeq \in Nat /\ incoming[id].queued \in Seq(Nat) /\ k \in Nat
        /\ \A i \in DOMAIN incoming[id].queued : incoming[id].queued[i] = incoming[id].nextSeq + i
    BY DEF Incoming, Emitted
  <2>2. DOMAIN q = 1..k /\ \A i \in 1..k : i \in DOMAIN incoming[id].queued /\ i \in Nat
    BY <2>1 DEF QueuedChunks
  <2>3. \A i \in 1..k : /\ q[i].kind = "chunk" /\ q[i].seq = incoming[id].nextSeq + i - 1
                        /\ q[i].data = incoming[id].queued[i]
    BY DEF QueuedChunks, Chunk
  <2> HIDE DEF q
  <2>4. SUFFICES ASSUME NEW i \in 1..k
                 PROVE  q[i].kind = "chunk" /\ q[i].data = q[i].seq + 1
    BY <2>2
  <2>5. i \in Nat /\ q[i].seq = incoming[id].nextSeq + i - 1
        /\ q[i].data = incoming[id].nextSeq + i /\ q[i].kind = "chunk"
    BY <2>1, <2>2, <2>3
  <2>6. \A a, b \in Nat : a + b = (a + b - 1) + 1
    OBVIOUS
  <2>7. QED
    BY <2>1, <2>5, <2>6
<1>2. last => x \in ClientMsg /\ x.kind = "response"
  BY DEF Response, ResponseMsg, ClientMsg
<1> HIDE DEF q, x
<1>3. CASE last
  <2>1. ms = q \o <<x>> /\ q \in Seq(ClientMsg) /\ x \in ClientMsg
    BY <1>2, <1>3 DEF q, x
  <2>2. ms = Append(q, x)
    BY <2>1, Longer
  <2>3. \A i \in DOMAIN ms : \/ i \in DOMAIN q /\ ms[i] = q[i]
                             \/ ms[i] = x
    BY <2>1, <2>2, Longer
  <2>4. QED
    BY <1>1, <1>2, <1>3, <2>3
<1>4. CASE ~last
  <2>1. ms = q
    BY <1>4 DEF q
  <2>2. \A i \in DOMAIN ms : ms[i].kind # "response"
    BY <1>1, <2>1
  <2>3. QED
    BY <1>1, <2>1, <2>2
<1>5. QED
  BY <1>3, <1>4

\* A request that begins is one no frame in flight is about.
LEMMA ChannelBegun ==
  ASSUME IInv, IInv', ChannelInv, NEW id \in Ids, id > lastPeerId,
         incoming' = [incoming EXCEPT ![id] = NewIncoming],
         UNCHANGED <<outgoing, produced, toClient>>
  PROVE  ChannelInv'
<1>1. \A i \in DOMAIN toClient : /\ i \in Nat /\ toClient[i].id \in Ids
                                 /\ \A j \in 1..i : j \in DOMAIN toClient
  <2>1. DOMAIN toClient = 1..Len(toClient) /\ Len(toClient) \in Nat
    BY HistoriesTyped
  <2>2. \A i \in DOMAIN toClient : i \in Nat /\ toClient[i].id \in Ids
    BY HistoriesTyped, Frames
  <2>3. QED
    BY <2>1, <2>2
<1>2. \A i \in DOMAIN toClient : toClient[i].id # id
  <2>1. \A i \in DOMAIN toClient : toClient[i].id <= lastPeerId
    BY DEF IInv, IdsInv
  <2>2. lastPeerId \in Nat /\ id \in Nat
    BY HistoriesTyped, IdsAreNumbers
  <2>3. QED
    BY <2>1, <2>2
<1>3. \A r \in Ids \ {id} : incoming'[r] = incoming[r]
  BY HistoriesTyped
<1>4. QED
  BY <1>1, <1>2, <1>3, ChannelKept

\* A flush sends what Sends asks for.
LEMMA ChannelFlushed ==
  ASSUME IInv, IInv', ChannelInv, ProducedInv, NEW m \in HostMsg, m.id \in Ids, m.kind = "credit",
         incoming[m.id].live, ReceiveCredit(m), UNCHANGED <<produced, outgoing, cState>>
  PROVE  ChannelInv'
<1> DEFINE id   == m.id
           e    == incoming[id]
           p    == produced[id]
           k    == MinOf(e.credit + m.n, Len(e.queued))
           rest == SubSeq(e.queued, k + 1, Len(e.queued))
           left == Flushed(e, m.n, k, rest)
           last == rest = <<>> /\ e.response # "none"
           ms   == QueuedChunks(id, k) \o (IF last THEN <<Response(id, e.response)>> ELSE <<>>)
<1>1. /\ incoming' = [incoming EXCEPT ![id] = IF last THEN Stopped(left) ELSE left]
      /\ toClient' = SentToClient(ms)
  BY DEF ReceiveCredit, Flushed
<1>2. /\ m.n \in Nat /\ id \in Ids /\ TypeOK
      /\ incoming \in [Ids -> Incoming] /\ produced \in [Ids -> Nat]
  <2>1. m.n \in Nat
    BY DEF HostMsg, RequestMsg, CancelMsg, CreditMsg
  <2>2. QED
    BY <2>1, HistoriesTyped DEF IInv, TypeInv
<1>3. /\ e \in Incoming /\ e.live /\ e.queued \in Seq(Nat) /\ e.credit \in Nat /\ p \in Nat
      /\ Emitted(e, p) /\ e.response \in {"none", "result", "error"}
      /\ k \in 0 .. Len(e.queued) /\ k \in Nat
  <2>1. e \in Incoming /\ e.live /\ p \in Nat /\ Emitted(e, p)
    BY <1>2 DEF ProducedInv
  <2>2. e.queued \in Seq(Nat) /\ e.credit \in Nat /\ e.response \in {"none", "result", "error"}
    BY <2>1 DEF Incoming
  <2>3. QED
    BY <1>2, <2>1, <2>2 DEF MinOf
<1> HIDE DEF k
<1>4. /\ rest \in Seq(Nat) /\ Len(rest) = Len(e.queued) - k
      /\ \A i \in DOMAIN rest : i \in Nat /\ i + k \in DOMAIN e.queued /\ rest[i] = e.queued[i + k]
  BY <1>3, RestOfQueue
<1> HIDE DEF rest
<1>5. left = Flushed(e, m.n, k, rest)
  OBVIOUS
<1> HIDE DEF left
<1>6. /\ left.nextSeq = e.nextSeq + k
      /\ rest = <<>> => p = e.nextSeq + k
  <2> HIDE DEF e, p
  <2>1. QED
    BY <1>2, <1>3, <1>4, <1>5, FlushEmitted
<1>7. Stopped(left).nextSeq = left.nextSeq
  BY <1>2, <1>3, <1>5, FlushedCounts
<1>8. incoming'[id].nextSeq = e.nextSeq + k
  BY <1>1, <1>2, <1>6, <1>7
<1>9. last \in BOOLEAN /\ (last => e.response \in Answers) /\ (last => rest = <<>>)
  BY <1>3 DEF Answers
<1> HIDE DEF last
<1>10. Frame(ms, id, k, last)
  BY <1>2, <1>3, <1>9, FlushFrame
<1>11. /\ \A i \in DOMAIN ms : ms[i].kind = "chunk" => ms[i].data = ms[i].seq + 1
       /\ \A i \in DOMAIN ms : ms[i].kind = "response" => last
  <2>1. QueuedChunks(id, k) \in Seq(ClientMsg)
    BY <1>2, <1>3, QueuedChunksTyped DEF Incoming
  <2>2. PICK held : held = e.response
    OBVIOUS
  <2>3. PICK p1 \in Nat : p1 = p
    BY <1>3
  <2>4. /\ ms = QueuedChunks(id, k) \o (IF last THEN <<Response(id, held)>> ELSE <<>>)
        /\ held \in Answers \/ ~last
    BY <1>9, <2>2
  <2>5. /\ k \in 0 .. Len(incoming[id].queued)
        /\ incoming[id] \in Incoming /\ Emitted(incoming[id], p1)
    BY <1>3, <2>3
  <2> HIDE DEF ms, id, e, p
  <2>6. id \in Ids /\ last \in BOOLEAN
    BY <1>2, <1>9
  <2>7. QED
    BY <2>1, <2>4, <2>5, <2>6, FlushNumbered, ZenonT(40)
<1> HIDE DEF ms
<1>12. \A r \in Ids \ {id} : incoming'[r] = incoming[r] /\ produced'[r] = produced[r]
  BY <1>1, <1>2
<1>13. produced'[id] = p
  OBVIOUS
<1>14. Sends(id, k, ms, last)
  BY <1>1, <1>2, <1>3, <1>6, <1>8, <1>9, <1>10, <1>11, <1>12, <1>13 DEF Sends
<1>15. QED
  BY <1>2, <1>3, <1>14, ChannelSent

\* The handler is stopped and answered for.
LEMMA ChannelCancelled ==
  ASSUME IInv, IInv', ChannelInv, NEW m, m.id \in Ids,
         ReceiveCancel(m), UNCHANGED <<produced, outgoing, cState>>
  PROVE  ChannelInv'
<1> DEFINE id == m.id
           ms == <<Response(id, "cancelled")>>
<1>1. incoming \in [Ids -> Incoming] /\ id \in Ids
  BY HistoriesTyped
<1>2. CASE ~incoming[id].live
  BY <1>2, ChannelUntouched DEF ReceiveCancel
<1>3. CASE incoming[id].live
  <2>1. incoming' = [incoming EXCEPT ![id] = Stopped(@)] /\ toClient' = SentToClient(ms)
    BY <1>3 DEF ReceiveCancel
  <2>2. /\ incoming[id].nextSeq \in Nat /\ incoming'[id].nextSeq = incoming[id].nextSeq + 0
        /\ \A r \in Ids \ {id} : incoming'[r] = incoming[r] /\ produced'[r] = produced[r]
    BY <1>1, <2>1 DEF Stopped, Incoming
  <2>3. Frame(ms, id, 0, TRUE)
    BY <1>1, ResponseAlone DEF Answers
  <2>4. \A i \in DOMAIN ms : ms[i].kind # "chunk" /\ ms[i].answer # "result"
    BY DEF Response
  <2> HIDE DEF ms
  <2>5. Sends(id, 0, ms, TRUE)
    BY <1>3, <2>1, <2>2, <2>3, <2>4 DEF Sends
  <2>6. QED
    BY <1>1, <2>5, ChannelSent
<1>4. QED
  BY <1>2, <1>3

LEMMA ChannelReceived ==
  ASSUME IInv, IInv', SInv, HostReceive
  PROVE  ChannelInv'
<1>1. PICK m \in HostMsg :
        /\ m.id \in Ids /\ m.id \in Nat /\ HostExpects(m)
        /\ UNCHANGED <<produced, outgoing, cState>>
        /\ \/ m.kind = "request" /\ ReceiveRequest(m)
           \/ m.kind = "credit" /\ ReceiveCredit(m) /\ UNCHANGED lastPeerId
           \/ m.kind = "cancel" /\ ReceiveCancel(m) /\ UNCHANGED lastPeerId
  BY FrameTaken
<1>2. ChannelInv /\ ProducedInv
  BY DEF SInv
<1>3. CASE m.kind = "request" /\ ReceiveRequest(m)
  <2>1. m.id > lastPeerId
    BY <1>1, <1>3 DEF HostExpects
  <2>2. \/ toClient' = SentToClient(<<Response(m.id, "error")>>) /\ incoming' = incoming
        \/ toClient' = toClient /\ incoming' = [incoming EXCEPT ![m.id] = NewIncoming]
    BY <1>3 DEF ReceiveRequest
  <2>3. CASE toClient' = SentToClient(<<Response(m.id, "error")>>) /\ incoming' = incoming
    BY <1>1, <1>2, <2>3, ChannelErred
  <2>4. CASE toClient' = toClient /\ incoming' = [incoming EXCEPT ![m.id] = NewIncoming]
    BY <1>1, <1>2, <2>1, <2>4, ChannelBegun
  <2>5. QED
    BY <2>2, <2>3, <2>4
<1>4. CASE m.kind = "credit" /\ ReceiveCredit(m)
  <2>1. CASE ~incoming[m.id].live
    <3>1. incoming' = incoming /\ toClient' = toClient
      BY <1>4, <2>1 DEF ReceiveCredit
    <3>2. QED
      BY <1>1, <1>2, <3>1, ChannelUntouched
  <2>2. CASE incoming[m.id].live
    BY <1>1, <1>2, <1>4, <2>2, ChannelFlushed
  <2>3. QED
    BY <2>1, <2>2
<1>5. CASE m.kind = "cancel" /\ ReceiveCancel(m)
  BY <1>1, <1>2, <1>5, ChannelCancelled
<1>6. QED
  BY <1>1, <1>3, <1>4, <1>5

-----------------------------------------------------------------------------
(* The refinement *)

\* Every step keeps what ties the endpoints to the streams, and is a step of the
\* streams or one that their issuers do not see.
LEMMA StreamStep ==
  ASSUME IInv, IInv', SInv, [Next]_vars
  PROVE  SInv' /\ [Stream!Next]_Stream!vars
<1>1. ClientInv /\ ProducedInv /\ ChannelInv
  BY DEF SInv
<1>2. ProducedInv'
  BY <1>1, EmittedStep
<1>3. CASE \/ \E id \in Ids : ReserveRequestIds(id)
           \/ \E known, byHand, idleLimit \in BOOLEAN : Issue(known, byHand, idleLimit)
           \/ \E id \in Ids, n \in 1 .. MaxChunks : Grant(id, n)
           \/ \E id \in Ids : Cancel(id)
           \/ \E ids \in SUBSET Ids : ExpireIdle(ids)
           \/ ClientClose \/ ClientDestroy
  BY <1>1, <1>2, <1>3, ClientCallsRefine, ChannelCalls DEF SInv
<1>4. CASE ClientReceive
  BY <1>1, <1>2, <1>4, ClientReceiveRefines, ChannelHeard DEF SInv
<1>5. CASE HostClose
  BY <1>1, <1>2, <1>5, HostRefines, ChannelClosed DEF SInv
<1>6. CASE HostReceive
  BY <1>1, <1>2, <1>6, HostRefines, ChannelReceived DEF SInv
<1>7. CASE \/ \E id \in Ids, paces \in BOOLEAN : HostChunk(id, paces)
           \/ \E id \in Ids, answer \in {"result", "error"} : HostAnswer(id, answer)
  BY <1>1, <1>2, <1>7, HostRefines, ChannelAnswered DEF SInv
<1>8. CASE UNCHANGED vars
  <2>1. UNCHANGED <<nextId, outgoing, delivered, settled, produced, incoming, toClient>>
    BY <1>8 DEF vars, clientVars, hostVars
  <2>2. ClientInv' /\ ChannelInv'
    BY <1>1, <2>1 DEF ClientInv, FreshInv, PendingInv, ChannelInv, NumberedInv, CompleteInv
  <2>3. [Stream!Next]_Stream!vars
    BY <2>1, Stutters DEF GivenUpAsBefore
  <2>4. QED
    BY <1>2, <2>2, <2>3 DEF SInv
<1>9. QED
  BY <1>3, <1>4, <1>5, <1>6, <1>7, <1>8 DEF Next

\* Whatever the number of requests and chunks and the size of the window: the
\* code that issues requests sees the streams that RequestStream describes.
\* Chunks arrive in order and each once, a request has one terminal callback and
\* no chunk after it, a result means that every chunk was delivered, and nothing
\* is heard of a request that was given up (ResponseHandlers, Endpoint::Cancel,
\* Endpoint::ExpireIdle, Endpoint::Close).
THEOREM RequestsAreStreams == Spec => ImplementsRequestStream
<1>1. Init => Stream!Init
  BY DEF Init, Stream!Init, NoOutgoing
<1>2. IInv /\ IInv' /\ SInv /\ [Next]_vars => SInv' /\ [Stream!Next]_Stream!vars
  BY StreamStep
<1>3. QED
  BY <1>1, <1>2, InitSInv, Invariant, PTL DEF Spec, ImplementsRequestStream, Stream!Spec
=============================================================================
