--------------------------- MODULE EndpointSafety ---------------------------
(***************************************************************************)
(* For every number of requests and chunks and every window, two endpoints *)
(* keep their types, never raise a ProtocolError at each other, never      *)
(* exceed the window, and never lose or invent a credit.                   *)
(***************************************************************************)
EXTENDS Endpoint, SequenceFacts

-----------------------------------------------------------------------------
(* Sequences of messages *)

\* What Send does to a channel keeps its type.
LEMMA SentTyped ==
  /\ \A ms \in Seq(HostMsg) : toHost \in Seq(HostMsg) => SentToHost(ms) \in Seq(HostMsg)
  /\ \A ms \in Seq(ClientMsg) : toClient \in Seq(ClientMsg) => SentToClient(ms) \in Seq(ClientMsg)
  BY DEF SentToHost, SentToClient

\* A channel that loses the frames after some point keeps its type.
LEMMA SomeArriveTyped ==
  ASSUME NEW S, NEW chan \in Seq(S), NEW chan2, SomeArrive(chan, chan2)
  PROVE  chan2 \in Seq(S)
  BY DEF SomeArrive

\* The chunks a flush sends are well-formed.
LEMMA QueuedChunksTyped ==
  ASSUME TypeOK, NEW id \in Ids, NEW k \in 0..Len(incoming[id].queued)
  PROVE  /\ QueuedChunks(id, k) \in Seq(ClientMsg)
         /\ SubSeq(incoming[id].queued, k + 1, Len(incoming[id].queued)) \in Seq(Nat)
<1> DEFINE e == incoming[id]
<1>1. e.queued \in Seq(Nat) /\ e.nextSeq \in Nat /\ k \in 0 .. Len(e.queued)
  BY DEF TypeOK, Incoming
<1>2. \A i \in 1..k : Chunk(id, e.nextSeq + i - 1, e.queued[i]) \in ClientMsg
  <2> HIDE DEF e
  <2> TAKE i \in 1..k
  <2>1. Len(e.queued) \in Nat /\ i \in 1 .. Len(e.queued)
    BY <1>1
  <2>2. e.queued[i] \in Nat
    BY <1>1, <2>1
  <2>3. e.nextSeq + i - 1 \in Nat
    BY <1>1, <2>1
  <2>4. QED
    BY <2>2, <2>3 DEF Chunk, ChunkMsg, ClientMsg
<1>3. QED
  BY <1>1, <1>2 DEF QueuedChunks

\* A batch of credit never exceeds what was consumed, so the counters stay
\* natural numbers.
LEMMA GrantingTyped ==
  ASSUME NEW e \in Outgoing, NEW id \in Ids, e.consumed <= e.nextSeq
  PROVE  /\ Ready(e) \in Nat /\ Ready(e) <= e.consumed
         /\ e.byHand => Ready(e) <= e.granted
         /\ Granting(e) \in Outgoing
         /\ Granting(e).consumed <= Granting(e).nextSeq
         /\ GrantSent(id, e) \in Seq(HostMsg)
<1>1. /\ Ready(e) \in Nat /\ Ready(e) <= e.consumed
      /\ e.byHand => Ready(e) <= e.granted
  BY DEF Ready, MinOf, Outgoing
<1>2. Granting(e) \in Outgoing
  <2>1. CASE Ready(e) >= Batch /\ e.byHand
    <3>1. Granting(e) = [e EXCEPT !.consumed = @ - Ready(e), !.granted = @ - Ready(e)]
      BY <2>1 DEF Granting, Granted
    <3>2. e.consumed - Ready(e) \in Nat /\ e.granted - Ready(e) \in Nat
      BY <1>1, <2>1 DEF Outgoing
    <3>3. QED
      BY <3>1, <3>2 DEF Outgoing
  <2>2. CASE Ready(e) >= Batch /\ ~e.byHand
    <3>1. Granting(e) = [e EXCEPT !.consumed = @ - Ready(e), !.granted = @]
      BY <2>2 DEF Granting, Granted
    <3>2. e.consumed - Ready(e) \in Nat /\ e.granted \in Nat
      BY <1>1 DEF Outgoing
    <3>3. QED
      BY <3>1, <3>2 DEF Outgoing
  <2>3. CASE ~(Ready(e) >= Batch)
    BY <2>3 DEF Granting
  <2>4. QED
    BY <2>1, <2>2, <2>3
<1>3. GrantSent(id, e) \in Seq(HostMsg)
  <2>1. e.nextSeq - e.consumed + Ready(e) \in Nat
    BY <1>1 DEF Outgoing
  <2>2. Credit(id, Ready(e), e.nextSeq - e.consumed + Ready(e)) \in HostMsg
    BY <1>1, <2>1 DEF Credit, CreditMsg, HostMsg
  <2>3. QED
    BY <2>2 DEF GrantSent
<1>4. Granting(e).consumed <= Granting(e).nextSeq
  BY <1>1 DEF Granting, Granted, Outgoing
<1>5. QED
  BY <1>1, <1>2, <1>3, <1>4

-----------------------------------------------------------------------------
(* Type correctness *)

\* Credit sent so far, nextSeq - consumed, is never negative.
ConsumedHeard == \A id \in Ids : outgoing[id].consumed <= outgoing[id].nextSeq

TypeInv == TypeOK /\ ConsumedHeard

\* A fresh connection has its types.
LEMMA TypeInit == Init => TypeInv
<1> SUFFICES ASSUME Init
             PROVE  TypeInv
  OBVIOUS
<1>1. NoOutgoing \in Outgoing /\ NoOutgoing.consumed <= NoOutgoing.nextSeq
  BY DEF NoOutgoing, Outgoing
<1>2. NoIncoming \in Incoming
  BY DEF NoIncoming, Incoming
<1>3. nextId \in 1..(MaxRequests + 1) /\ lastPeerId \in 0..MaxRequests
  BY BoundsAssumption DEF Init
<1>4. /\ outgoing \in [Ids -> Outgoing] /\ incoming \in [Ids -> Incoming]
      /\ ConsumedHeard
  BY <1>1, <1>2 DEF Init, ConsumedHeard
<1>5. /\ toHost \in Seq(HostMsg) /\ toClient \in Seq(ClientMsg)
      /\ delivered \in [Ids -> Seq(Nat)] /\ settled \in [Ids -> Seq(Outcomes)]
  BY DEF Init
<1>6. /\ responder \in [Ids -> {"none", "held", "hung", "answered"}]
      /\ waiting \in [Ids -> BOOLEAN] /\ fault \in BOOLEAN
      /\ produced \in [Ids -> Nat] /\ taken \in [Ids -> Nat]
      /\ cState \in {"open", "closed", "destroyed"} /\ hState \in {"open", "closed"}
  BY DEF Init
<1>7. QED
  BY <1>3, <1>4, <1>5, <1>6 DEF TypeInv, TypeOK

\* Running one terminal callback keeps the history's type.
LEMMA AppendOutcome ==
  ASSUME NEW ss \in [Ids -> Seq(Outcomes)], NEW id \in Ids, NEW o \in Outcomes
  PROVE  /\ Append(ss[id], o) \in Seq(Outcomes)
         /\ [ss EXCEPT ![id] = Append(@, o)] \in [Ids -> Seq(Outcomes)]
  OBVIOUS

\* Erasing an entry keeps its type.
LEMMA StoppedTyped ==
  ASSUME NEW e \in Incoming
  PROVE  Stopped(e) \in Incoming
<1>1. <<>> \in Seq(Nat) /\ "none" \in {"none", "result", "error"}
  OBVIOUS
<1>2. QED
  BY <1>1 DEF Stopped, Incoming

LEMMA ErasedTyped ==
  ASSUME TypeInv
  PROVE  \A id \in Ids : /\ Erased(outgoing[id]) \in Outgoing
                         /\ Erased(outgoing[id]).consumed <= Erased(outgoing[id]).nextSeq
<1> TAKE id \in Ids
<1>1. outgoing[id] \in Outgoing /\ outgoing[id].consumed <= outgoing[id].nextSeq
  BY DEF TypeInv, TypeOK, ConsumedHeard
<1>2. QED
  BY <1>1 DEF Erased, Outgoing

\* Closing either end keeps every table's type.
LEMMA CloseClientTyped ==
  ASSUME TypeInv, CloseClient(outgoing)
  PROVE  /\ cState' \in {"open", "closed", "destroyed"}
         /\ outgoing' \in [Ids -> Outgoing] /\ ConsumedHeard'
         /\ settled' \in [Ids -> Seq(Outcomes)]
         /\ toHost' \in Seq(HostMsg) /\ toClient' \in Seq(ClientMsg)
<1>1. \A id \in Ids : /\ Erased(outgoing[id]) \in Outgoing
                      /\ Erased(outgoing[id]).consumed <= Erased(outgoing[id]).nextSeq
  BY ErasedTyped
<1>2. toHost' \in Seq(HostMsg)
  BY SomeArriveTyped DEF TypeInv, TypeOK, CloseClient
<1>3. QED
  BY <1>1, <1>2 DEF TypeInv, TypeOK, ConsumedHeard, CloseClient, Outcomes

LEMMA CloseHostTyped ==
  ASSUME TypeInv, CloseHost
  PROVE  /\ hState' \in {"open", "closed"}
         /\ incoming' \in [Ids -> Incoming]
         /\ toHost' \in Seq(HostMsg) /\ toClient' \in Seq(ClientMsg)
<1>1. \A id \in Ids : Stopped(incoming[id]) \in Incoming
  BY StoppedTyped DEF TypeInv, TypeOK
<1>2. toClient' \in Seq(ClientMsg)
  BY SomeArriveTyped DEF TypeInv, TypeOK, CloseHost
<1>3. QED
  BY <1>1, <1>2 DEF CloseHost

\* The client's calls.
LEMMA ClientCallsTyped ==
  ASSUME TypeInv,
         \/ \E id \in Ids : ReserveRequestIds(id)
         \/ \E known, byHand, idleLimit \in BOOLEAN : Issue(known, byHand, idleLimit)
         \/ \E id \in Ids, n \in 1..MaxChunks : Grant(id, n)
         \/ \E id \in Ids : Cancel(id)
         \/ \E ids \in SUBSET Ids : ExpireIdle(ids)
         \/ ClientClose \/ ClientDestroy
  PROVE  TypeInv'
<1>1. ASSUME NEW id \in Ids, ReserveRequestIds(id)
      PROVE  TypeInv'
  <2>1. nextId' \in 1..(MaxRequests + 1)
    BY <1>1, BoundsAssumption DEF TypeInv, TypeOK, ReserveRequestIds, MaxOf, Ids
  <2>2. QED
    BY <1>1, <2>1 DEF TypeInv, TypeOK, ConsumedHeard, ReserveRequestIds, hostVars
<1>2. ASSUME NEW known \in BOOLEAN, NEW byHand \in BOOLEAN, NEW idleLimit \in BOOLEAN,
             Issue(known, byHand, idleLimit)
      PROVE  TypeInv'
  <2> DEFINE fresh == NewOutgoing(byHand, idleLimit)
  <2>1. nextId \in Ids /\ nextId' \in 1..(MaxRequests + 1)
    BY <1>2, BoundsAssumption DEF TypeInv, TypeOK, Issue, Ids
  <2>2. fresh \in Outgoing /\ fresh.consumed <= fresh.nextSeq
    BY DEF NewOutgoing, Outgoing
  <2>3. outgoing' \in [Ids -> Outgoing] /\ ConsumedHeard'
    <3>1. outgoing' = outgoing \/ outgoing' = [outgoing EXCEPT ![nextId] = fresh]
      BY <1>2 DEF Issue
    <3> HIDE DEF fresh
    <3>2. QED
      BY <2>1, <2>2, <3>1 DEF TypeInv, TypeOK, ConsumedHeard
  <2>4. toHost' \in Seq(HostMsg)
    <3>1. <<Request(nextId, known)>> \in Seq(HostMsg)
      BY <2>1 DEF Request, RequestMsg, HostMsg
    <3>2. toHost' = toHost \/ toHost' = SentToHost(<<Request(nextId, known)>>)
      BY <1>2 DEF Issue
    <3>3. QED
      BY <3>1, <3>2, SentTyped DEF TypeInv, TypeOK
  <2>5. settled' \in [Ids -> Seq(Outcomes)]
    <3>1. "closed" \in Outcomes
      BY DEF Outcomes
    <3>2. settled' = settled \/ settled' = [settled EXCEPT ![nextId] = Append(@, "closed")]
      BY <1>2 DEF Issue
    <3>3. settled \in [Ids -> Seq(Outcomes)]
      BY DEF TypeInv, TypeOK
    <3>4. [settled EXCEPT ![nextId] = Append(@, "closed")] \in [Ids -> Seq(Outcomes)]
      BY <2>1, <3>1, <3>3, AppendOutcome
    <3>5. QED
      BY <3>2, <3>3, <3>4
  <2>6. QED
    BY <1>2, <2>1, <2>3, <2>4, <2>5 DEF TypeInv, TypeOK, Issue, hostVars
<1>3. ASSUME NEW id \in Ids, NEW n \in 1..MaxChunks, Grant(id, n)
      PROVE  TypeInv'
  <2> DEFINE e == [outgoing[id] EXCEPT !.granted = @ + n]
  <2>1. /\ e \in Outgoing /\ e.consumed <= e.nextSeq
        /\ outgoing[id].nextSeq \in Nat /\ outgoing[id].consumed \in Nat
    <3>1. outgoing[id].granted + n \in Nat /\ outgoing[id] \in Outgoing
      BY BoundsAssumption DEF TypeInv, TypeOK, Outgoing
    <3>2. QED
      BY <3>1 DEF TypeInv, ConsumedHeard, Outgoing
  <2>2. outgoing' = [outgoing EXCEPT ![id] = Granting(e)] /\ toHost' = SentToHost(GrantSent(id, e))
    BY <1>3 DEF Grant
  <2> HIDE DEF e
  <2>3. /\ Granting(e) \in Outgoing /\ GrantSent(id, e) \in Seq(HostMsg)
        /\ Granting(e).consumed <= Granting(e).nextSeq
    BY <2>1, GrantingTyped
  <2>4. outgoing' \in [Ids -> Outgoing] /\ ConsumedHeard'
    BY <2>2, <2>3 DEF TypeInv, TypeOK, ConsumedHeard
  <2>5. toHost' \in Seq(HostMsg)
    BY <2>2, <2>3, SentTyped DEF TypeInv, TypeOK
  <2>6. taken' \in [Ids -> Nat]
    <3>1. taken[id] + n \in Nat
      BY BoundsAssumption DEF TypeInv, TypeOK
    <3>2. QED
      BY <1>3, <3>1 DEF TypeInv, TypeOK, Grant
  <2>7. QED
    BY <1>3, <2>4, <2>5, <2>6 DEF TypeInv, TypeOK, Grant, hostVars
<1>4. ASSUME NEW id \in Ids, Cancel(id)
      PROVE  TypeInv'
  <2>1. toHost' \in Seq(HostMsg)
    <3>1. <<Cancelled(id)>> \in Seq(HostMsg)
      BY DEF Cancelled, CancelMsg, HostMsg
    <3>2. QED
      BY <1>4, <3>1, SentTyped DEF TypeInv, TypeOK, Cancel
  <2>2. outgoing' \in [Ids -> Outgoing] /\ ConsumedHeard'
    BY <1>4 DEF TypeInv, TypeOK, ConsumedHeard, Outgoing, Cancel
  <2>3. QED
    BY <1>4, <2>1, <2>2 DEF TypeInv, TypeOK, Cancel, hostVars
<1>5. ASSUME NEW ids \in SUBSET Ids, ExpireIdle(ids)
      PROVE  TypeInv'
  <2>1. \A id \in Ids : /\ Expired(outgoing[id]) \in Outgoing
                        /\ Expired(outgoing[id]).consumed <= Expired(outgoing[id]).nextSeq
    <3> TAKE id \in Ids
    <3>1. outgoing[id] \in Outgoing /\ outgoing[id].consumed <= outgoing[id].nextSeq
      BY DEF TypeInv, TypeOK, ConsumedHeard
    <3>2. QED
      BY <3>1 DEF Expired, Outgoing
  <2>2. outgoing' \in [Ids -> Outgoing] /\ ConsumedHeard'
    BY <1>5, <2>1 DEF TypeInv, TypeOK, ConsumedHeard, ExpireIdle
  <2>3. toHost' \in Seq(HostMsg)
    <3>1. PICK o \in OrdersOf(ids) : toHost' = SentToHost([i \in DOMAIN o |-> Cancelled(o[i])])
      BY <1>5 DEF ExpireIdle
    <3>2. PICK n \in Ids : o \in [1..n -> ids]
      BY <3>1 DEF OrdersOf
    <3>3. \A i \in 1..n : Cancelled(o[i]) \in HostMsg
      BY <3>2 DEF Cancelled, CancelMsg, HostMsg
    <3>4. [i \in DOMAIN o |-> Cancelled(o[i])] \in Seq(HostMsg)
      BY <3>2, <3>3 DEF Ids
    <3>5. QED
      BY <3>1, <3>4, SentTyped DEF TypeInv, TypeOK
  <2>4. settled' \in [Ids -> Seq(Outcomes)]
    <3>1. settled \in [Ids -> Seq(Outcomes)] /\ "timedout" \in Outcomes
      BY DEF TypeInv, TypeOK, Outcomes
    <3>2. \A id \in Ids : Append(settled[id], "timedout") \in Seq(Outcomes)
      BY <3>1
    <3>3. QED
      BY <1>5, <3>1, <3>2 DEF ExpireIdle
  <2>5. QED
    BY <1>5, <2>2, <2>3, <2>4 DEF TypeInv, TypeOK, ExpireIdle, hostVars
<1>6. CASE ClientClose
  BY <1>6, CloseClientTyped DEF TypeInv, TypeOK, ClientClose, hostVars
<1>7. CASE ClientDestroy
  <2>1. \A id \in Ids : /\ Erased(outgoing[id]) \in Outgoing
                        /\ Erased(outgoing[id]).consumed <= Erased(outgoing[id]).nextSeq
    BY ErasedTyped
  <2>2. toHost' \in Seq(HostMsg)
    BY <1>7, SomeArriveTyped DEF TypeInv, TypeOK, ClientDestroy
  <2>3. QED
    BY <1>7, <2>1, <2>2 DEF TypeInv, TypeOK, ConsumedHeard, ClientDestroy, hostVars
<1>8. QED
  BY <1>1, <1>2, <1>3, <1>4, <1>5, <1>6, <1>7

\* Counting a chunk as received keeps the entry's type.
LEMMA HeardTyped ==
  ASSUME NEW e \in Outgoing, e.consumed <= e.nextSeq
  PROVE  LET heard == [e EXCEPT !.nextSeq = @ + 1, !.consumed = @ + 1] IN
         heard \in Outgoing /\ heard.consumed <= heard.nextSeq
<1>1. /\ e.nextSeq + 1 \in Nat /\ e.consumed + 1 \in Nat
      /\ e.consumed + 1 <= e.nextSeq + 1
  BY DEF Outgoing
<1>2. [e EXCEPT !.nextSeq = @ + 1, !.consumed = @ + 1] \in Outgoing
  BY <1>1 DEF Outgoing
<1>3. QED
  BY <1>1, <1>2 DEF Outgoing

\* Charging chunks to an entry that can afford them keeps its type.
LEMMA ChargedTyped ==
  ASSUME NEW e \in Incoming, NEW n \in Nat, NEW k \in Nat, k <= e.credit + n
  PROVE  Charged([e EXCEPT !.credit = @ + n], k) \in Incoming
<1> DEFINE c == [e EXCEPT !.credit = @ + n]
<1>1. e.credit + n \in Nat
  BY DEF Incoming
<1>2. c \in Incoming /\ c.credit = e.credit + n
  BY <1>1 DEF Incoming
<1> HIDE DEF c
<1>3. c.credit - k \in Nat /\ c.nextSeq + k \in Nat
  BY <1>1, <1>2 DEF Incoming
<1>4. Charged(c, k) \in Incoming
  BY <1>2, <1>3 DEF Charged, Incoming
<1>5. QED
  BY <1>4 DEF c

\* A frame the client takes off its channel.
LEMMA ClientReceiveTyped == TypeInv /\ ClientReceive => TypeInv'
<1> SUFFICES ASSUME TypeInv, ClientReceive
             PROVE  TypeInv'
  OBVIOUS
<1> DEFINE m == Head(toClient)
<1>1. m \in ClientMsg /\ m.id \in Ids /\ Tail(toClient) \in Seq(ClientMsg)
  BY DEF ClientReceive, TypeInv, TypeOK, ClientMsg, ChunkMsg, ResponseMsg
<1> DEFINE id == m.id
<1>2. /\ outgoing \in [Ids -> Outgoing] /\ outgoing[id] \in Outgoing
      /\ outgoing[id].consumed <= outgoing[id].nextSeq
      /\ toHost \in Seq(HostMsg) /\ settled \in [Ids -> Seq(Outcomes)]
  BY <1>1 DEF TypeInv, TypeOK, ConsumedHeard
<1>3. CASE ~ClientExpects(m)
  BY <1>3, CloseClientTyped
  DEF TypeInv, TypeOK, ClientReceive, ClientProtocolError, hostVars
<1>4. ASSUME ClientExpects(m), m.kind = "chunk", NEW cancels \in BOOLEAN,
             ReceiveChunk(m, cancels)
      PROVE  TypeInv'
  <2> DEFINE heard == [outgoing[id] EXCEPT !.nextSeq = @ + 1, !.consumed = @ + 1]
  <2> DEFINE gone  == [heard EXCEPT !.cancelled = TRUE]
  <2>1. m.data \in Nat
    BY <1>1, <1>4 DEF ClientMsg, ChunkMsg, ResponseMsg
  <2>2. heard \in Outgoing /\ heard.consumed <= heard.nextSeq
    BY <1>2, HeardTyped
  <2>3. gone \in Outgoing /\ gone.consumed <= gone.nextSeq
    BY <2>2 DEF Outgoing
  <2>4. /\ Granting(heard) \in Outgoing /\ GrantSent(id, heard) \in Seq(HostMsg)
        /\ Granting(heard).consumed <= Granting(heard).nextSeq
    <3> HIDE DEF heard, id
    <3>1. QED
      BY <1>1, <2>2, GrantingTyped DEF id
  <2>5. <<Cancelled(id)>> \in Seq(HostMsg)
    BY <1>1 DEF Cancelled, CancelMsg, HostMsg
  <2>6. \/ /\ outgoing' = [outgoing EXCEPT ![id] = gone]
           /\ toHost' = SentToHost(<<Cancelled(id)>>)
        \/ /\ outgoing' = [outgoing EXCEPT ![id] = heard]
           /\ toHost' = toHost
        \/ /\ outgoing' = [outgoing EXCEPT ![id] = Granting(heard)]
           /\ toHost' = SentToHost(GrantSent(id, heard))
    BY <1>4 DEF ReceiveChunk
  <2> HIDE DEF heard, gone
  <2>7. outgoing' \in [Ids -> Outgoing] /\ ConsumedHeard'
    BY <1>1, <1>2, <2>2, <2>3, <2>4, <2>6 DEF ConsumedHeard, TypeInv
  <2>8. toHost' \in Seq(HostMsg)
    BY <1>2, <2>4, <2>5, <2>6, SentTyped
  <2>9. delivered' \in [Ids -> Seq(Nat)]
    BY <1>1, <1>4, <2>1 DEF ReceiveChunk, TypeInv, TypeOK
  <2>10. QED
    <3>1. toClient' = Tail(toClient) /\ UNCHANGED <<nextId, cState, taken, hostVars, fault>>
      BY <1>4 DEF ClientReceive
    <3>2. UNCHANGED settled
      BY <1>4 DEF ReceiveChunk
    <3>3. QED
      BY <1>1, <2>7, <2>8, <2>9, <3>1, <3>2 DEF TypeInv, TypeOK, hostVars
<1>5. ASSUME ClientExpects(m), m.kind # "chunk", ReceiveResponse(m)
      PROVE  TypeInv'
  <2>1. m.answer \in Outcomes
    BY <1>1, <1>5 DEF ClientMsg, ChunkMsg, ResponseMsg, Outcomes
  <2>2. Erased(outgoing[id]) \in Outgoing /\ Erased(outgoing[id]).consumed <= Erased(outgoing[id]).nextSeq
    BY <1>2 DEF Erased, Outgoing
  <2>3. outgoing' \in [Ids -> Outgoing] /\ ConsumedHeard'
    BY <1>1, <1>2, <1>5, <2>2 DEF ReceiveResponse, TypeInv, ConsumedHeard
  <2>4. settled' \in [Ids -> Seq(Outcomes)]
    <3>1. [settled EXCEPT ![id] = Append(@, m.answer)] \in [Ids -> Seq(Outcomes)]
      BY <1>1, <1>2, <2>1, AppendOutcome
    <3>2. QED
      BY <1>2, <1>5, <3>1 DEF ReceiveResponse
  <2>5. toClient' = Tail(toClient) /\ UNCHANGED <<nextId, cState, taken, hostVars, fault>>
    BY <1>5 DEF ClientReceive
  <2>6. QED
    BY <1>1, <1>5, <2>3, <2>4, <2>5 DEF TypeInv, TypeOK, ReceiveResponse, hostVars
<1>6. QED
  BY <1>3, <1>4, <1>5 DEF ClientReceive

\* A frame the host takes off its channel.
LEMMA HostReceiveTyped == TypeInv /\ HostReceive => TypeInv'
<1> SUFFICES ASSUME TypeInv, HostReceive
             PROVE  TypeInv'
  OBVIOUS
<1> DEFINE m == Head(toHost)
           id == m.id
<1>1. m \in HostMsg /\ id \in Ids /\ Tail(toHost) \in Seq(HostMsg)
  BY DEF HostReceive, TypeInv, TypeOK, HostMsg, RequestMsg, CancelMsg, CreditMsg
<1>2. /\ incoming \in [Ids -> Incoming] /\ incoming[id] \in Incoming
      /\ toClient \in Seq(ClientMsg)
  BY <1>1 DEF TypeInv, TypeOK
<1>3. CASE ~HostExpects(m)
  BY <1>3, CloseHostTyped
  DEF TypeInv, TypeOK, ConsumedHeard, HostReceive, HostProtocolError, clientVars
<1>4. CASE HostExpects(m) /\ m.kind = "request"
  <2>1. /\ ReceiveRequest(m) /\ toHost' = Tail(toHost)
        /\ UNCHANGED <<hState, produced, clientVars, fault>>
    BY <1>4 DEF HostReceive
  <2>2. lastPeerId' \in 0..MaxRequests
    BY <1>1, <2>1, BoundsAssumption DEF ReceiveRequest, Ids
  <2>3. incoming' \in [Ids -> Incoming]
    <3>1. NewIncoming \in Incoming
      BY WindowAssumption DEF NewIncoming, Incoming
    <3>2. QED
      BY <1>1, <1>2, <2>1, <3>1 DEF ReceiveRequest
  <2>4. toClient' \in Seq(ClientMsg)
    <3>1. <<Response(id, "error")>> \in Seq(ClientMsg)
      BY <1>1 DEF Response, ResponseMsg, Answers, ClientMsg
    <3>2. QED
      BY <1>2, <2>1, <3>1, SentTyped DEF ReceiveRequest
  <2>5. responder' \in [Ids -> {"none", "held", "hung", "answered"}]
    BY <1>1, <2>1 DEF ReceiveRequest, TypeInv, TypeOK
  <2>6. QED
    BY <1>1, <2>1, <2>2, <2>3, <2>4, <2>5
    DEF TypeInv, TypeOK, ConsumedHeard, ReceiveRequest, clientVars
<1>5. CASE HostExpects(m) /\ m.kind = "credit"
  <2> DEFINE e == incoming[id]
             k == MinOf(e.credit + m.n, Len(e.queued))
             rest == SubSeq(e.queued, k + 1, Len(e.queued))
             left == [Charged([e EXCEPT !.credit = @ + m.n], k) EXCEPT !.queued = rest]
             last == rest = <<>> /\ e.response # "none"
             answer == IF last THEN <<Response(id, e.response)>> ELSE <<>>
             sent == QueuedChunks(id, k) \o answer
  <2>1. /\ ReceiveCredit(m) /\ toHost' = Tail(toHost)
        /\ UNCHANGED <<lastPeerId, responder, hState, produced, clientVars, fault>>
    BY <1>5 DEF HostReceive
  <2>2. m.n \in Nat
    BY <1>1, <1>5 DEF HostMsg, RequestMsg, CancelMsg, CreditMsg
  <2>3. /\ e.credit \in Nat /\ e.nextSeq \in Nat /\ e.queued \in Seq(Nat)
        /\ e.response \in {"none", "result", "error"}
    BY <1>2 DEF Incoming
  <2>4. k \in 0..Len(e.queued) /\ k <= e.credit + m.n
    BY <2>2, <2>3 DEF MinOf
  <2>5. QueuedChunks(id, k) \in Seq(ClientMsg) /\ rest \in Seq(Nat)
    BY <1>1, <2>4, QueuedChunksTyped DEF TypeInv
  <2>6. left \in Incoming /\ Stopped(left) \in Incoming
    <3>1. Charged([e EXCEPT !.credit = @ + m.n], k) \in Incoming
      <4> HIDE DEF k
      <4>1. k \in Nat /\ k <= e.credit + m.n
        BY <2>3, <2>4
      <4>2. QED
        BY <1>2, <2>2, <4>1, ChargedTyped
    <3> HIDE DEF e, k, rest
    <3>2. left \in Incoming
      BY <2>5, <3>1 DEF Incoming
    <3>3. QED
      BY <3>2, StoppedTyped
  <2>7. answer \in Seq(ClientMsg)
    <3>1. CASE last
      <4>1. e.response \in Answers
        BY <2>3, <3>1 DEF Answers
      <4>2. Response(id, e.response) \in ClientMsg
        BY <1>1, <4>1 DEF Response, ResponseMsg, ClientMsg
      <4>3. QED
        BY <3>1, <4>2
    <3>2. QED
      BY <3>1
  <2>8. /\ incoming' = incoming \/ incoming' = [incoming EXCEPT ![id] = left]
           \/ incoming' = [incoming EXCEPT ![id] = Stopped(left)]
        /\ toClient' = toClient \/ toClient' = SentToClient(sent)
        /\ waiting' = waiting \/ waiting' = [waiting EXCEPT ![id] = @ /\ ~Drained(e, left)]
    BY <2>1 DEF ReceiveCredit
  <2> HIDE DEF id, e, k, rest, left, last, answer
  <2>9. incoming' \in [Ids -> Incoming]
    <3>1. \A x \in Incoming : [incoming EXCEPT ![id] = x] \in [Ids -> Incoming]
      BY <1>1, <1>2
    <3>2. QED
      BY <1>2, <2>6, <2>8, <3>1
  <2>10. toClient' \in Seq(ClientMsg)
    <3>1. sent \in Seq(ClientMsg)
      BY <2>5, <2>7
    <3> HIDE DEF sent
    <3>2. QED
      BY <1>2, <2>8, <3>1, SentTyped
  <2>11. waiting' \in [Ids -> BOOLEAN]
    BY <1>1, <2>8 DEF TypeInv, TypeOK
  <2>12. QED
    BY <1>1, <2>1, <2>9, <2>10, <2>11 DEF TypeInv, TypeOK, ConsumedHeard, clientVars
<1>6. CASE HostExpects(m) /\ m.kind = "cancel"
  <2>1. /\ ReceiveCancel(m) /\ toHost' = Tail(toHost)
        /\ UNCHANGED <<lastPeerId, responder, hState, produced, clientVars, fault>>
    BY <1>6 DEF HostReceive
  <2>2. incoming' \in [Ids -> Incoming]
    <3>1. Stopped(incoming[id]) \in Incoming
      BY <1>2, StoppedTyped
    <3>2. QED
      BY <1>1, <1>2, <2>1, <3>1 DEF ReceiveCancel
  <2>3. toClient' \in Seq(ClientMsg)
    <3>1. <<Response(id, "cancelled")>> \in Seq(ClientMsg)
      BY <1>1 DEF Response, ResponseMsg, Answers, ClientMsg
    <3>2. QED
      BY <1>2, <2>1, <3>1, SentTyped DEF ReceiveCancel
  <2>4. QED
    BY <1>1, <2>1, <2>2, <2>3 DEF TypeInv, TypeOK, ConsumedHeard, ReceiveCancel, clientVars
<1>7. m.kind \in {"request", "credit", "cancel"}
  BY <1>1 DEF HostMsg, RequestMsg, CancelMsg, CreditMsg
<1>8. QED
  BY <1>3, <1>4, <1>5, <1>6, <1>7

\* The host application's calls, and the host's end.
LEMMA HostCallsTyped ==
  ASSUME TypeInv,
         \/ HostClose
         \/ \E id \in Ids, paces \in BOOLEAN : HostChunk(id, paces)
         \/ \E id \in Ids, answer \in {"result", "error"} : HostAnswer(id, answer)
  PROVE  TypeInv'
<1>1. CASE HostClose
  BY <1>1, CloseHostTyped DEF TypeInv, TypeOK, ConsumedHeard, HostClose, clientVars
<1>2. ASSUME NEW id \in Ids, NEW paces \in BOOLEAN, HostChunk(id, paces)
      PROVE  TypeInv'
  <2> DEFINE e == incoming[id]
             data == produced[id] + 1
             queueing == [e EXCEPT !.queued = Append(@, data)]
  <2>1. /\ e \in Incoming /\ e.nextSeq \in Nat /\ e.queued \in Seq(Nat) /\ data \in Nat
        /\ e.credit \in Nat
    <3>1. e \in Incoming /\ produced[id] \in Nat
      BY DEF TypeInv, TypeOK
    <3>2. QED
      BY <3>1 DEF Incoming
  <2>2. MayGoOut(e) => Charged(e, 1) \in Incoming
    <3>1. ASSUME MayGoOut(e) PROVE e.credit - 1 \in Nat /\ e.nextSeq + 1 \in Nat
      BY <2>1, <3>1 DEF MayGoOut
    <3>2. QED
      BY <2>1, <3>1 DEF Charged, Incoming
  <2>3. queueing \in Incoming
    <3>1. Append(e.queued, data) \in Seq(Nat)
      BY <2>1
    <3>2. QED
      BY <2>1, <3>1 DEF Incoming
  <2>4. incoming' \in [Ids -> Incoming]
    <3>1. \/ MayGoOut(e) /\ incoming' = [incoming EXCEPT ![id] = Charged(e, 1)]
          \/ incoming' = [incoming EXCEPT ![id] = queueing]
      BY <1>2 DEF HostChunk
    <3>2. incoming \in [Ids -> Incoming]
      BY DEF TypeInv, TypeOK
    <3> HIDE DEF queueing, e
    <3>3. QED
      BY <2>2, <2>3, <3>1, <3>2
  <2>5. toClient' \in Seq(ClientMsg)
    <3>1. <<Chunk(id, e.nextSeq, data)>> \in Seq(ClientMsg)
      BY <2>1 DEF Chunk, ChunkMsg, ClientMsg
    <3>2. QED
      BY <1>2, <3>1, SentTyped DEF HostChunk, TypeInv, TypeOK
  <2>6. produced' \in [Ids -> Nat] /\ waiting' \in [Ids -> BOOLEAN]
    BY <1>2, <2>1 DEF HostChunk, TypeInv, TypeOK
  <2>7. QED
    BY <1>2, <2>4, <2>5, <2>6 DEF HostChunk, TypeInv, TypeOK, ConsumedHeard, clientVars
<1>3. ASSUME NEW id \in Ids, NEW answer \in {"result", "error"}, HostAnswer(id, answer)
      PROVE  TypeInv'
  <2>1. incoming' \in [Ids -> Incoming]
    <3>1. [incoming[id] EXCEPT !.response = answer] \in Incoming
      BY DEF TypeInv, TypeOK, Incoming
    <3>2. Stopped(incoming[id]) \in Incoming
      BY StoppedTyped DEF TypeInv, TypeOK
    <3>3. \/ incoming' = incoming
          \/ incoming' = [incoming EXCEPT ![id] = Stopped(@)]
          \/ incoming' = [incoming EXCEPT ![id] = [@ EXCEPT !.response = answer]]
      BY <1>3 DEF HostAnswer
    <3>4. incoming \in [Ids -> Incoming]
      BY DEF TypeInv, TypeOK
    <3>5. QED
      BY <3>1, <3>2, <3>3, <3>4
  <2>2. toClient' \in Seq(ClientMsg)
    <3>1. <<Response(id, answer)>> \in Seq(ClientMsg)
      BY DEF Response, ResponseMsg, Answers, ClientMsg
    <3>2. toClient \in Seq(ClientMsg)
      BY DEF TypeInv, TypeOK
    <3>3. toClient' \in {toClient, SentToClient(<<Response(id, answer)>>)}
      BY <1>3 DEF HostAnswer
    <3>4. QED
      BY <3>1, <3>2, <3>3, SentTyped
  <2>3. responder' \in [Ids -> {"none", "held", "hung", "answered"}]
    BY <1>3 DEF HostAnswer, TypeInv, TypeOK
  <2>4. QED
    BY <1>3, <2>1, <2>2, <2>3 DEF HostAnswer, TypeInv, TypeOK, ConsumedHeard, clientVars
<1>4. QED
  BY <1>1, <1>2, <1>3

\* Every step of the specification keeps the types.
LEMMA TypeStep == TypeInv /\ [Next]_vars => TypeInv'
<1> SUFFICES ASSUME TypeInv, [Next]_vars
             PROVE  TypeInv'
  OBVIOUS
<1>1. CASE Next
  BY <1>1, ClientCallsTyped, ClientReceiveTyped, HostReceiveTyped, HostCallsTyped DEF Next
<1>2. CASE UNCHANGED vars
  BY <1>2 DEF vars, clientVars, hostVars, TypeInv, TypeOK, ConsumedHeard
<1>3. QED
  BY <1>1, <1>2

\* The counters, queues and messages of the two endpoints keep their types
\* whatever frames cross: no counter of Endpoint.cpp, all of them unsigned,
\* ever goes below zero (SendChunk's --credit, GrantConsumed's subtractions).
THEOREM TypeCorrect == Spec => []TypeOK
<1>1. TypeInv => TypeOK
  BY DEF TypeInv
<1>2. QED
  BY TypeInit, TypeStep, <1>1, PTL DEF Spec

-----------------------------------------------------------------------------
(* The inductive invariant *)

\* What the client has granted back, and what the host has counted of it.
GrantedBack(id) == outgoing[id].nextSeq - outgoing[id].consumed
Counted(id)     == incoming[id].nextSeq + incoming[id].credit - Window

\* Ids grow at the client and reach the host in that order; nothing about a
\* request exists on the host, or on its way back, before the request arrived.
IdsInv ==
  /\ lastPeerId < nextId
  /\ \A id \in Ids : /\ outgoing[id].live => id < nextId
                     /\ id >= nextId => taken[id] = 0
                     /\ incoming[id].live => id <= lastPeerId
                     /\ outgoing[id].nextSeq > 0 => id <= lastPeerId
  /\ \A i \in DOMAIN toHost : /\ toHost[i].id < nextId
                              /\ toHost[i].kind = "credit" => toHost[i].id <= lastPeerId
  /\ \A i \in DOMAIN toClient : toClient[i].id <= lastPeerId

\* Grants in flight follow one another: each starts where the one before it
\* ended, after what the host has counted and up to what the client granted.
CreditInv ==
  /\ \A id \in Ids : /\ incoming[id].live => Counted(id) <= GrantedBack(id)
                     /\ outgoing[id].byHand =>
                          taken[id] = outgoing[id].granted + GrantedBack(id)
  /\ \A i \in DOMAIN toHost : toHost[i].kind = "credit" =>
       /\ toHost[i].upto <= GrantedBack(toHost[i].id)
       /\ incoming[toHost[i].id].live =>
            Counted(toHost[i].id) <= toHost[i].upto - toHost[i].n
  /\ \A i, j \in DOMAIN toHost :
       /\ i < j /\ toHost[i].id = toHost[j].id
       /\ toHost[i].kind = "credit" /\ toHost[j].kind = "credit"
       => toHost[i].upto <= toHost[j].upto - toHost[j].n

\* Requests reach the host in order, and each is still pending at the client.
RequestsInv ==
  /\ \A i \in DOMAIN toHost : toHost[i].kind = "request" =>
       /\ toHost[i].id > lastPeerId
       /\ cState = "open" => outgoing[toHost[i].id].live
  /\ \A i, j \in DOMAIN toHost :
       i < j /\ toHost[i].kind = "request" /\ toHost[j].kind = "request"
       => toHost[i].id < toHost[j].id
  /\ \A id \in Ids : incoming[id].live => /\ hState = "open"
                                          /\ cState = "open" => outgoing[id].live

\* A response is the last frame of its request.
ResponsesInv ==
  /\ cState # "open" => toClient = <<>>
  /\ \A i \in DOMAIN toClient :
       /\ outgoing[toClient[i].id].live
       /\ toClient[i].kind = "response" => ~incoming[toClient[i].id].live
  /\ \A i, j \in DOMAIN toClient :
       i < j /\ toClient[i].id = toClient[j].id => toClient[i].kind = "chunk"

\* The chunks in flight for a request are the consecutive ones from the next
\* the client expects to the last the host sent.
ChunksInv ==
  /\ \A i \in DOMAIN toClient : toClient[i].kind = "chunk" =>
       /\ outgoing[toClient[i].id].nextSeq <= toClient[i].seq
       /\ toClient[i].seq < incoming[toClient[i].id].nextSeq
       /\ toClient[i].seq > outgoing[toClient[i].id].nextSeq =>
            \E j \in DOMAIN toClient :
              /\ j < i /\ toClient[j].kind = "chunk"
              /\ toClient[j].id = toClient[i].id /\ toClient[j].seq = toClient[i].seq - 1
  /\ \A i, j \in DOMAIN toClient :
       /\ i < j /\ toClient[i].id = toClient[j].id
       /\ toClient[i].kind = "chunk" /\ toClient[j].kind = "chunk"
       => toClient[i].seq < toClient[j].seq
  /\ \A id \in Ids : incoming[id].live /\ cState = "open" =>
       /\ outgoing[id].nextSeq <= incoming[id].nextSeq
       /\ incoming[id].nextSeq > outgoing[id].nextSeq =>
            \E i \in DOMAIN toClient :
              /\ toClient[i].kind = "chunk" /\ toClient[i].id = id
              /\ toClient[i].seq = incoming[id].nextSeq - 1

IInv == TypeInv /\ ~fault /\ IdsInv /\ CreditInv /\ RequestsInv /\ ResponsesInv /\ ChunksInv

\* A fresh connection satisfies the invariant.
LEMMA InitIInv == Init => IInv
  BY TypeInit, BoundsAssumption
  DEF Init, IInv, IdsInv, CreditInv, RequestsInv, ResponsesInv, ChunksInv,
      NoOutgoing, NoIncoming, GrantedBack, Ids

-----------------------------------------------------------------------------
(* Channels, frame by frame *)

\* A channel that carries ms after what it carried.
LEMMA Appended ==
  ASSUME NEW S, NEW c \in Seq(S), NEW ms \in Seq(S)
  PROVE  /\ \A i \in DOMAIN (c \o ms) :
              \/ i \in DOMAIN c /\ (c \o ms)[i] = c[i]
              \/ /\ i - Len(c) \in DOMAIN ms /\ (c \o ms)[i] = ms[i - Len(c)]
                 /\ \A j \in DOMAIN c : j < i
         /\ \A i \in DOMAIN c : i \in DOMAIN (c \o ms) /\ (c \o ms)[i] = c[i]
         /\ \A i \in DOMAIN ms : Len(c) + i \in DOMAIN (c \o ms) /\ (c \o ms)[Len(c) + i] = ms[i]
<1>1. DOMAIN (c \o ms) = 1..(Len(c) + Len(ms)) /\ DOMAIN c = 1..Len(c) /\ DOMAIN ms = 1..Len(ms)
  OBVIOUS
<1>2. QED
  BY <1>1

\* A channel that lost frames at its end.
LEMMA Cut ==
  ASSUME NEW S, NEW c \in Seq(S), NEW c2, SomeArrive(c, c2)
  PROVE  \A i \in DOMAIN c2 : i \in DOMAIN c /\ c2[i] = c[i] /\ \A j \in 1..i : j \in DOMAIN c2
  BY DEF SomeArrive

\* The frames of a channel are messages about requests.
LEMMA Frames ==
  /\ \A c \in Seq(HostMsg) : \A i \in DOMAIN c :
       i \in Nat /\ 1 <= i /\ c[i] \in HostMsg /\ c[i].id \in Ids
  /\ \A c \in Seq(ClientMsg) : \A i \in DOMAIN c :
       i \in Nat /\ 1 <= i /\ c[i] \in ClientMsg /\ c[i].id \in Ids
<1>1. \A m \in HostMsg : m.id \in Ids
  BY DEF HostMsg, RequestMsg, CancelMsg, CreditMsg
<1>2. \A m \in ClientMsg : m.id \in Ids
  BY DEF ClientMsg, ChunkMsg, ResponseMsg
<1>3. QED
  BY <1>1, <1>2

\* A grant in flight carries two numbers.
LEMMA CreditFrames ==
  \A c \in Seq(HostMsg) : \A i \in DOMAIN c :
    c[i].kind = "credit" => c[i].upto \in Nat /\ c[i].n \in Nat
<1>1. \A m \in HostMsg : m.kind = "credit" => m.upto \in Nat /\ m.n \in Nat
  BY DEF HostMsg, RequestMsg, CancelMsg, CreditMsg
<1>2. QED
  BY <1>1, Frames

\* What the host sends is a numbered chunk or a response.
LEMMA ClientKinds ==
  \A c \in Seq(ClientMsg) : \A i \in DOMAIN c :
    /\ c[i].kind = "chunk" \/ c[i].kind = "response"
    /\ c[i].kind = "chunk" => c[i].seq \in Nat
<1>1. \A m \in ClientMsg : /\ m.kind = "chunk" \/ m.kind = "response"
                           /\ m.kind = "chunk" => m.seq \in Nat
  BY DEF ClientMsg, ChunkMsg, ResponseMsg
<1>2. \A c \in Seq(ClientMsg) : \A i \in DOMAIN c : c[i] \in ClientMsg
  BY Frames
<1> HIDE DEF ClientMsg
<1>3. QED
  BY <1>1, <1>2

\* Request ids are numbers (Endpoint::Request counts them).
LEMMA IdsAreNumbers == \A id \in Ids : id \in Nat
  BY DEF Ids

-----------------------------------------------------------------------------
(* Steps that count no chunk and no credit *)

\* The frame at i was already on its way to the host, d places behind, or is a
\* cancel of a request that was issued.
OldOrCancel(i, d) ==
  \/ i + d \in DOMAIN toHost /\ toHost'[i] = toHost[i + d]
  \/ toHost'[i].kind = "cancel" /\ toHost'[i].id < nextId

\* Entries may die, with the end that held them or on the host alone; frames
\* may be lost at the end of a channel; cancels may be added.
Quiet(d) ==
  /\ TypeInv /\ TypeInv' /\ ~fault' /\ nextId <= nextId' /\ lastPeerId' = lastPeerId
  /\ taken' = taken
  /\ \A id \in Ids :
       /\ outgoing'[id].live => outgoing[id].live
       /\ outgoing'[id].nextSeq = outgoing[id].nextSeq
       /\ outgoing'[id].consumed = outgoing[id].consumed
       /\ outgoing'[id].granted = outgoing[id].granted
       /\ outgoing'[id].byHand = outgoing[id].byHand
       /\ incoming'[id].live => incoming[id].live /\ hState' = hState
       /\ incoming'[id].nextSeq = incoming[id].nextSeq
       /\ incoming'[id].credit = incoming[id].credit
       /\ cState' = "open" => outgoing'[id].live = outgoing[id].live
       /\ incoming'[id].live /\ cState' = "open" => toClient' = toClient
  /\ cState' = "open" => cState = "open"
  /\ cState' # "open" => toClient' = <<>>
  /\ \A i \in DOMAIN toHost' : OldOrCancel(i, d)
  /\ \A i \in DOMAIN toClient' : /\ i \in DOMAIN toClient /\ toClient'[i] = toClient[i]
                                 /\ \A j \in 1..i : j \in DOMAIN toClient'

\* A step that counts no chunk and no credit keeps the invariant.
LEMMA QuietStep ==
  ASSUME IInv, NEW d \in {0, 1}, Quiet(d)
  PROVE  IInv'
<1>1. /\ toHost \in Seq(HostMsg) /\ toHost' \in Seq(HostMsg)
      /\ toClient \in Seq(ClientMsg) /\ toClient' \in Seq(ClientMsg)
      /\ nextId \in Nat /\ nextId' \in Nat /\ lastPeerId \in Nat
      /\ nextId <= nextId' /\ lastPeerId' = lastPeerId /\ taken' = taken
      /\ outgoing \in [Ids -> Outgoing] /\ incoming \in [Ids -> Incoming]
  BY BoundsAssumption DEF Quiet, TypeInv, TypeOK
<1>2. /\ \A id \in Ids : id \in Nat
      /\ \A i \in DOMAIN toHost : i \in Nat /\ toHost[i].id \in Ids
      /\ \A i \in DOMAIN toHost' : i \in Nat /\ toHost'[i].id \in Ids
      /\ \A i \in DOMAIN toClient : i \in Nat /\ toClient[i].id \in Ids
      /\ \A i \in DOMAIN toClient' : i \in Nat /\ toClient'[i].id \in Ids
  BY <1>1, Frames, IdsAreNumbers
<1>3. \A i \in DOMAIN toHost' : toHost'[i].kind # "cancel" =>
        i + d \in DOMAIN toHost /\ toHost'[i] = toHost[i + d]
  BY DEF Quiet, OldOrCancel
<1>4. \A i \in DOMAIN toHost' : toHost'[i].id < nextId
  BY DEF Quiet, OldOrCancel, IInv, IdsInv
<1>5. \A i \in DOMAIN toClient' : i \in DOMAIN toClient /\ toClient'[i] = toClient[i]
  BY DEF Quiet
<1>6. \A id \in Ids : GrantedBack(id)' = GrantedBack(id) /\ Counted(id)' = Counted(id)
  BY DEF Quiet, GrantedBack, Counted
<1>7. IdsInv'
  <2>1. lastPeerId' < nextId'
    BY <1>1 DEF IInv, IdsInv
  <2>2. ASSUME NEW id \in Ids
        PROVE  /\ outgoing'[id].live => id < nextId'
               /\ id >= nextId' => taken'[id] = 0
               /\ incoming'[id].live => id <= lastPeerId'
               /\ outgoing'[id].nextSeq > 0 => id <= lastPeerId'
    <3>1. /\ outgoing'[id].live => outgoing[id].live
          /\ outgoing'[id].nextSeq = outgoing[id].nextSeq
          /\ incoming'[id].live => incoming[id].live
      BY DEF Quiet
    <3>2. id \in Nat
      BY <1>2
    <3>3. QED
      BY <1>1, <3>1, <3>2 DEF IInv, IdsInv
  <2>3. ASSUME NEW i \in DOMAIN toHost'
        PROVE  /\ toHost'[i].id < nextId'
               /\ toHost'[i].kind = "credit" => toHost'[i].id <= lastPeerId'
    <3>1. toHost'[i].kind = "credit" => i + d \in DOMAIN toHost /\ toHost'[i] = toHost[i + d]
      BY <1>3, <2>3
    <3>2. toHost'[i].id < nextId /\ toHost'[i].id \in Nat
      BY <1>2, <1>4, <2>3
    <3>3. QED
      BY <1>1, <3>1, <3>2 DEF IInv, IdsInv
  <2>4. ASSUME NEW i \in DOMAIN toClient'
        PROVE  toClient'[i].id <= lastPeerId'
    BY <1>1, <1>5 DEF IInv, IdsInv
  <2>5. QED
    BY <2>1, <2>2, <2>3, <2>4 DEF IdsInv
<1>8. CreditInv'
  <2>1. ASSUME NEW id \in Ids
        PROVE  /\ incoming'[id].live => Counted(id)' <= GrantedBack(id)'
               /\ outgoing'[id].byHand =>
                    taken'[id] = outgoing'[id].granted + GrantedBack(id)'
    BY <1>1, <1>6 DEF IInv, CreditInv, Quiet
  <2>2. ASSUME NEW i \in DOMAIN toHost', toHost'[i].kind = "credit"
        PROVE  /\ toHost'[i].upto <= GrantedBack(toHost[i].id)'
               /\ incoming'[toHost'[i].id].live =>
                    Counted(toHost[i].id)' <= toHost'[i].upto - toHost'[i].n
    <3>1. i + d \in DOMAIN toHost /\ toHost'[i] = toHost[i + d] /\ toHost'[i].id \in Ids
      BY <1>2, <1>3, <2>2
    <3>2. incoming'[toHost'[i].id].live => incoming[toHost'[i].id].live
      BY <3>1 DEF Quiet
    <3>3. /\ GrantedBack(toHost[i].id)' = GrantedBack(toHost[i + d].id)
          /\ Counted(toHost[i].id)' = Counted(toHost[i + d].id)
      BY <1>6, <3>1 DEF GrantedBack, Counted
    <3>4. QED
      BY <2>2, <3>1, <3>2, <3>3 DEF IInv, CreditInv
  <2>3. ASSUME NEW i \in DOMAIN toHost', NEW j \in DOMAIN toHost',
               i < j, toHost'[i].id = toHost'[j].id,
               toHost'[i].kind = "credit", toHost'[j].kind = "credit"
        PROVE  toHost'[i].upto <= toHost'[j].upto - toHost'[j].n
    <3>1. /\ i + d \in DOMAIN toHost /\ toHost'[i] = toHost[i + d]
          /\ j + d \in DOMAIN toHost /\ toHost'[j] = toHost[j + d]
          /\ i + d < j + d
      BY <1>2, <1>3, <2>3
    <3>2. QED
      BY <2>3, <3>1 DEF IInv, CreditInv
  <2>4. QED
    BY <2>1, <2>2, <2>3 DEF CreditInv
<1>9. RequestsInv'
  <2>1. ASSUME NEW i \in DOMAIN toHost', toHost'[i].kind = "request"
        PROVE  /\ toHost'[i].id > lastPeerId'
               /\ cState' = "open" => outgoing'[toHost'[i].id].live
    <3>1. /\ i + d \in DOMAIN toHost /\ toHost'[i] = toHost[i + d] /\ toHost'[i].id \in Ids
      BY <1>2, <1>3, <2>1
    <3>2. cState' = "open" => cState = "open" /\ outgoing'[toHost'[i].id].live = outgoing[toHost'[i].id].live
      BY <3>1 DEF Quiet
    <3>3. QED
      BY <1>1, <2>1, <3>1, <3>2 DEF IInv, RequestsInv
  <2>2. ASSUME NEW i \in DOMAIN toHost', NEW j \in DOMAIN toHost',
               i < j, toHost'[i].kind = "request", toHost'[j].kind = "request"
        PROVE  toHost'[i].id < toHost'[j].id
    <3>1. /\ i + d \in DOMAIN toHost /\ toHost'[i] = toHost[i + d]
          /\ j + d \in DOMAIN toHost /\ toHost'[j] = toHost[j + d]
          /\ i + d < j + d
      BY <1>2, <1>3, <2>2
    <3>2. QED
      BY <2>2, <3>1 DEF IInv, RequestsInv
  <2>3. ASSUME NEW id \in Ids, incoming'[id].live
        PROVE  hState' = "open" /\ (cState' = "open" => outgoing'[id].live)
    BY <2>3 DEF IInv, RequestsInv, Quiet
  <2>4. QED
    BY <2>1, <2>2, <2>3 DEF RequestsInv
<1>10. ResponsesInv'
  <2>1. cState' # "open" => toClient' = <<>>
    BY DEF Quiet
  <2>2. ASSUME NEW i \in DOMAIN toClient'
        PROVE  /\ outgoing'[toClient'[i].id].live
               /\ toClient'[i].kind = "response" => ~incoming'[toClient'[i].id].live
    <3>1. cState' = "open"
      BY <1>1, <2>1, <2>2
    <3>2. QED
      BY <1>2, <1>5, <2>2, <3>1 DEF IInv, ResponsesInv, Quiet
  <2>3. ASSUME NEW i \in DOMAIN toClient', NEW j \in DOMAIN toClient',
               i < j, toClient'[i].id = toClient'[j].id
        PROVE  toClient'[i].kind = "chunk"
    BY <1>5, <2>3 DEF IInv, ResponsesInv
  <2>4. QED
    BY <2>1, <2>2, <2>3 DEF ResponsesInv
<1>11. ChunksInv'
  <2>1. ASSUME NEW i \in DOMAIN toClient', toClient'[i].kind = "chunk"
        PROVE  /\ outgoing'[toClient'[i].id].nextSeq <= toClient'[i].seq
               /\ toClient'[i].seq < incoming'[toClient'[i].id].nextSeq
               /\ toClient'[i].seq > outgoing'[toClient'[i].id].nextSeq =>
                    \E j \in DOMAIN toClient' :
                      /\ j < i /\ toClient'[j].kind = "chunk"
                      /\ toClient'[j].id = toClient'[i].id
                      /\ toClient'[j].seq = toClient'[i].seq - 1
    <3>1. /\ i \in DOMAIN toClient /\ toClient'[i] = toClient[i] /\ toClient'[i].id \in Ids
          /\ outgoing'[toClient[i].id].nextSeq = outgoing[toClient[i].id].nextSeq
          /\ incoming'[toClient[i].id].nextSeq = incoming[toClient[i].id].nextSeq
      BY <1>2, <1>5, <2>1 DEF Quiet
    <3>2. \A j \in DOMAIN toClient : j < i => j \in DOMAIN toClient' /\ toClient'[j] = toClient[j]
      <4>1. \A j \in 1..i : j \in DOMAIN toClient'
        BY DEF Quiet
      <4>2. \A j \in DOMAIN toClient : j \in Nat /\ 1 <= j
        BY <1>1
      <4>3. QED
        BY <1>2, <1>5, <4>1, <4>2
    <3>3. QED
      BY <2>1, <3>1, <3>2 DEF IInv, ChunksInv
  <2>2. ASSUME NEW i \in DOMAIN toClient', NEW j \in DOMAIN toClient',
               i < j, toClient'[i].id = toClient'[j].id,
               toClient'[i].kind = "chunk", toClient'[j].kind = "chunk"
        PROVE  toClient'[i].seq < toClient'[j].seq
    BY <1>5, <2>2 DEF IInv, ChunksInv
  <2>3. ASSUME NEW id \in Ids, incoming'[id].live, cState' = "open"
        PROVE  /\ outgoing'[id].nextSeq <= incoming'[id].nextSeq
               /\ incoming'[id].nextSeq > outgoing'[id].nextSeq =>
                    \E i \in DOMAIN toClient' :
                      /\ toClient'[i].kind = "chunk" /\ toClient'[i].id = id
                      /\ toClient'[i].seq = incoming'[id].nextSeq - 1
    <3>1. /\ toClient' = toClient /\ incoming[id].live /\ cState = "open"
          /\ outgoing'[id].nextSeq = outgoing[id].nextSeq
          /\ incoming'[id].nextSeq = incoming[id].nextSeq
      BY <2>3 DEF Quiet
    <3>2. QED
      BY <3>1 DEF IInv, ChunksInv
  <2>4. QED
    BY <2>1, <2>2, <2>3 DEF ChunksInv
<1>12. QED
  BY <1>7, <1>8, <1>9, <1>10, <1>11 DEF IInv, Quiet

\* The calls that only add cancels or take entries away.
LEMMA QuietCalls ==
  ASSUME IInv,
         \/ \E id \in Ids : ReserveRequestIds(id)
         \/ \E id \in Ids : Cancel(id)
         \/ \E ids \in SUBSET Ids : ExpireIdle(ids)
         \/ ClientClose \/ ClientDestroy \/ HostClose
  PROVE  IInv'
<1>1. /\ toHost \in Seq(HostMsg) /\ toClient \in Seq(ClientMsg) /\ nextId \in Nat
      /\ outgoing \in [Ids -> Outgoing] /\ incoming \in [Ids -> Incoming]
      /\ TypeInv /\ ~fault /\ (cState # "open" => toClient = <<>>)
  BY BoundsAssumption DEF IInv, TypeInv, TypeOK, ResponsesInv
<1>2. \A i \in DOMAIN toHost : i + 0 = i
  BY <1>1, Frames
<1>3. TypeInv'
  BY <1>1, ClientCallsTyped, HostCallsTyped
<1>4. ASSUME NEW id \in Ids, ReserveRequestIds(id)
      PROVE  Quiet(0)
  <2>1. nextId' \in Nat /\ nextId <= nextId'
    BY <1>1, <1>4, IdsAreNumbers DEF ReserveRequestIds, MaxOf
  <2>2. QED
    BY <1>1, <1>2, <1>3, <1>4, <2>1 DEF Quiet, OldOrCancel, ReserveRequestIds, hostVars
<1>5. ASSUME NEW id \in Ids, Cancel(id)
      PROVE  Quiet(0)
  <2>1. \A r \in Ids : /\ outgoing'[r].live = outgoing[r].live
                       /\ outgoing'[r].nextSeq = outgoing[r].nextSeq
                       /\ outgoing'[r].consumed = outgoing[r].consumed
                       /\ outgoing'[r].granted = outgoing[r].granted
                       /\ outgoing'[r].byHand = outgoing[r].byHand
    BY <1>1, <1>5 DEF Cancel, Outgoing
  <2>2. <<Cancelled(id)>> \in Seq(HostMsg) /\ Cancelled(id).kind = "cancel" /\ Cancelled(id).id < nextId
    BY <1>5 DEF Cancel, Cancelled, CancelMsg, HostMsg, IInv, IdsInv
  <2>3. \A i \in DOMAIN toHost' : OldOrCancel(i, 0)
    <3>1. CASE toHost' = toHost
      BY <1>2, <3>1 DEF OldOrCancel
    <3>2. CASE toHost' = toHost \o <<Cancelled(id)>>
      <4>1. \A i \in DOMAIN toHost' : \/ i \in DOMAIN toHost /\ toHost'[i] = toHost[i]
                                      \/ toHost'[i] = Cancelled(id)
        BY <1>1, <2>2, <3>2
      <4>2. QED
        BY <1>2, <2>2, <4>1 DEF OldOrCancel
    <3>3. QED
      BY <1>5, <3>1, <3>2 DEF Cancel, SentToHost
  <2>4. UNCHANGED <<nextId, cState, hState, taken, lastPeerId, incoming, toClient, fault>>
    BY <1>5 DEF Cancel, hostVars
  <2>5. QED
    BY <1>1, <1>3, <2>1, <2>3, <2>4 DEF Quiet
<1>6. ASSUME NEW ids \in SUBSET Ids, ExpireIdle(ids)
      PROVE  Quiet(0)
  <2>1. \A r \in Ids : /\ outgoing'[r].live = outgoing[r].live
                       /\ outgoing'[r].nextSeq = outgoing[r].nextSeq
                       /\ outgoing'[r].consumed = outgoing[r].consumed
                       /\ outgoing'[r].granted = outgoing[r].granted
                       /\ outgoing'[r].byHand = outgoing[r].byHand
    <3>1. \A r \in Ids : outgoing'[r] = outgoing[r] \/ outgoing'[r] = Expired(outgoing[r])
      BY <1>6 DEF ExpireIdle
    <3>2. \A e \in Outgoing :
            /\ Expired(e).live = e.live /\ Expired(e).nextSeq = e.nextSeq
            /\ Expired(e).consumed = e.consumed /\ Expired(e).granted = e.granted
            /\ Expired(e).byHand = e.byHand
      BY DEF Expired, Outgoing
    <3>3. QED
      BY <1>1, <3>1, <3>2
  <2>2. \A id \in ids : id < nextId
    BY <1>6 DEF ExpireIdle, MayExpire, IInv, IdsInv
  <2>3. PICK o \in OrdersOf(ids) : toHost' = SentToHost([i \in DOMAIN o |-> Cancelled(o[i])])
    BY <1>6 DEF ExpireIdle
  <2>4. PICK n \in Ids : o \in [1..n -> ids]
    BY <2>3 DEF OrdersOf
  <2> DEFINE ms == [i \in DOMAIN o |-> Cancelled(o[i])]
  <2>5. /\ ms \in Seq(HostMsg) /\ DOMAIN ms = 1..n
        /\ \A i \in DOMAIN ms : ms[i].kind = "cancel" /\ ms[i].id < nextId
    <3>1. \A i \in 1..n : /\ Cancelled(o[i]) \in HostMsg
                          /\ Cancelled(o[i]).kind = "cancel" /\ Cancelled(o[i]).id < nextId
      BY <2>2, <2>4 DEF Cancelled, CancelMsg, HostMsg
    <3>2. QED
      BY <2>4, <3>1, IdsAreNumbers
  <2>6. \A i \in DOMAIN toHost' : OldOrCancel(i, 0)
    <3> HIDE DEF ms
    <3>1. CASE toHost' = toHost
      BY <1>2, <3>1 DEF OldOrCancel
    <3>2. CASE toHost' = toHost \o ms
      <4>1. \A i \in DOMAIN toHost' : \/ i \in DOMAIN toHost /\ toHost'[i] = toHost[i]
                                      \/ i - Len(toHost) \in DOMAIN ms /\ toHost'[i] = ms[i - Len(toHost)]
        <5> DEFINE grown == toHost \o ms
        <5>1. ms \in Seq(HostMsg) /\ toHost \in Seq(HostMsg)
          BY <1>1, <2>5
        <5>2. \A i \in DOMAIN grown : \/ i \in DOMAIN toHost /\ grown[i] = toHost[i]
                                      \/ i - Len(toHost) \in DOMAIN ms /\ grown[i] = ms[i - Len(toHost)]
          BY <5>1, Appended
        <5> HIDE DEF grown
        <5>3. QED
          BY <3>2, <5>2 DEF grown
      <4>2. QED
        BY <1>2, <2>5, <4>1 DEF OldOrCancel
    <3>3. QED
      BY <2>3, <3>1, <3>2 DEF SentToHost, ms
  <2>7. UNCHANGED <<nextId, cState, hState, taken, lastPeerId, incoming, toClient, fault>>
    BY <1>6 DEF ExpireIdle, hostVars
  <2>8. QED
    BY <1>1, <1>3, <2>1, <2>6, <2>7 DEF Quiet
<1>7. ASSUME ClientClose \/ ClientDestroy
      PROVE  Quiet(0)
  <2>1. /\ cState' # "open" /\ toClient' = <<>>
        /\ outgoing' = [id \in Ids |-> Erased(outgoing[id])]
        /\ SomeArrive(toHost, toHost')
        /\ UNCHANGED <<nextId, hState, taken, lastPeerId, incoming, fault>>
    BY <1>7 DEF ClientClose, CloseClient, ClientDestroy, hostVars
  <2>2. \A r \in Ids : /\ ~outgoing'[r].live
                       /\ outgoing'[r].nextSeq = outgoing[r].nextSeq
                       /\ outgoing'[r].consumed = outgoing[r].consumed
                       /\ outgoing'[r].granted = outgoing[r].granted
                       /\ outgoing'[r].byHand = outgoing[r].byHand
    BY <1>1, <2>1 DEF Erased, Outgoing
  <2>3. \A i \in DOMAIN toHost' : i \in DOMAIN toHost /\ toHost'[i] = toHost[i]
    BY <1>1, <2>1, Cut
  <2>4. \A i \in DOMAIN toHost' : OldOrCancel(i, 0)
    BY <1>2, <2>3 DEF OldOrCancel
  <2>5. QED
    BY <1>1, <1>3, <2>1, <2>2, <2>4 DEF Quiet
<1>8. ASSUME HostClose
      PROVE  Quiet(0)
  <2>1. /\ toHost' = <<>> /\ SomeArrive(toClient, toClient')
        /\ incoming' = [id \in Ids |-> Stopped(incoming[id])]
        /\ UNCHANGED <<nextId, outgoing, cState, taken, lastPeerId, fault>>
    BY <1>8 DEF HostClose, CloseHost, clientVars
  <2>2. \A r \in Ids : /\ ~incoming'[r].live
                       /\ incoming'[r].nextSeq = incoming[r].nextSeq
                       /\ incoming'[r].credit = incoming[r].credit
    BY <1>1, <2>1 DEF Stopped, Incoming
  <2>3. \A i \in DOMAIN toClient' : /\ i \in DOMAIN toClient /\ toClient'[i] = toClient[i]
                                    /\ \A j \in 1..i : j \in DOMAIN toClient'
    BY <1>1, <2>1, Cut
  <2>4. cState' # "open" => toClient' = <<>>
    <3>1. toClient = <<>> => toClient' = <<>>
      BY <2>1 DEF SomeArrive
    <3>2. QED
      BY <1>1, <2>1, <3>1
  <2>5. QED
    BY <1>1, <1>3, <2>1, <2>2, <2>3, <2>4 DEF Quiet
<1>9. Quiet(0)
  BY <1>4, <1>5, <1>6, <1>7, <1>8
<1>10. QED
  BY <1>9, QuietStep

-----------------------------------------------------------------------------
(* Steps of the host that send chunks or a response *)

\* What the host puts on the channel in one step for request id: k chunks from
\* its next sequence number on, and then the response if it answers.
Frame(ms, id, k, answers) ==
  /\ ms \in Seq(ClientMsg)
  /\ \A i \in DOMAIN ms :
       /\ ms[i].id = id
       /\ \/ /\ i <= k /\ ms[i].kind = "chunk"
             /\ ms[i].seq = incoming[id].nextSeq + i - 1
          \/ i = k + 1 /\ ms[i].kind = "response" /\ answers
  /\ \A i \in 1..k : i \in DOMAIN ms

\* The request is live, n credits were counted for it, and k were spent; d is 1
\* if the step took a frame off the channel to the host.
HostSends(id, n, k, d, ms) ==
  /\ TypeInv /\ TypeInv' /\ ~fault'
  /\ incoming[id].live
  /\ UNCHANGED <<nextId, lastPeerId, taken, cState, hState, outgoing>>
  /\ \A r \in Ids \ {id} : incoming'[r] = incoming[r]
  /\ incoming'[id].nextSeq = incoming[id].nextSeq + k
  /\ incoming'[id].credit = incoming[id].credit + n - k
  /\ \A i \in DOMAIN toHost' : i + d \in DOMAIN toHost /\ toHost'[i] = toHost[i + d]
  /\ n > 0 => /\ d = 1 /\ 1 \in DOMAIN toHost /\ toHost[1].kind = "credit"
              /\ toHost[1].id = id /\ toHost[1].n = n
  /\ Frame(ms, id, k, ~incoming'[id].live)
  /\ toClient' = SentToClient(ms)

\* The host sends chunks or a response of one live request, charged to its credit
\* (SendChunk, Answer, Flush, $/cancel): the invariant is kept.
LEMMA HostSendsStep ==
  ASSUME IInv, NEW id \in Ids, NEW n \in Nat, NEW k \in Nat, NEW d \in {0, 1}, NEW ms,
         HostSends(id, n, k, d, ms)
  PROVE  IInv'
<1>1. /\ toHost \in Seq(HostMsg) /\ toHost' \in Seq(HostMsg)
      /\ toClient \in Seq(ClientMsg) /\ toClient' \in Seq(ClientMsg)
      /\ nextId \in Nat /\ lastPeerId \in Nat
      /\ outgoing \in [Ids -> Outgoing] /\ incoming \in [Ids -> Incoming]
      /\ incoming' \in [Ids -> Incoming]
      /\ UNCHANGED <<nextId, lastPeerId, taken, cState, hState, outgoing>>
  BY BoundsAssumption DEF HostSends, TypeInv, TypeOK
<1>2. /\ \A r \in Ids : r \in Nat
      /\ \A i \in DOMAIN toHost : i \in Nat /\ 1 <= i /\ toHost[i].id \in Ids
      /\ \A i \in DOMAIN toHost' : i \in Nat /\ 1 <= i /\ toHost'[i].id \in Ids
      /\ \A i \in DOMAIN toClient : i \in Nat /\ 1 <= i /\ toClient[i].id \in Ids
      /\ \A i \in DOMAIN toClient' : i \in Nat /\ 1 <= i /\ toClient'[i].id \in Ids
  BY <1>1, Frames, IdsAreNumbers
<1>3. \A i \in DOMAIN toHost' : i + d \in DOMAIN toHost /\ toHost'[i] = toHost[i + d]
  BY DEF HostSends
<1>t. /\ \A r \in Ids : /\ incoming[r].nextSeq \in Nat /\ incoming[r].credit \in Nat
                        /\ outgoing[r].nextSeq \in Nat /\ outgoing[r].consumed \in Nat
      /\ \A r \in Ids : Counted(r) \in Int /\ GrantedBack(r) \in Int
      /\ Window \in Nat /\ Len(toClient) \in Nat
  <2>1. \A r \in Ids : /\ incoming[r].nextSeq \in Nat /\ incoming[r].credit \in Nat
                       /\ outgoing[r].nextSeq \in Nat /\ outgoing[r].consumed \in Nat
    BY <1>1 DEF Incoming, Outgoing
  <2>2. Window \in Nat /\ Len(toClient) \in Nat
    BY <1>1, WindowAssumption
  <2>3. \A r \in Ids : Counted(r) \in Int /\ GrantedBack(r) \in Int
    BY <2>1, <2>2 DEF Counted, GrantedBack
  <2>4. QED
    BY <2>1, <2>2, <2>3
<1>4. \A r \in Ids : /\ incoming'[r].live => incoming[r].live
                     /\ r # id => incoming'[r] = incoming[r]
                     /\ outgoing'[r] = outgoing[r]
                     /\ GrantedBack(r)' = GrantedBack(r)
                     /\ Counted(r)' = IF r = id THEN Counted(r) + n ELSE Counted(r)
  <2>1. /\ incoming[id].nextSeq \in Nat /\ incoming[id].credit \in Nat
        /\ incoming'[id].nextSeq = incoming[id].nextSeq + k
        /\ incoming'[id].credit = incoming[id].credit + n - k
        /\ incoming[id].live
        /\ \A r \in Ids \ {id} : incoming'[r] = incoming[r]
    BY <1>t DEF HostSends
  <2>2. Counted(id)' = Counted(id) + n
    <3>1. /\ Counted(id) = incoming[id].nextSeq + incoming[id].credit - Window
          /\ Counted(id)' = incoming'[id].nextSeq + incoming'[id].credit - Window
      BY DEF Counted
    <3>2. Window \in Nat
      BY <1>t
    <3>3. QED
      BY <2>1, <3>1, <3>2
  <2>3. ASSUME NEW r \in Ids, r # id
        PROVE  incoming'[r] = incoming[r] /\ Counted(r)' = Counted(r)
    BY <2>1, <2>3 DEF Counted
  <2>4. outgoing' = outgoing
    BY <1>1
  <2>5. \A r \in Ids : outgoing'[r] = outgoing[r] /\ GrantedBack(r)' = GrantedBack(r)
    BY <2>4 DEF GrantedBack
  <2>6. ASSUME NEW r \in Ids
        PROVE  Counted(r)' = IF r = id THEN Counted(r) + n ELSE Counted(r)
    BY <2>2, <2>3
  <2>7. QED
    BY <2>1, <2>3, <2>5, <2>6
<1>5. n > 0 => /\ d = 1 /\ 1 \in DOMAIN toHost /\ toHost[1].kind = "credit"
               /\ toHost[1].id = id /\ toHost[1].n = n
  BY DEF HostSends
<1>6. /\ incoming[id].live /\ hState = "open" /\ id <= lastPeerId
      /\ cState = "open" => outgoing[id].live
      /\ incoming'[id].nextSeq = incoming[id].nextSeq + k
      /\ incoming[id].nextSeq \in Nat
  BY <1>1 DEF HostSends, IInv, RequestsInv, IdsInv, Incoming
<1>7. /\ ms \in Seq(ClientMsg)
      /\ \A i \in DOMAIN ms :
           /\ i \in Nat /\ 1 <= i /\ ms[i].id = id
           /\ \/ /\ i <= k /\ ms[i].kind = "chunk"
                 /\ ms[i].seq = incoming[id].nextSeq + i - 1
              \/ i = k + 1 /\ ms[i].kind = "response" /\ ~incoming'[id].live
      /\ \A i \in 1..k : i \in DOMAIN ms
  BY Frames DEF HostSends, Frame
\* The new frames come after the old ones, and go out unless the client closed.
<1>8. /\ \A i \in DOMAIN toClient' :
           \/ i \in DOMAIN toClient /\ toClient'[i] = toClient[i]
           \/ /\ i - Len(toClient) \in DOMAIN ms /\ toClient'[i] = ms[i - Len(toClient)]
              /\ \A j \in DOMAIN toClient : j < i
              /\ cState = "open"
      /\ \A i \in DOMAIN toClient : i \in DOMAIN toClient' /\ toClient'[i] = toClient[i]
      /\ cState = "open" => \A i \in DOMAIN ms :
           Len(toClient) + i \in DOMAIN toClient' /\ toClient'[Len(toClient) + i] = ms[i]
  <2>1. CASE cState = "open"
    <3> DEFINE grown == toClient \o ms
    <3>1. /\ \A i \in DOMAIN grown :
               \/ i \in DOMAIN toClient /\ grown[i] = toClient[i]
               \/ /\ i - Len(toClient) \in DOMAIN ms /\ grown[i] = ms[i - Len(toClient)]
                  /\ \A j \in DOMAIN toClient : j < i
          /\ \A i \in DOMAIN toClient : i \in DOMAIN grown /\ grown[i] = toClient[i]
          /\ \A i \in DOMAIN ms : Len(toClient) + i \in DOMAIN grown /\ grown[Len(toClient) + i] = ms[i]
      <4>1. toClient \in Seq(ClientMsg) /\ ms \in Seq(ClientMsg)
        BY <1>1, <1>7
      <4>2. QED
        BY <4>1, Appended
    <3>2. toClient' = grown
      BY <1>6, <2>1 DEF HostSends, SentToClient
    <3> HIDE DEF grown
    <3>3. QED
      BY <2>1, <3>1, <3>2
  <2>2. CASE cState # "open"
    <3>1. toClient' = toClient
      BY <2>2 DEF HostSends, SentToClient
    <3>2. QED
      BY <2>2, <3>1
  <2>3. QED
    BY <2>1, <2>2
<1>9. IdsInv'
  <2>1. ASSUME NEW i \in DOMAIN toClient'
        PROVE  toClient'[i].id <= lastPeerId
    BY <1>6, <1>7, <1>8, <2>1 DEF IInv, IdsInv
  <2>2. ASSUME NEW i \in DOMAIN toHost'
        PROVE  /\ toHost'[i].id < nextId
               /\ toHost'[i].kind = "credit" => toHost'[i].id <= lastPeerId
    BY <1>3, <2>2 DEF IInv, IdsInv
  <2>3. ASSUME NEW r \in Ids
        PROVE  /\ outgoing'[r].live => r < nextId
               /\ r >= nextId => taken'[r] = 0
               /\ incoming'[r].live => r <= lastPeerId
               /\ outgoing'[r].nextSeq > 0 => r <= lastPeerId
    BY <1>1, <1>4 DEF IInv, IdsInv
  <2>4. QED
    BY <1>1, <2>1, <2>2, <2>3 DEF IInv, IdsInv
<1>10. CreditInv'
  <2>1. ASSUME NEW i \in DOMAIN toHost', toHost'[i].kind = "credit"
        PROVE  /\ toHost'[i].upto <= GrantedBack(toHost[i].id)'
               /\ incoming'[toHost'[i].id].live =>
                    Counted(toHost[i].id)' <= toHost'[i].upto - toHost'[i].n
    <3> DEFINE r == toHost[i + d].id
    <3>1. /\ i + d \in DOMAIN toHost /\ toHost'[i] = toHost[i + d] /\ r \in Ids
      BY <1>2, <1>3
    <3>2. /\ GrantedBack(toHost[i].id)' = GrantedBack(r)
          /\ Counted(toHost[i].id)' = IF r = id THEN Counted(r) + n ELSE Counted(r)
      BY <1>4, <3>1 DEF GrantedBack, Counted
    <3>3. /\ toHost'[i].upto <= GrantedBack(r)
          /\ incoming[r].live => Counted(r) <= toHost'[i].upto - toHost'[i].n
      BY <2>1, <3>1 DEF IInv, CreditInv
    <3>4. n > 0 /\ r = id => Counted(r) + n <= toHost'[i].upto - toHost'[i].n
      <4>1. SUFFICES ASSUME n > 0, r = id
                     PROVE  Counted(r) + n <= toHost'[i].upto - toHost'[i].n
        OBVIOUS
      <4>2. d = 1 /\ 1 \in DOMAIN toHost /\ toHost[1].kind = "credit" /\ toHost[1].id = id /\ toHost[1].n = n
        BY <1>5, <4>1
      <4>3. 1 < i + d
        BY <1>2, <2>1, <4>2
      <4>4. toHost[1].upto <= toHost'[i].upto - toHost'[i].n
        BY <2>1, <3>1, <4>1, <4>2, <4>3 DEF IInv, CreditInv
      <4>5. Counted(id) <= toHost[1].upto - n
        BY <1>6, <4>2 DEF IInv, CreditInv
      <4>6. /\ Counted(id) \in Int /\ toHost[1].upto \in Nat
            /\ toHost'[i].upto \in Nat /\ toHost'[i].n \in Nat
        BY <1>1, <1>t, <2>1, <3>1, <4>2, CreditFrames
      <4>7. QED
        BY <4>1, <4>4, <4>5, <4>6
    <3>5. n = 0 \/ n > 0
      OBVIOUS
    <3>6. /\ Counted(r) \in Int /\ toHost'[i].upto \in Nat /\ toHost'[i].n \in Nat
          /\ incoming'[r].live => incoming[r].live
      BY <1>1, <1>t, <1>4, <2>1, <3>1, CreditFrames
    <3>7. QED
      BY <3>1, <3>2, <3>3, <3>4, <3>5, <3>6
  <2>2. ASSUME NEW r \in Ids
        PROVE  /\ incoming'[r].live => Counted(r)' <= GrantedBack(r)'
               /\ outgoing'[r].byHand =>
                    taken'[r] = outgoing'[r].granted + GrantedBack(r)'
    <3>1. CASE n = 0 \/ r # id
      <4>1. Counted(r) \in Int
        BY <1>t
      <4>2. Counted(r)' = Counted(r)
        BY <1>4, <3>1, <4>1
      <4>3. QED
        BY <1>1, <1>4, <4>2 DEF IInv, CreditInv
    <3>2. CASE n > 0 /\ r = id
      <4>1. /\ Counted(id) <= toHost[1].upto - n
            /\ toHost[1].upto <= GrantedBack(id)
        BY <1>5, <1>6, <3>2 DEF IInv, CreditInv
      <4>2. /\ Counted(id) \in Int /\ toHost[1].upto \in Nat /\ GrantedBack(id) \in Int
        BY <1>1, <1>t, <1>5, <3>2, CreditFrames
      <4>3. Counted(id) + n <= GrantedBack(id)
        BY <4>1, <4>2
      <4>4. QED
        BY <1>1, <1>4, <3>2, <4>3 DEF IInv, CreditInv
    <3>3. QED
      BY <3>1, <3>2
  <2>3. ASSUME NEW i \in DOMAIN toHost', NEW j \in DOMAIN toHost',
               i < j, toHost'[i].id = toHost'[j].id,
               toHost'[i].kind = "credit", toHost'[j].kind = "credit"
        PROVE  toHost'[i].upto <= toHost'[j].upto - toHost'[j].n
    <3>1. /\ i + d \in DOMAIN toHost /\ toHost'[i] = toHost[i + d]
          /\ j + d \in DOMAIN toHost /\ toHost'[j] = toHost[j + d]
          /\ i + d < j + d
      BY <1>2, <1>3, <2>3
    <3>2. QED
      BY <2>3, <3>1 DEF IInv, CreditInv
  <2>4. QED
    BY <2>1, <2>2, <2>3 DEF CreditInv
<1>11. RequestsInv'
  <2>1. ASSUME NEW i \in DOMAIN toHost', NEW j \in DOMAIN toHost',
               i < j, toHost'[i].kind = "request", toHost'[j].kind = "request"
        PROVE  toHost'[i].id < toHost'[j].id
    <3>1. /\ i + d \in DOMAIN toHost /\ toHost'[i] = toHost[i + d]
          /\ j + d \in DOMAIN toHost /\ toHost'[j] = toHost[j + d]
          /\ i + d < j + d
      BY <1>2, <1>3, <2>1
    <3>2. QED
      BY <2>1, <3>1 DEF IInv, RequestsInv
  <2>2. ASSUME NEW i \in DOMAIN toHost', toHost'[i].kind = "request"
        PROVE  toHost'[i].id > lastPeerId /\ (cState = "open" => outgoing[toHost'[i].id].live)
    BY <1>3, <2>2 DEF IInv, RequestsInv
  <2>3. QED
    BY <1>1, <1>4, <2>1, <2>2 DEF IInv, RequestsInv
<1>12. ResponsesInv'
  <2>1. cState # "open" => toClient' = <<>>
    BY DEF HostSends, SentToClient, IInv, ResponsesInv
  <2>2. ASSUME NEW i \in DOMAIN toClient'
        PROVE  /\ outgoing[toClient'[i].id].live
               /\ toClient'[i].kind = "response" => ~incoming'[toClient'[i].id].live
    <3>1. CASE i \in DOMAIN toClient /\ toClient'[i] = toClient[i]
      BY <1>2, <1>4, <3>1 DEF IInv, ResponsesInv
    <3>2. CASE i - Len(toClient) \in DOMAIN ms /\ toClient'[i] = ms[i - Len(toClient)] /\ cState = "open"
      BY <1>6, <1>7, <3>2
    <3>3. QED
      BY <1>8, <3>1, <3>2
  <2>3. ASSUME NEW i \in DOMAIN toClient', NEW j \in DOMAIN toClient',
               i < j, toClient'[i].id = toClient'[j].id
        PROVE  toClient'[i].kind = "chunk"
    <3>1. CASE j \in DOMAIN toClient /\ toClient'[j] = toClient[j]
      <4>1. i \in DOMAIN toClient /\ toClient'[i] = toClient[i]
        BY <1>1, <1>2, <1>8, <2>3, <3>1
      <4>2. QED
        BY <2>3, <3>1, <4>1 DEF IInv, ResponsesInv
    <3>2. CASE j - Len(toClient) \in DOMAIN ms /\ toClient'[j] = ms[j - Len(toClient)]
      <4>1. toClient'[i].id = id
        BY <1>7, <2>3, <3>2
      <4>2. CASE i \in DOMAIN toClient /\ toClient'[i] = toClient[i]
        <5>1. toClient[i].kind # "response"
          BY <1>6, <4>1, <4>2 DEF IInv, ResponsesInv
        <5>2. toClient[i].kind = "chunk" \/ toClient[i].kind = "response"
          BY <1>1, <4>2, ClientKinds
        <5>3. QED
          BY <4>2, <5>1, <5>2
      <4>3. CASE i - Len(toClient) \in DOMAIN ms /\ toClient'[i] = ms[i - Len(toClient)]
        <5> DEFINE a == i - Len(toClient)  b == j - Len(toClient)
        <5>1. a < b
          BY <1>t, <1>2, <2>3
        <5>2. /\ a \in DOMAIN ms /\ b \in DOMAIN ms /\ toClient'[i] = ms[a]
          BY <3>2, <4>3
        <5> HIDE DEF a, b
        <5>3. b <= k + 1 /\ a \in Nat /\ b \in Nat
          BY <1>7, <5>2
        <5>4. a # k + 1
          BY <5>1, <5>3
        <5>5. QED
          BY <1>7, <5>2, <5>4
      <4>4. QED
        BY <1>8, <4>2, <4>3
    <3>3. QED
      BY <1>8, <3>1, <3>2
  <2>4. QED
    BY <1>1, <2>1, <2>2, <2>3 DEF ResponsesInv
<1>13. ChunksInv'
  <2>1. ASSUME NEW i \in DOMAIN toClient', toClient'[i].kind = "chunk"
        PROVE  /\ outgoing[toClient'[i].id].nextSeq <= toClient'[i].seq
               /\ toClient'[i].seq < incoming'[toClient'[i].id].nextSeq
               /\ toClient'[i].seq > outgoing[toClient'[i].id].nextSeq =>
                    \E j \in DOMAIN toClient' :
                      /\ j < i /\ toClient'[j].kind = "chunk"
                      /\ toClient'[j].id = toClient'[i].id
                      /\ toClient'[j].seq = toClient'[i].seq - 1
    <3> DEFINE r == toClient'[i].id
    <3>1. CASE i \in DOMAIN toClient /\ toClient'[i] = toClient[i]
      <4>1. /\ outgoing[r].nextSeq <= toClient[i].seq
            /\ toClient[i].seq < incoming[r].nextSeq
            /\ toClient[i].seq > outgoing[r].nextSeq =>
                 \E j \in DOMAIN toClient :
                   /\ j < i /\ toClient[j].kind = "chunk"
                   /\ toClient[j].id = r /\ toClient[j].seq = toClient[i].seq - 1
        BY <2>1, <3>1 DEF IInv, ChunksInv
      <4>2. incoming[r].nextSeq \in Nat /\ incoming'[r].nextSeq \in Nat /\ toClient[i].seq \in Nat
        BY <1>1, <1>2, <2>1, <3>1, ClientKinds DEF Incoming
      <4>3. incoming[r].nextSeq <= incoming'[r].nextSeq
        BY <1>2, <1>4, <1>6, <2>1, <4>2
      <4>4. QED
        BY <1>8, <3>1, <4>1, <4>2, <4>3
    <3>2. CASE i - Len(toClient) \in DOMAIN ms /\ toClient'[i] = ms[i - Len(toClient)]
               /\ (\A j \in DOMAIN toClient : j < i) /\ cState = "open"
      <4> DEFINE a == i - Len(toClient)
      <4>1. /\ a \in DOMAIN ms /\ a \in Nat /\ 1 <= a /\ a <= k /\ r = id
            /\ toClient'[i].seq = incoming[id].nextSeq + a - 1
        BY <1>7, <2>1, <3>2
      <4>2. /\ outgoing[id].nextSeq <= incoming[id].nextSeq
            /\ incoming[id].nextSeq > outgoing[id].nextSeq =>
                 \E j \in DOMAIN toClient :
                   /\ toClient[j].kind = "chunk" /\ toClient[j].id = id
                   /\ toClient[j].seq = incoming[id].nextSeq - 1
            /\ incoming[id].nextSeq \in Nat /\ outgoing[id].nextSeq \in Nat
        BY <1>1, <1>6, <3>2 DEF IInv, ChunksInv, Outgoing, Incoming
      <4>3. CASE a = 1
        <5>1. toClient'[i].seq = incoming[id].nextSeq
          BY <4>1, <4>2, <4>3
        <5>2. QED
          BY <1>6, <1>8, <3>2, <4>1, <4>2, <4>3, <5>1
      <4>4. CASE a > 1
        <5>1. a - 1 \in DOMAIN ms
          BY <1>7, <4>1, <4>4
        <5>2. /\ Len(toClient) + (a - 1) \in DOMAIN toClient'
              /\ toClient'[Len(toClient) + (a - 1)] = ms[a - 1]
          BY <1>8, <3>2, <5>1
        <5>3. ms[a - 1].kind = "chunk" /\ ms[a - 1].id = id
              /\ ms[a - 1].seq = incoming[id].nextSeq + (a - 1) - 1
          BY <1>7, <4>1, <4>4, <5>1
        <5>4. Len(toClient) + (a - 1) < i
          BY <1>t, <1>2
        <5>5. /\ incoming[id].nextSeq + (a - 1) - 1 = toClient'[i].seq - 1
              /\ outgoing[id].nextSeq <= toClient'[i].seq
              /\ toClient'[i].seq < incoming'[id].nextSeq
          <6>1. /\ incoming[id].nextSeq \in Nat /\ a \in Nat /\ outgoing[id].nextSeq \in Nat
                /\ toClient'[i].seq = incoming[id].nextSeq + a - 1 /\ 1 <= a /\ a <= k
                /\ outgoing[id].nextSeq <= incoming[id].nextSeq
                /\ incoming'[id].nextSeq = incoming[id].nextSeq + k
            BY <1>6, <4>1, <4>2
          <6> HIDE DEF a
          <6>2. QED
            BY <6>1
        <5> HIDE DEF a
        <5>6. QED
          BY <4>1, <5>2, <5>3, <5>4, <5>5
      <4>5. QED
        BY <4>1, <4>3, <4>4
    <3>3. QED
      BY <1>8, <3>1, <3>2
  <2>2. ASSUME NEW i \in DOMAIN toClient', NEW j \in DOMAIN toClient',
               i < j, toClient'[i].id = toClient'[j].id,
               toClient'[i].kind = "chunk", toClient'[j].kind = "chunk"
        PROVE  toClient'[i].seq < toClient'[j].seq
    <3>1. CASE j \in DOMAIN toClient /\ toClient'[j] = toClient[j]
      <4>1. i \in DOMAIN toClient /\ toClient'[i] = toClient[i]
        BY <1>1, <1>2, <1>8, <2>2, <3>1
      <4>2. QED
        BY <2>2, <3>1, <4>1 DEF IInv, ChunksInv
    <3>2. CASE j - Len(toClient) \in DOMAIN ms /\ toClient'[j] = ms[j - Len(toClient)]
      <4> DEFINE b == j - Len(toClient)
      <4>1. /\ toClient'[j].id = id /\ 1 <= b /\ b \in Nat
            /\ toClient'[j].seq = incoming[id].nextSeq + b - 1
        BY <1>7, <2>2, <3>2
      <4>2. CASE i \in DOMAIN toClient /\ toClient'[i] = toClient[i]
        <5>1. toClient[i].seq < incoming[id].nextSeq /\ toClient[i].seq \in Nat
          BY <1>1, <2>2, <4>1, <4>2, ClientKinds DEF IInv, ChunksInv
        <5>2. QED
          BY <1>6, <4>1, <4>2, <5>1
      <4>3. CASE i - Len(toClient) \in DOMAIN ms /\ toClient'[i] = ms[i - Len(toClient)]
        <5> DEFINE a == i - Len(toClient)
        <5>1. a \in Nat /\ toClient'[i].seq = incoming[id].nextSeq + a - 1
          BY <1>7, <2>2, <4>3
        <5>0. a < b
          BY <1>t, <1>2, <2>2
        <5> HIDE DEF a, b
        <5>2. QED
          BY <1>6, <4>1, <5>0, <5>1
      <4>4. QED
        BY <1>8, <4>2, <4>3
    <3>3. QED
      BY <1>8, <3>1, <3>2
  <2>3. ASSUME NEW r \in Ids, incoming'[r].live, cState = "open"
        PROVE  /\ outgoing[r].nextSeq <= incoming'[r].nextSeq
               /\ incoming'[r].nextSeq > outgoing[r].nextSeq =>
                    \E i \in DOMAIN toClient' :
                      /\ toClient'[i].kind = "chunk" /\ toClient'[i].id = r
                      /\ toClient'[i].seq = incoming'[r].nextSeq - 1
    <3>1. /\ outgoing[r].nextSeq <= incoming[r].nextSeq
          /\ incoming[r].nextSeq > outgoing[r].nextSeq =>
               \E i \in DOMAIN toClient :
                 /\ toClient[i].kind = "chunk" /\ toClient[i].id = r
                 /\ toClient[i].seq = incoming[r].nextSeq - 1
          /\ incoming[r].nextSeq \in Nat /\ outgoing[r].nextSeq \in Nat
      BY <1>1, <1>4, <2>3 DEF IInv, ChunksInv, Outgoing, Incoming
    <3>2. CASE r # id \/ k = 0
      <4>1. incoming'[r].nextSeq = incoming[r].nextSeq
        BY <1>4, <1>6, <3>1, <3>2
      <4>2. QED
        BY <1>8, <3>1, <4>1
    <3>3. CASE r = id /\ k > 0
      <4>1. k \in DOMAIN ms /\ k \in 1..k
        BY <1>7, <3>3
      <4>2. /\ ms[k].kind = "chunk" /\ ms[k].id = id
            /\ ms[k].seq = incoming[id].nextSeq + k - 1
        BY <1>7, <4>1
      <4>3. Len(toClient) + k \in DOMAIN toClient' /\ toClient'[Len(toClient) + k] = ms[k]
        BY <1>8, <2>3, <4>1
      <4>4. /\ incoming'[id].nextSeq - 1 = incoming[id].nextSeq + k - 1
            /\ outgoing[id].nextSeq <= incoming'[id].nextSeq
        BY <1>6, <1>t, <3>1, <3>3
      <4>5. QED
        BY <3>3, <4>2, <4>3, <4>4
    <3>4. QED
      BY <3>2, <3>3
  <2>4. QED
    BY <1>1, <2>1, <2>2, <2>3 DEF ChunksInv
<1>14. QED
  BY <1>9, <1>10, <1>11, <1>12, <1>13 DEF HostSends, IInv

\* A response sent without chunks ahead of it.
LEMMA ResponseAlone ==
  ASSUME NEW id \in Ids, NEW answer \in Answers
  PROVE  Frame(<<Response(id, answer)>>, id, 0, TRUE)
<1>1. <<Response(id, answer)>> \in Seq(ClientMsg)
  BY DEF Response, ResponseMsg, ClientMsg
<1>2. QED
  BY <1>1 DEF Frame, Response

\* The host application's calls on a Responder.
LEMMA HostCallsKeep ==
  ASSUME IInv,
         \/ \E id \in Ids, paces \in BOOLEAN : HostChunk(id, paces)
         \/ \E id \in Ids, answer \in {"result", "error"} : HostAnswer(id, answer)
  PROVE  IInv'
<1>1. /\ TypeInv /\ TypeInv' /\ ~fault
      /\ outgoing \in [Ids -> Outgoing] /\ incoming \in [Ids -> Incoming]
      /\ toHost \in Seq(HostMsg) /\ toClient \in Seq(ClientMsg) /\ nextId \in Nat
  <2>1. TypeInv /\ ~fault
    BY DEF IInv
  <2>2. TypeInv'
    BY <2>1, HostCallsTyped
  <2>3. /\ outgoing \in [Ids -> Outgoing] /\ incoming \in [Ids -> Incoming]
        /\ toHost \in Seq(HostMsg) /\ toClient \in Seq(ClientMsg) /\ nextId \in Nat
    BY <2>1, BoundsAssumption DEF TypeInv, TypeOK
  <2>4. QED
    BY <2>1, <2>2, <2>3
<1>2. /\ \A i \in DOMAIN toHost : i \in Nat /\ i + 0 = i
      /\ \A i \in DOMAIN toClient : i \in Nat /\ \A j \in 1..i : j \in DOMAIN toClient
  BY <1>1
<1>3. cState # "open" => toClient = <<>>
  BY DEF IInv, ResponsesInv
<1>4. ASSUME NEW id \in Ids, NEW paces \in BOOLEAN, HostChunk(id, paces)
      PROVE  IInv'
  <2> DEFINE e == incoming[id]
             data == produced[id] + 1
  <2>1. e \in Incoming /\ e.live /\ e.nextSeq \in Nat /\ e.credit \in Nat /\ data \in Nat
    BY <1>1, <1>4 DEF HostChunk, Incoming, TypeInv, TypeOK
  <2>2. /\ UNCHANGED <<nextId, lastPeerId, taken, cState, hState, outgoing, toHost, fault>>
    BY <1>4 DEF HostChunk, clientVars
  <2>3. CASE MayGoOut(e)
    <3> DEFINE ms == <<Chunk(id, e.nextSeq, data)>>
    <3>1. incoming' = [incoming EXCEPT ![id] = Charged(e, 1)] /\ toClient' = SentToClient(ms)
      BY <1>4, <2>3 DEF HostChunk
    <3>2. /\ incoming'[id].nextSeq = e.nextSeq + 1
          /\ incoming'[id].credit = e.credit + 0 - 1
          /\ \A r \in Ids \ {id} : incoming'[r] = incoming[r]
      BY <1>1, <2>1, <3>1 DEF Charged, Incoming
    <3>3. ms \in Seq(ClientMsg)
      BY <2>1 DEF Chunk, ChunkMsg, ClientMsg
    <3>4. Frame(ms, id, 1, ~incoming'[id].live)
      BY <2>1, <3>3 DEF Frame, Chunk
    <3> HIDE DEF ms, e
    <3>5. HostSends(id, 0, 1, 0, ms)
      BY <1>1, <1>2, <2>1, <2>2, <3>1, <3>2, <3>4 DEF HostSends, e
    <3>6. QED
      BY <3>5, HostSendsStep
  <2>4. CASE ~MayGoOut(e)
    <3>1. /\ incoming' = [incoming EXCEPT ![id].queued = Append(@, data)]
          /\ toClient' = toClient
      BY <1>4, <2>4 DEF HostChunk
    <3>2. \A r \in Ids : /\ incoming'[r].live = incoming[r].live
                         /\ incoming'[r].nextSeq = incoming[r].nextSeq
                         /\ incoming'[r].credit = incoming[r].credit
      BY <1>1, <3>1 DEF Incoming
    <3>3. Quiet(0)
      BY <1>1, <1>2, <1>3, <2>2, <3>1, <3>2 DEF Quiet, OldOrCancel
    <3>4. QED
      BY <3>3, QuietStep
  <2>5. QED
    BY <2>3, <2>4
<1>5. ASSUME NEW id \in Ids, NEW answer \in {"result", "error"}, HostAnswer(id, answer)
      PROVE  IInv'
  <2> DEFINE e == incoming[id]
  <2>1. e \in Incoming /\ e.nextSeq \in Nat /\ e.credit \in Nat
    BY <1>1 DEF Incoming
  <2>2. /\ UNCHANGED <<nextId, lastPeerId, taken, cState, hState, outgoing, toHost, fault>>
    BY <1>5 DEF HostAnswer, clientVars
  <2>3. CASE e.live /\ MayAnswer(e)
    <3> DEFINE ms == <<Response(id, answer)>>
    <3>1. incoming' = [incoming EXCEPT ![id] = Stopped(@)] /\ toClient' = SentToClient(ms)
      BY <1>5, <2>3 DEF HostAnswer
    <3>2. /\ incoming'[id].nextSeq = e.nextSeq + 0
          /\ incoming'[id].credit = e.credit + 0 - 0
          /\ ~incoming'[id].live
          /\ \A r \in Ids \ {id} : incoming'[r] = incoming[r]
      BY <1>1, <2>1, <3>1 DEF Stopped, Incoming
    <3>3. Frame(ms, id, 0, ~incoming'[id].live)
      BY <3>2, ResponseAlone DEF Answers
    <3> HIDE DEF ms, e
    <3>4. HostSends(id, 0, 0, 0, ms)
      BY <1>1, <1>2, <2>1, <2>2, <2>3, <3>1, <3>2, <3>3 DEF HostSends, e
    <3>5. QED
      BY <3>4, HostSendsStep
  <2>4. CASE ~(e.live /\ MayAnswer(e))
    <3> DEFINE held == [e EXCEPT !.response = answer]
    <3>0. /\ held.live = e.live /\ held.nextSeq = e.nextSeq /\ held.credit = e.credit
      BY <2>1 DEF Incoming
    <3>1. /\ incoming' = incoming \/ incoming' = [incoming EXCEPT ![id] = held]
          /\ toClient' = toClient
      BY <1>5, <2>4 DEF HostAnswer
    <3> HIDE DEF held
    <3>2. \A r \in Ids : /\ incoming'[r].live = incoming[r].live
                         /\ incoming'[r].nextSeq = incoming[r].nextSeq
                         /\ incoming'[r].credit = incoming[r].credit
      BY <1>1, <3>0, <3>1
    <3>3. Quiet(0)
      BY <1>1, <1>2, <1>3, <2>2, <3>1, <3>2 DEF Quiet, OldOrCancel
    <3>4. QED
      BY <3>3, QuietStep
  <2>5. QED
    BY <2>3, <2>4
<1>6. QED
  BY <1>4, <1>5

\* The first frame of a channel leaves it.
LEMMA TakenFromHost ==
  ASSUME toHost \in Seq(HostMsg), toHost # <<>>, toHost' = Tail(toHost)
  PROVE  \A i \in DOMAIN toHost' : /\ i \in Nat /\ 1 <= i
                                   /\ i + 1 \in DOMAIN toHost /\ toHost'[i] = toHost[i + 1]
  OBVIOUS

\* A channel with one frame more at its end.
LEMMA Longer ==
  ASSUME NEW S, NEW c \in Seq(S), NEW x \in S
  PROVE  /\ c \o <<x>> = Append(c, x)
         /\ \A i \in DOMAIN Append(c, x) : \/ i \in DOMAIN c /\ Append(c, x)[i] = c[i]
                                           \/ i = Len(c) + 1 /\ Append(c, x)[i] = x
         /\ \A i \in DOMAIN c : i \in DOMAIN Append(c, x) /\ Append(c, x)[i] = c[i]
         /\ \A i \in DOMAIN c : i < Len(c) + 1
  OBVIOUS

\* A request that reaches the host is the next one: what the host knew, and what
\* is in flight, is about earlier ones or, behind it in the channel, later ones.
LEMMA ReceiveRequestKeeps ==
  ASSUME IInv, TypeInv', hState = "open", toHost # <<>>,
         NEW m, m = Head(toHost), m.kind = "request", NEW id \in Ids, m.id = id,
         ReceiveRequest(m), toHost' = Tail(toHost),
         UNCHANGED <<hState, produced, clientVars, fault>>
  PROVE  IInv'
<1>1. /\ toHost \in Seq(HostMsg) /\ toHost' \in Seq(HostMsg)
      /\ toClient \in Seq(ClientMsg) /\ toClient' \in Seq(ClientMsg)
      /\ nextId \in Nat /\ lastPeerId \in Nat
      /\ outgoing \in [Ids -> Outgoing] /\ incoming \in [Ids -> Incoming]
      /\ UNCHANGED <<nextId, taken, cState, hState, outgoing, fault>>
      /\ 1 \in DOMAIN toHost /\ toHost[1] = m /\ m.kind = "request" /\ m.id = id
  BY BoundsAssumption DEF IInv, TypeInv, TypeOK, clientVars
<1>2. /\ \A r \in Ids : r \in Nat
      /\ \A i \in DOMAIN toHost : i \in Nat /\ 1 <= i /\ toHost[i].id \in Ids /\ toHost[i].id \in Nat
      /\ \A i \in DOMAIN toHost' : i \in Nat /\ 1 <= i /\ toHost'[i].id \in Ids /\ toHost'[i].id \in Nat
      /\ \A i \in DOMAIN toClient : i \in Nat /\ 1 <= i /\ toClient[i].id \in Ids /\ toClient[i].id \in Nat
      /\ \A i \in DOMAIN toClient' : i \in Nat /\ 1 <= i /\ toClient'[i].id \in Ids /\ toClient'[i].id \in Nat
  BY <1>1, Frames, IdsAreNumbers
<1>3. \A i \in DOMAIN toHost' : /\ i + 1 \in DOMAIN toHost /\ toHost'[i] = toHost[i + 1]
                                /\ 1 < i + 1
  BY <1>1, TakenFromHost
<1>4. /\ id \in Ids /\ id \in Nat /\ lastPeerId < id /\ id < nextId
      /\ cState = "open" => outgoing[id].live
      /\ \A i \in DOMAIN toHost' : toHost'[i].kind = "request" => id < toHost'[i].id
  BY <1>1, <1>2, <1>3 DEF IInv, RequestsInv, IdsInv
<1>5. lastPeerId' = id
  BY <1>1 DEF ReceiveRequest
<1>6. \A r \in Ids : r # id => incoming'[r] = incoming[r]
  BY <1>1, <1>4 DEF ReceiveRequest
\* Nothing was known of the request.
<1>7. /\ ~incoming[id].live
      /\ outgoing[id].nextSeq = 0 /\ outgoing[id].consumed = 0
      /\ \A i \in DOMAIN toClient : toClient[i].id < id
      /\ \A i \in DOMAIN toHost' : toHost'[i].kind = "credit" => toHost'[i].id < id
  <2>1. ~incoming[id].live /\ ~(outgoing[id].nextSeq > 0)
    BY <1>1, <1>4 DEF IInv, IdsInv
  <2>2. outgoing[id].nextSeq \in Nat /\ outgoing[id].consumed \in Nat /\ outgoing[id].consumed <= outgoing[id].nextSeq
    BY <1>1, <1>4 DEF IInv, TypeInv, ConsumedHeard, Outgoing
  <2>3. \A i \in DOMAIN toClient : toClient[i].id < id
    BY <1>1, <1>2, <1>4 DEF IInv, IdsInv
  <2>4. \A i \in DOMAIN toHost' : toHost'[i].kind = "credit" => toHost'[i].id < id
    BY <1>1, <1>2, <1>3, <1>4 DEF IInv, IdsInv
  <2>5. QED
    BY <2>1, <2>2, <2>3, <2>4
\* Either it is accepted, or it is answered at once.
<1>8. \/ incoming'[id] = NewIncoming /\ toClient' = toClient
      \/ /\ incoming'[id] = incoming[id]
         /\ \A i \in DOMAIN toClient' :
              \/ i \in DOMAIN toClient /\ toClient'[i] = toClient[i]
              \/ /\ toClient'[i].id = id /\ toClient'[i].kind = "response"
                 /\ i = Len(toClient) + 1 /\ cState = "open"
         /\ \A i \in DOMAIN toClient : i \in DOMAIN toClient' /\ toClient'[i] = toClient[i]
  <2>1. CASE incoming' = [incoming EXCEPT ![id] = NewIncoming] /\ toClient' = toClient
    BY <1>1, <1>4, <2>1
  <2>2. CASE incoming' = incoming /\ toClient' = SentToClient(<<Response(id, "error")>>)
    <3>1. CASE toClient' = toClient
      BY <2>2, <3>1
    <3> DEFINE x == Response(id, "error")
               grown == Append(toClient, x)
    <3>2. x.id = id /\ x.kind = "response" /\ x \in ClientMsg
      BY DEF Response, ResponseMsg, ClientMsg, Answers
    <3>3. \/ SentToClient(<<x>>) = toClient
          \/ cState = "open" /\ SentToClient(<<x>>) = toClient \o <<x>>
      BY DEF SentToClient
    <3> HIDE DEF x
    <3>4. /\ toClient \o <<x>> = grown
          /\ \A i \in DOMAIN grown : \/ i \in DOMAIN toClient /\ grown[i] = toClient[i]
                                     \/ i = Len(toClient) + 1 /\ grown[i] = x
          /\ \A i \in DOMAIN toClient : i \in DOMAIN grown /\ grown[i] = toClient[i]
      BY <1>1, <3>2, Longer
    <3> HIDE DEF grown
    <3>5. toClient' = toClient \/ (cState = "open" /\ toClient' = grown)
      BY <2>2, <3>3, <3>4 DEF x
    <3>6. QED
      BY <2>2, <3>1, <3>2, <3>4, <3>5
  <2>3. QED
    BY <1>1, <2>1, <2>2 DEF ReceiveRequest
<1>9. IdsInv'
  <2>1. ASSUME NEW i \in DOMAIN toClient'
        PROVE  toClient'[i].id <= id
    BY <1>2, <1>4, <1>7, <1>8
  <2>2. ASSUME NEW i \in DOMAIN toHost'
        PROVE  /\ toHost'[i].id < nextId
               /\ toHost'[i].kind = "credit" => toHost'[i].id <= id
    <3>1. toHost'[i].id < nextId
      BY <1>3 DEF IInv, IdsInv
    <3>2. toHost'[i].kind = "credit" => toHost'[i].id < id
      BY <1>7
    <3>3. QED
      BY <1>2, <1>4, <3>1, <3>2
  <2>3. ASSUME NEW r \in Ids
        PROVE  /\ outgoing[r].live => r < nextId
               /\ r >= nextId => taken[r] = 0
               /\ incoming'[r].live => r <= id
               /\ outgoing[r].nextSeq > 0 => r <= id
    BY <1>1, <1>2, <1>4, <1>6 DEF IInv, IdsInv
  <2>4. QED
    BY <1>1, <1>4, <1>5, <2>1, <2>2, <2>3 DEF IdsInv
<1>10. CreditInv'
  <2>1. \A r \in Ids : /\ GrantedBack(r)' = GrantedBack(r)
                       /\ r # id => Counted(r)' = Counted(r)
    BY <1>1, <1>6 DEF GrantedBack, Counted
  <2>2. incoming'[id].live => Counted(id)' = 0
    <3>1. incoming'[id].live => incoming'[id] = NewIncoming
      BY <1>7, <1>8
    <3>2. NewIncoming.nextSeq = 0 /\ NewIncoming.credit = Window /\ Window \in Nat
      BY WindowAssumption DEF NewIncoming
    <3>3. QED
      BY <3>1, <3>2 DEF Counted
  <2>3. GrantedBack(id) = 0
    BY <1>7 DEF GrantedBack
  <2>4. ASSUME NEW r \in Ids
        PROVE  /\ incoming'[r].live => Counted(r)' <= GrantedBack(r)'
               /\ outgoing'[r].byHand =>
                    taken'[r] = outgoing'[r].granted + GrantedBack(r)'
    <3>1. CASE r = id
      BY <1>1, <2>1, <2>2, <2>3, <3>1 DEF IInv, CreditInv
    <3>2. CASE r # id
      BY <1>1, <1>6, <2>1, <3>2 DEF IInv, CreditInv
    <3>3. QED
      BY <3>1, <3>2
  <2>5. ASSUME NEW i \in DOMAIN toHost', toHost'[i].kind = "credit"
        PROVE  /\ toHost'[i].upto <= GrantedBack(toHost[i].id)'
               /\ incoming'[toHost'[i].id].live =>
                    Counted(toHost[i].id)' <= toHost'[i].upto - toHost'[i].n
    <3>1. /\ i + 1 \in DOMAIN toHost /\ toHost'[i] = toHost[i + 1]
          /\ toHost'[i].id \in Ids /\ toHost'[i].id # id
      BY <1>2, <1>3, <1>4, <1>7, <2>5
    <3>2. /\ GrantedBack(toHost[i].id)' = GrantedBack(toHost[i + 1].id)
          /\ Counted(toHost[i].id)' = Counted(toHost[i + 1].id)
      BY <2>1, <3>1 DEF GrantedBack, Counted
    <3>3. incoming'[toHost'[i].id] = incoming[toHost'[i].id]
      BY <1>6, <3>1
    <3>4. QED
      BY <2>5, <3>1, <3>2, <3>3 DEF IInv, CreditInv
  <2>6. ASSUME NEW i \in DOMAIN toHost', NEW j \in DOMAIN toHost',
               i < j, toHost'[i].id = toHost'[j].id,
               toHost'[i].kind = "credit", toHost'[j].kind = "credit"
        PROVE  toHost'[i].upto <= toHost'[j].upto - toHost'[j].n
    <3>1. i + 1 < j + 1
      BY <1>2, <2>6
    <3>2. QED
      BY <1>3, <2>6, <3>1 DEF IInv, CreditInv
  <2>7. QED
    BY <2>4, <2>5, <2>6 DEF CreditInv
<1>11. RequestsInv'
  <2>1. ASSUME NEW i \in DOMAIN toHost', toHost'[i].kind = "request"
        PROVE  id < toHost'[i].id /\ (cState = "open" => outgoing[toHost'[i].id].live)
    BY <1>3, <1>4, <2>1 DEF IInv, RequestsInv
  <2>2. ASSUME NEW i \in DOMAIN toHost', NEW j \in DOMAIN toHost',
               i < j, toHost'[i].kind = "request", toHost'[j].kind = "request"
        PROVE  toHost'[i].id < toHost'[j].id
    <3>1. i + 1 < j + 1
      BY <1>2, <2>2
    <3>2. QED
      BY <1>3, <2>2, <3>1 DEF IInv, RequestsInv
  <2>3. ASSUME NEW r \in Ids, incoming'[r].live
        PROVE  hState = "open" /\ (cState = "open" => outgoing[r].live)
    BY <1>4, <1>6, <2>3 DEF IInv, RequestsInv
  <2>4. QED
    BY <1>1, <1>2, <1>5, <2>1, <2>2, <2>3 DEF RequestsInv
<1>12. ResponsesInv'
  <2>1. cState # "open" => toClient' = <<>>
    <3>1. cState # "open" => toClient = <<>>
      BY DEF IInv, ResponsesInv
    <3>2. QED
      BY <1>1, <3>1 DEF ReceiveRequest, SentToClient
  <2>2. ASSUME NEW i \in DOMAIN toClient'
        PROVE  /\ outgoing[toClient'[i].id].live
               /\ toClient'[i].kind = "response" => ~incoming'[toClient'[i].id].live
    <3>1. CASE i \in DOMAIN toClient /\ toClient'[i] = toClient[i]
      <4>1. toClient[i].id \in Ids /\ toClient[i].id # id
        BY <1>2, <1>4, <1>7, <3>1
      <4>2. incoming'[toClient[i].id] = incoming[toClient[i].id]
        BY <1>6, <4>1
      <4>3. QED
        BY <3>1, <4>2 DEF IInv, ResponsesInv
    <3>2. CASE toClient'[i].id = id /\ cState = "open" /\ incoming'[id] = incoming[id]
      BY <1>4, <1>7, <3>2
    <3>3. QED
      BY <1>8, <3>1, <3>2
  <2>3. ASSUME NEW i \in DOMAIN toClient', NEW j \in DOMAIN toClient',
               i < j, toClient'[i].id = toClient'[j].id
        PROVE  toClient'[i].kind = "chunk"
    <3>1. CASE j \in DOMAIN toClient /\ toClient'[j] = toClient[j]
      <4>1. i \in DOMAIN toClient /\ toClient'[i] = toClient[i]
        BY <1>1, <1>2, <1>8, <2>3, <3>1
      <4>2. QED
        BY <2>3, <3>1, <4>1 DEF IInv, ResponsesInv
    <3>2. CASE j = Len(toClient) + 1 /\ toClient'[j].id = id
      <4>1. i # Len(toClient) + 1
        BY <1>2, <2>3, <3>2
      <4>2. i \in DOMAIN toClient /\ toClient'[i] = toClient[i]
        BY <1>8, <4>1
      <4>3. QED
        BY <1>2, <1>4, <1>7, <2>3, <3>2, <4>2
    <3>3. QED
      BY <1>8, <3>1, <3>2
  <2>4. QED
    BY <1>1, <2>1, <2>2, <2>3 DEF ResponsesInv
<1>13. ChunksInv'
  <2>1. \A i \in DOMAIN toClient' : toClient'[i].kind = "chunk" =>
          /\ i \in DOMAIN toClient /\ toClient'[i] = toClient[i]
          /\ incoming'[toClient[i].id] = incoming[toClient[i].id]
    <3>1. ASSUME NEW i \in DOMAIN toClient', toClient'[i].kind = "chunk"
          PROVE  i \in DOMAIN toClient /\ toClient'[i] = toClient[i]
      BY <1>8, <3>1
    <3>2. QED
      BY <1>2, <1>4, <1>6, <1>7, <3>1
  <2>2. \A i \in DOMAIN toClient : i \in DOMAIN toClient' /\ toClient'[i] = toClient[i]
    BY <1>8
  <2>3. ASSUME NEW i \in DOMAIN toClient', toClient'[i].kind = "chunk"
        PROVE  /\ outgoing[toClient'[i].id].nextSeq <= toClient'[i].seq
               /\ toClient'[i].seq < incoming'[toClient'[i].id].nextSeq
               /\ toClient'[i].seq > outgoing[toClient'[i].id].nextSeq =>
                    \E j \in DOMAIN toClient' :
                      /\ j < i /\ toClient'[j].kind = "chunk"
                      /\ toClient'[j].id = toClient'[i].id
                      /\ toClient'[j].seq = toClient'[i].seq - 1
    BY <2>1, <2>2, <2>3 DEF IInv, ChunksInv
  <2>4. ASSUME NEW i \in DOMAIN toClient', NEW j \in DOMAIN toClient',
               i < j, toClient'[i].id = toClient'[j].id,
               toClient'[i].kind = "chunk", toClient'[j].kind = "chunk"
        PROVE  toClient'[i].seq < toClient'[j].seq
    BY <2>1, <2>4 DEF IInv, ChunksInv
  <2>5. ASSUME NEW r \in Ids, incoming'[r].live, cState = "open"
        PROVE  /\ outgoing[r].nextSeq <= incoming'[r].nextSeq
               /\ incoming'[r].nextSeq > outgoing[r].nextSeq =>
                    \E i \in DOMAIN toClient' :
                      /\ toClient'[i].kind = "chunk" /\ toClient'[i].id = r
                      /\ toClient'[i].seq = incoming'[r].nextSeq - 1
    <3>1. CASE r = id
      BY <1>7, <1>8, <2>5, <3>1 DEF NewIncoming
    <3>2. CASE r # id
      BY <1>6, <2>2, <2>5, <3>2 DEF IInv, ChunksInv
    <3>3. QED
      BY <3>1, <3>2
  <2>6. QED
    BY <1>1, <2>3, <2>4, <2>5 DEF ChunksInv
<1>14. QED
  BY <1>1, <1>9, <1>10, <1>11, <1>12, <1>13 DEF IInv

\* What a flush sends: queued chunks, then perhaps the held response.
LEMMA FlushFrame ==
  ASSUME TypeOK, NEW id \in Ids, NEW k \in 0..Len(incoming[id].queued), NEW last \in BOOLEAN,
         NEW held, last => held \in Answers
  PROVE  Frame(QueuedChunks(id, k) \o (IF last THEN <<Response(id, held)>> ELSE <<>>), id, k, last)
<1> DEFINE q == QueuedChunks(id, k)
           w == Response(id, held)
<1>1. /\ q \in Seq(ClientMsg) /\ k \in Nat /\ incoming[id].nextSeq \in Nat
      /\ DOMAIN q = 1..k /\ Len(q) = k
      /\ \A i \in 1..k : /\ q[i].id = id /\ q[i].kind = "chunk"
                         /\ q[i].seq = incoming[id].nextSeq + i - 1
  <2>1. incoming[id].queued \in Seq(Nat) /\ incoming[id].nextSeq \in Nat
    BY DEF TypeOK, Incoming
  <2>2. k \in Nat /\ q \in Seq(ClientMsg)
    BY <2>1, QueuedChunksTyped
  <2>3. DOMAIN q = 1..k
    BY DEF QueuedChunks
  <2>4. \A i \in 1..k : /\ q[i].id = id /\ q[i].kind = "chunk"
                        /\ q[i].seq = incoming[id].nextSeq + i - 1
    BY DEF QueuedChunks, Chunk
  <2> HIDE DEF q
  <2>5. QED
    BY <2>1, <2>2, <2>3, <2>4
<1>2. last => w \in ClientMsg /\ w.id = id /\ w.kind = "response"
  BY DEF Response, ResponseMsg, ClientMsg
<1> HIDE DEF q, w
<1>3. CASE last
  <2> DEFINE grown == Append(q, w)
  <2>1. /\ q \o <<w>> = grown /\ grown \in Seq(ClientMsg)
        /\ \A i \in DOMAIN grown : \/ i \in DOMAIN q /\ grown[i] = q[i]
                                   \/ i = Len(q) + 1 /\ grown[i] = w
        /\ \A i \in DOMAIN q : i \in DOMAIN grown /\ grown[i] = q[i]
    BY <1>1, <1>2, <1>3, Longer
  <2> HIDE DEF grown
  <2>2. Frame(grown, id, k, last)
    BY <1>1, <1>2, <1>3, <2>1 DEF Frame
  <2>3. QED
    BY <1>3, <2>1, <2>2 DEF q, w
<1>4. CASE ~last
  <2>1. q \o <<>> = q
    BY <1>1
  <2>2. Frame(q, id, k, last)
    BY <1>1 DEF Frame
  <2>3. QED
    BY <1>4, <2>1, <2>2 DEF q
<1>5. QED
  BY <1>3, <1>4

\* What a flush that counts n credits and spends k leaves in the entry.
Flushed(e, n, k, rest) == [Charged([e EXCEPT !.credit = @ + n], k) EXCEPT !.queued = rest]

\* A flush leaves what the host has counted as it was plus the grant.
LEMMA FlushedCounts ==
  \A e \in Incoming : \A n \in Nat, k \in Nat : \A rest : \A f : f = Flushed(e, n, k, rest) =>
    /\ f.live = e.live /\ f.nextSeq = e.nextSeq + k
    /\ f.credit = e.credit + n - k
    /\ ~Stopped(f).live /\ Stopped(f).nextSeq = f.nextSeq
    /\ Stopped(f).credit = f.credit
<1> TAKE e \in Incoming
<1> TAKE n \in Nat, k \in Nat
<1> TAKE rest
<1> DEFINE c    == [e EXCEPT !.credit = @ + n]
           d    == Charged(c, k)
           left == [d EXCEPT !.queued = rest]
<1>1. /\ c.live = e.live /\ c.nextSeq = e.nextSeq /\ c.credit = e.credit + n
      /\ DOMAIN c = {"live", "credit", "nextSeq", "queued", "response"}
  BY DEF Incoming
<1> HIDE DEF c
<1>2. /\ d.live = c.live /\ d.nextSeq = c.nextSeq + k /\ d.credit = c.credit - k
      /\ DOMAIN d = {"live", "credit", "nextSeq", "queued", "response"}
  <2>1. c.credit \in Nat /\ c.nextSeq \in Nat
    BY <1>1 DEF Incoming
  <2>2. d = [c EXCEPT !.credit = c.credit - k, !.nextSeq = c.nextSeq + k]
    BY DEF Charged
  <2> HIDE DEF d
  <2>3. QED
    BY <1>1, <2>1, <2>2
<1> HIDE DEF d
<1>3. /\ left.live = d.live /\ left.nextSeq = d.nextSeq /\ left.credit = d.credit
      /\ DOMAIN left = {"live", "credit", "nextSeq", "queued", "response"}
  BY <1>2
<1> HIDE DEF left
<1>4. /\ ~Stopped(left).live /\ Stopped(left).nextSeq = left.nextSeq
      /\ Stopped(left).credit = left.credit
  BY <1>3 DEF Stopped
<1>5. /\ e.credit \in Nat /\ e.nextSeq \in Nat
  BY DEF Incoming
<1>6. /\ left.live = e.live /\ left.nextSeq = e.nextSeq + k
      /\ left.credit = e.credit + n - k
  BY <1>1, <1>2, <1>3, <1>5
<1>7. left = Flushed(e, n, k, rest)
  BY DEF c, d, left, Flushed
<1>8. QED
  BY <1>4, <1>6, <1>7

\* What the host receives.
LEMMA HostReceiveKeeps == IInv /\ HostReceive => IInv'
<1> SUFFICES ASSUME IInv, HostReceive
             PROVE  IInv'
  OBVIOUS
<1>1. PICK m : m = Head(toHost)
  OBVIOUS
<1>2. PICK id : id = m.id
  OBVIOUS
<1>3. /\ TypeInv /\ ~fault /\ hState = "open" /\ toHost # <<>>
      /\ toHost \in Seq(HostMsg) /\ toClient \in Seq(ClientMsg) /\ nextId \in Nat
      /\ outgoing \in [Ids -> Outgoing] /\ incoming \in [Ids -> Incoming]
      /\ cState # "open" => toClient = <<>>
  <2>1. TypeInv
    BY DEF IInv
  <2>2. QED
    BY <2>1, BoundsAssumption DEF IInv, HostReceive, TypeInv, TypeOK, ResponsesInv
<1>4. TypeInv'
  BY <1>3, HostReceiveTyped
<1>5. /\ m \in HostMsg /\ id \in Ids /\ 1 \in DOMAIN toHost /\ toHost[1] = m
  BY <1>1, <1>2, <1>3 DEF HostMsg, RequestMsg, CancelMsg, CreditMsg
<1>6. HostExpects(m)
  BY <1>1, <1>5 DEF HostExpects, IInv, RequestsInv
<1>7. /\ \/ m.kind = "request" /\ ReceiveRequest(m)
         \/ m.kind = "credit" /\ ReceiveCredit(m) /\ UNCHANGED <<lastPeerId, responder>>
         \/ m.kind = "cancel" /\ ReceiveCancel(m) /\ UNCHANGED <<lastPeerId, responder>>
      /\ toHost' = Tail(toHost)
      /\ UNCHANGED <<hState, produced, clientVars, fault>>
  <2>1. m.kind \in {"request", "credit", "cancel"}
    BY <1>5 DEF HostMsg, RequestMsg, CancelMsg, CreditMsg
  <2>2. QED
    BY <1>1, <1>6, <2>1 DEF HostReceive
<1>8. /\ \A i \in DOMAIN toHost' : /\ i \in Nat /\ 1 <= i
                                   /\ i + 1 \in DOMAIN toHost /\ toHost'[i] = toHost[i + 1]
      /\ \A i \in DOMAIN toClient : i \in Nat /\ \A j \in 1..i : j \in DOMAIN toClient
      /\ UNCHANGED <<nextId, taken, cState, hState, outgoing, fault>>
  BY <1>3, <1>7, TakenFromHost DEF clientVars
<1>9. CASE m.kind = "request"
  BY <1>1, <1>2, <1>3, <1>4, <1>5, <1>7, <1>9, ReceiveRequestKeeps
\* The frame is about a request that is over.
<1>10. CASE lastPeerId' = lastPeerId /\ incoming' = incoming /\ toClient' = toClient
  <2>1. Quiet(1)
    BY <1>3, <1>4, <1>8, <1>10 DEF Quiet, OldOrCancel
  <2>2. QED
    BY <2>1, QuietStep
<1>11. CASE m.kind = "credit" /\ incoming[id].live
  <2> DEFINE e == incoming[id]
             k == MinOf(e.credit + m.n, Len(e.queued))
             rest == SubSeq(e.queued, k + 1, Len(e.queued))
             left == [Charged([e EXCEPT !.credit = @ + m.n], k) EXCEPT !.queued = rest]
             last == rest = <<>> /\ e.response # "none"
             new == IF last THEN Stopped(left) ELSE left
             ms == QueuedChunks(id, k) \o (IF last THEN <<Response(id, e.response)>> ELSE <<>>)
  <2>1. /\ incoming' = [incoming EXCEPT ![id] = new]
        /\ toClient' = SentToClient(ms)
        /\ UNCHANGED <<lastPeerId>>
    BY <1>2, <1>7, <1>11 DEF ReceiveCredit
  <2>2. m.n \in Nat
    BY <1>5, <1>11 DEF HostMsg, RequestMsg, CancelMsg, CreditMsg
  <2>3. /\ e \in Incoming /\ e.credit \in Nat /\ e.nextSeq \in Nat /\ e.queued \in Seq(Nat)
        /\ e.response \in {"none", "result", "error"} /\ e.live
    BY <1>3, <1>5, <1>11 DEF Incoming
  <2>4. k \in 0..Len(e.queued) /\ k \in Nat
    BY <2>2, <2>3 DEF MinOf
  <2>5. last \in BOOLEAN /\ (last => e.response \in Answers)
    BY <2>3 DEF Answers
  <2>6. Frame(ms, id, k, last)
    <3>1. TypeOK
      BY <1>3 DEF TypeInv
    <3> DEFINE held == e.response
    <3>2. k \in 0..Len(incoming[id].queued) /\ last \in BOOLEAN /\ (last => held \in Answers)
      BY <2>4, <2>5
    <3> HIDE DEF k, last, held
    <3>3. Frame(QueuedChunks(id, k) \o (IF last THEN <<Response(id, held)>> ELSE <<>>), id, k, last)
      BY <1>5, <3>1, <3>2, FlushFrame
    <3>4. QED
      BY <3>3 DEF held
  <2>7. /\ left.live /\ left.nextSeq = e.nextSeq + k /\ left.credit = e.credit + m.n - k
        /\ new.live <=> ~last
        /\ new.nextSeq = left.nextSeq /\ new.credit = left.credit
    <3>0. e.live
      BY <2>3
    <3>1. e \in Incoming /\ m.n \in Nat /\ k \in Nat
      BY <2>2, <2>3, <2>4
    <3>2. left = Flushed(e, m.n, k, rest)
      BY DEF Flushed
    <3>3. new = IF last THEN Stopped(left) ELSE left
      OBVIOUS
    <3> HIDE DEF e, k, rest, left, new, last, ms
    <3>4. /\ left.live = e.live /\ left.nextSeq = e.nextSeq + k /\ left.credit = e.credit + m.n - k
          /\ ~Stopped(left).live /\ Stopped(left).nextSeq = left.nextSeq
          /\ Stopped(left).credit = left.credit
      <4>1. \A y : \A f : f = Flushed(e, m.n, k, y) =>
              /\ f.live = e.live /\ f.nextSeq = e.nextSeq + k
              /\ f.credit = e.credit + m.n - k
              /\ ~Stopped(f).live /\ Stopped(f).nextSeq = f.nextSeq
              /\ Stopped(f).credit = f.credit
        BY <3>1, FlushedCounts, Zenon
      <4>2. QED
        BY <3>2, <4>1, Zenon
    <3>5. left.live
      BY <3>0, <3>4
    <3>6. CASE last
      BY <3>3, <3>4, <3>5, <3>6
    <3>7. CASE ~last
      BY <3>3, <3>4, <3>5, <3>7
    <3>8. QED
      BY <2>5, <3>6, <3>7
  <2> HIDE DEF k, ms, new, left, last
  <2>8. /\ incoming'[id].live <=> ~last
        /\ incoming'[id].nextSeq = e.nextSeq + k
        /\ incoming'[id].credit = e.credit + m.n - k
        /\ \A r \in Ids \ {id} : incoming'[r] = incoming[r]
    BY <1>3, <1>5, <2>1, <2>7
  <2>9. Frame(ms, id, k, ~incoming'[id].live)
    BY <2>5, <2>6, <2>8 DEF Frame
  <2>10. HostSends(id, m.n, k, 1, ms)
    BY <1>2, <1>3, <1>4, <1>5, <1>8, <1>11, <2>1, <2>3, <2>8, <2>9 DEF HostSends
  <2>11. QED
    BY <1>5, <2>2, <2>4, <2>10, HostSendsStep
<1>12. CASE m.kind = "cancel" /\ incoming[id].live
  <2> DEFINE e == incoming[id]
             ms == <<Response(id, "cancelled")>>
  <2>1. /\ incoming' = [incoming EXCEPT ![id] = Stopped(@)] /\ toClient' = SentToClient(ms)
        /\ UNCHANGED <<lastPeerId>>
    BY <1>2, <1>7, <1>12 DEF ReceiveCancel
  <2>2. e \in Incoming /\ e.nextSeq \in Nat /\ e.credit \in Nat
    BY <1>3, <1>5 DEF Incoming
  <2>3. /\ incoming'[id].nextSeq = e.nextSeq + 0
        /\ incoming'[id].credit = e.credit + 0 - 0
        /\ ~incoming'[id].live
        /\ \A r \in Ids \ {id} : incoming'[r] = incoming[r]
    BY <1>3, <1>5, <2>1, <2>2 DEF Stopped, Incoming
  <2>4. Frame(ms, id, 0, ~incoming'[id].live)
    BY <1>5, <2>3, ResponseAlone DEF Answers
  <2> HIDE DEF ms
  <2>5. HostSends(id, 0, 0, 1, ms)
    BY <1>3, <1>4, <1>8, <1>12, <2>1, <2>2, <2>3, <2>4 DEF HostSends
  <2>6. QED
    BY <1>5, <2>5, HostSendsStep
<1>13. QED
  BY <1>2, <1>7, <1>9, <1>10, <1>11, <1>12 DEF ReceiveCredit, ReceiveCancel

-----------------------------------------------------------------------------
(* Steps of the client that hear a frame or grant credit *)

\* For request id the client hears c frames (h of them chunks, the other one its
\* response), moves its grants up, and says ms to the host.
ClientHears(id, c, h, ms) ==
  /\ TypeInv /\ TypeInv' /\ ~fault'
  /\ cState = "open" /\ outgoing[id].live
  /\ UNCHANGED <<nextId, lastPeerId, cState, hState, incoming>>
  /\ \A r \in Ids \ {id} : outgoing'[r] = outgoing[r] /\ taken'[r] = taken[r]
  /\ outgoing'[id].nextSeq = outgoing[id].nextSeq + h
  /\ outgoing'[id].live \/ (c = 1 /\ h = 0)
  /\ c = 0 => h = 0 /\ toClient' = toClient
  /\ c = 1 => /\ toClient # <<>> /\ toClient[1].id = id /\ toClient' = Tail(toClient)
              /\ h = 0 => toClient[1].kind = "response"
              /\ h = 1 => toClient[1].kind = "chunk" /\ toClient[1].seq = outgoing[id].nextSeq
  /\ GrantedBack(id) <= GrantedBack(id)'
  /\ outgoing'[id].byHand => taken'[id] = outgoing'[id].granted + GrantedBack(id)'
  /\ ms \in Seq(HostMsg)
  /\ \A i \in DOMAIN ms :
       /\ i = 1 /\ ms[i].id = id
       /\ \/ ms[i].kind = "cancel"
          \/ /\ ms[i].kind = "credit" /\ outgoing'[id].nextSeq > 0
             /\ ms[i].upto = GrantedBack(id)' /\ ms[i].upto - ms[i].n = GrantedBack(id)
  /\ toHost' = SentToHost(ms)

\* The client takes the next frame of a request, or its consumer grants by hand
\* (ReceiveChunk, ReceiveResponse, Grant), and it may send one frame:
\* the invariant is kept.
LEMMA ClientHearsStep ==
  ASSUME IInv, NEW id \in Ids, NEW c \in {0, 1}, NEW h \in {0, 1}, NEW ms,
         ClientHears(id, c, h, ms)
  PROVE  IInv'
<1>1. /\ toHost \in Seq(HostMsg) /\ toHost' \in Seq(HostMsg)
      /\ toClient \in Seq(ClientMsg) /\ toClient' \in Seq(ClientMsg)
      /\ nextId \in Nat /\ lastPeerId \in Nat
      /\ outgoing \in [Ids -> Outgoing] /\ incoming \in [Ids -> Incoming]
      /\ outgoing' \in [Ids -> Outgoing]
      /\ UNCHANGED <<nextId, lastPeerId, cState, hState, incoming>>
  BY BoundsAssumption DEF ClientHears, TypeInv, TypeOK
<1>2. /\ \A r \in Ids : r \in Nat
      /\ \A i \in DOMAIN toHost : i \in Nat /\ 1 <= i /\ toHost[i].id \in Ids /\ toHost[i].id \in Nat
      /\ \A i \in DOMAIN toHost' : i \in Nat /\ 1 <= i /\ toHost'[i].id \in Ids /\ toHost'[i].id \in Nat
      /\ \A i \in DOMAIN toClient : i \in Nat /\ 1 <= i /\ toClient[i].id \in Ids /\ toClient[i].id \in Nat
      /\ \A i \in DOMAIN toClient' : i \in Nat /\ 1 <= i /\ toClient'[i].id \in Ids /\ toClient'[i].id \in Nat
  BY <1>1, Frames, IdsAreNumbers
<1>3. /\ \A r \in Ids : /\ incoming[r].nextSeq \in Nat /\ Counted(r) \in Int
                        /\ outgoing[r].nextSeq \in Nat /\ outgoing'[r].nextSeq \in Nat
                        /\ GrantedBack(r) \in Int /\ GrantedBack(r)' \in Int
                        /\ Counted(r)' = Counted(r)
  <2>1. Window \in Nat
    BY WindowAssumption
  <2>2. \A r \in Ids : /\ incoming[r].nextSeq \in Nat /\ incoming[r].credit \in Nat
                       /\ outgoing[r].nextSeq \in Nat /\ outgoing[r].consumed \in Nat
                       /\ outgoing'[r].nextSeq \in Nat /\ outgoing'[r].consumed \in Nat
    BY <1>1 DEF Incoming, Outgoing
  <2>3. \A r \in Ids : /\ Counted(r) \in Int /\ GrantedBack(r) \in Int /\ GrantedBack(r)' \in Int
    BY <2>1, <2>2 DEF Counted, GrantedBack
  <2>4. \A r \in Ids : Counted(r)' = Counted(r)
    BY <1>1 DEF Counted
  <2>5. QED
    BY <2>2, <2>3, <2>4
<1>4. \A r \in Ids : /\ r # id => /\ outgoing'[r] = outgoing[r] /\ taken'[r] = taken[r]
                                  /\ GrantedBack(r)' = GrantedBack(r)
                     /\ outgoing'[r].live => outgoing[r].live
  BY DEF ClientHears, GrantedBack
<1>5. /\ cState = "open" /\ outgoing[id].live /\ id < nextId
      /\ outgoing'[id].nextSeq = outgoing[id].nextSeq + h
      /\ GrantedBack(id) <= GrantedBack(id)'
      /\ outgoing'[id].byHand => taken'[id] = outgoing'[id].granted + GrantedBack(id)'
      /\ h = 1 => c = 1
      /\ outgoing'[id].live \/ (c = 1 /\ h = 0)
  BY DEF ClientHears, IInv, IdsInv
<1>6. c = 1 => /\ toClient # <<>> /\ 1 \in DOMAIN toClient /\ toClient[1].id = id
               /\ h = 0 => toClient[1].kind = "response"
               /\ h = 1 => toClient[1].kind = "chunk" /\ toClient[1].seq = outgoing[id].nextSeq
  BY <1>1 DEF ClientHears
\* The channel to the client moves up by c frames.
<1>7. /\ \A i \in DOMAIN toClient' : i + c \in DOMAIN toClient /\ toClient'[i] = toClient[i + c]
      /\ \A i \in DOMAIN toClient : \/ i = 1 /\ c = 1
                                    \/ i - c \in DOMAIN toClient' /\ toClient'[i - c] = toClient[i]
  <2>1. CASE c = 0
    <3>1. toClient' = toClient
      BY <2>1 DEF ClientHears
    <3>2. QED
      BY <1>2, <2>1, <3>1
  <2>2. CASE c = 1
    <3>1. toClient # <<>> /\ toClient' = Tail(toClient)
      BY <2>2 DEF ClientHears
    <3>2. QED
      BY <1>1, <2>2, <3>1
  <2>3. QED
    BY <2>1, <2>2
\* A request that ends is over on both sides and on both channels.
<1>8. ~outgoing'[id].live =>
        /\ ~incoming[id].live /\ id <= lastPeerId
        /\ \A i \in DOMAIN toClient' : toClient'[i].id # id
  <2>1. SUFFICES ASSUME c = 1, h = 0
                 PROVE  /\ ~incoming[id].live /\ id <= lastPeerId
                        /\ \A i \in DOMAIN toClient' : toClient'[i].id # id
    BY <1>5
  <2>2. toClient[1].kind = "response" /\ toClient[1].id = id /\ 1 \in DOMAIN toClient
    BY <1>6, <2>1
  <2>3. \A i \in DOMAIN toClient' : i + 1 \in DOMAIN toClient /\ toClient'[i] = toClient[i + 1] /\ 1 < i + 1
    BY <1>2, <1>7, <2>1
  <2>4. QED
    BY <2>2, <2>3 DEF IInv, ResponsesInv, IdsInv
\* What the channel to the host gains.
<1>9. /\ \A i \in DOMAIN toHost' :
           \/ i \in DOMAIN toHost /\ toHost'[i] = toHost[i]
           \/ /\ i = Len(toHost) + 1 /\ toHost'[i].id = id
              /\ \/ toHost'[i].kind = "cancel"
                 \/ /\ toHost'[i].kind = "credit" /\ outgoing'[id].nextSeq > 0
                    /\ toHost'[i].upto = GrantedBack(id)'
                    /\ toHost'[i].upto - toHost'[i].n = GrantedBack(id)
      /\ \A i \in DOMAIN toHost : i < Len(toHost) + 1
      /\ Len(toHost) \in Nat
  <2> DEFINE grown == toHost \o ms
  <2>1. ms \in Seq(HostMsg) /\ Len(toHost) \in Nat /\ \A i \in DOMAIN toHost : i < Len(toHost) + 1
    BY <1>1 DEF ClientHears
  <2>2. \A i \in DOMAIN grown : \/ i \in DOMAIN toHost /\ grown[i] = toHost[i]
                                \/ i - Len(toHost) \in DOMAIN ms /\ grown[i] = ms[i - Len(toHost)]
    BY <1>1, <2>1, Appended
  <2>3. toHost' = toHost \/ toHost' = grown
    BY DEF ClientHears, SentToHost
  <2> HIDE DEF grown
  <2>4. \A i \in DOMAIN toHost' :
          \/ i \in DOMAIN toHost /\ toHost'[i] = toHost[i]
          \/ i - Len(toHost) \in DOMAIN ms /\ toHost'[i] = ms[i - Len(toHost)]
    BY <2>2, <2>3
  <2>5. ASSUME NEW i \in DOMAIN toHost', i - Len(toHost) \in DOMAIN ms, toHost'[i] = ms[i - Len(toHost)]
        PROVE  /\ i = Len(toHost) + 1 /\ toHost'[i].id = id
               /\ \/ toHost'[i].kind = "cancel"
                  \/ /\ toHost'[i].kind = "credit" /\ outgoing'[id].nextSeq > 0
                     /\ toHost'[i].upto = GrantedBack(id)'
                     /\ toHost'[i].upto - toHost'[i].n = GrantedBack(id)
    <3>1. i - Len(toHost) = 1
      BY <2>5 DEF ClientHears
    <3>2. i = Len(toHost) + 1
      BY <1>2, <2>1, <3>1
    <3>3. QED
      BY <2>5, <3>2 DEF ClientHears
  <2>6. QED
    BY <2>1, <2>4, <2>5
<1>10. IdsInv'
  <2>1. outgoing'[id].nextSeq > 0 => id <= lastPeerId
    <3>1. CASE h = 1
      BY <1>5, <1>6, <3>1 DEF IInv, IdsInv
    <3>2. CASE h = 0
      <4>1. outgoing'[id].nextSeq = outgoing[id].nextSeq
        BY <1>3, <1>5, <3>2
      <4>2. QED
        BY <4>1 DEF IInv, IdsInv
    <3>3. QED
      BY <3>1, <3>2
  <2>2. ASSUME NEW r \in Ids
        PROVE  /\ outgoing'[r].live => r < nextId
               /\ r >= nextId => taken'[r] = 0
               /\ incoming[r].live => r <= lastPeerId
               /\ outgoing'[r].nextSeq > 0 => r <= lastPeerId
    <3>1. CASE r = id
      BY <1>1, <1>2, <1>5, <2>1, <3>1 DEF IInv, IdsInv
    <3>2. CASE r # id
      BY <1>4, <3>2 DEF IInv, IdsInv
    <3>3. QED
      BY <3>1, <3>2
  <2>3. ASSUME NEW i \in DOMAIN toHost'
        PROVE  /\ toHost'[i].id < nextId
               /\ toHost'[i].kind = "credit" => toHost'[i].id <= lastPeerId
    BY <1>5, <1>9, <2>1 DEF IInv, IdsInv
  <2>4. ASSUME NEW i \in DOMAIN toClient'
        PROVE  toClient'[i].id <= lastPeerId
    BY <1>7 DEF IInv, IdsInv
  <2>5. QED
    BY <1>1, <2>2, <2>3, <2>4 DEF IInv, IdsInv
<1>11. CreditInv'
  <2>1. ASSUME NEW r \in Ids
        PROVE  /\ incoming[r].live => Counted(r) <= GrantedBack(r)'
               /\ outgoing'[r].byHand =>
                    taken'[r] = outgoing'[r].granted + GrantedBack(r)'
    <3>1. incoming[r].live => Counted(r) <= GrantedBack(r)
      BY DEF IInv, CreditInv
    <3>2. CASE r = id
      BY <1>3, <1>5, <3>1, <3>2
    <3>3. CASE r # id
      <4>1. outgoing[r].byHand => taken[r] = outgoing[r].granted + GrantedBack(r)
        BY DEF IInv, CreditInv
      <4>2. QED
        BY <1>4, <3>1, <3>3, <4>1
    <3>4. QED
      BY <3>2, <3>3
  <2>2. \A r \in Ids : GrantedBack(r) <= GrantedBack(r)'
    BY <1>3, <1>4, <1>5
  <2>3. ASSUME NEW i \in DOMAIN toHost', toHost'[i].kind = "credit"
        PROVE  /\ toHost'[i].upto <= GrantedBack(toHost[i].id)'
               /\ incoming[toHost'[i].id].live =>
                    Counted(toHost'[i].id) <= toHost'[i].upto - toHost'[i].n
    <3>0. toHost'[i].upto \in Nat /\ toHost'[i].n \in Nat
      BY <1>1, <2>3, CreditFrames
    <3>1. PICK r \in Ids : r = toHost'[i].id
      BY <1>2
    <3>2. GrantedBack(toHost[i].id)' = GrantedBack(r)'
      BY <3>1 DEF GrantedBack
    <3>3. CASE i \in DOMAIN toHost /\ toHost'[i] = toHost[i]
      <4>1. /\ toHost'[i].upto <= GrantedBack(r)
            /\ incoming[r].live => Counted(r) <= toHost'[i].upto - toHost'[i].n
        BY <2>3, <3>1, <3>3 DEF IInv, CreditInv
      <4>2. toHost'[i].upto <= GrantedBack(r)'
        BY <1>3, <2>2, <3>0, <4>1
      <4>3. QED
        BY <3>1, <3>2, <4>1, <4>2
    <3>4. CASE r = id /\ toHost'[i].upto = GrantedBack(id)'
                /\ toHost'[i].upto - toHost'[i].n = GrantedBack(id)
      <4>1. incoming[id].live => Counted(id) <= GrantedBack(id)
        BY DEF IInv, CreditInv
      <4>2. QED
        BY <1>3, <3>1, <3>2, <3>4, <4>1
    <3>5. QED
      BY <1>9, <2>3, <3>1, <3>3, <3>4
  <2>4. ASSUME NEW i \in DOMAIN toHost', NEW j \in DOMAIN toHost',
               i < j, toHost'[i].id = toHost'[j].id,
               toHost'[i].kind = "credit", toHost'[j].kind = "credit"
        PROVE  toHost'[i].upto <= toHost'[j].upto - toHost'[j].n
    <3>1. CASE j \in DOMAIN toHost /\ toHost'[j] = toHost[j]
      <4>1. i # Len(toHost) + 1
        BY <1>2, <1>9, <2>4, <3>1
      <4>2. QED
        BY <1>9, <2>4, <3>1, <4>1 DEF IInv, CreditInv
    <3>2. CASE j = Len(toHost) + 1 /\ toHost'[j].id = id
                /\ toHost'[j].upto - toHost'[j].n = GrantedBack(id)
      <4>1. i # Len(toHost) + 1
        BY <1>2, <1>9, <2>4, <3>2
      <4>2. i \in DOMAIN toHost /\ toHost'[i] = toHost[i]
        BY <1>9, <4>1
      <4>3. toHost[i].upto <= GrantedBack(id)
        BY <2>4, <3>2, <4>2 DEF IInv, CreditInv
      <4>4. QED
        BY <3>2, <4>2, <4>3
    <3>3. QED
      BY <1>9, <2>4, <3>1, <3>2
  <2>5. ASSUME NEW i \in DOMAIN toHost', toHost'[i].kind = "credit"
        PROVE  incoming'[toHost'[i].id].live =>
                 Counted(toHost[i].id)' <= toHost'[i].upto - toHost'[i].n
    <3>1. PICK r \in Ids : r = toHost'[i].id
      BY <1>2
    <3>2. Counted(toHost[i].id)' = Counted(r) /\ Counted(toHost'[i].id) = Counted(r)
      BY <1>1, <3>1 DEF Counted
    <3>3. QED
      BY <1>1, <2>3, <2>5, <3>1, <3>2
  <2>6. \A r \in Ids : incoming'[r].live => Counted(r)' <= GrantedBack(r)'
    BY <1>1, <1>3, <2>1
  <2>7. QED
    BY <2>1, <2>3, <2>4, <2>5, <2>6 DEF CreditInv
<1>12. RequestsInv'
  <2>1. ASSUME NEW i \in DOMAIN toHost', toHost'[i].kind = "request"
        PROVE  i \in DOMAIN toHost /\ toHost'[i] = toHost[i]
    BY <1>9, <2>1
  <2>2. ASSUME NEW i \in DOMAIN toHost', toHost'[i].kind = "request"
        PROVE  toHost'[i].id > lastPeerId /\ outgoing'[toHost'[i].id].live
    <3>1. toHost'[i].id > lastPeerId /\ outgoing[toHost'[i].id].live
      BY <1>5, <2>1, <2>2 DEF IInv, RequestsInv
    <3>2. CASE toHost'[i].id = id
      BY <1>1, <1>2, <1>8, <3>1, <3>2
    <3>3. CASE toHost'[i].id # id
      BY <1>2, <1>4, <3>1, <3>3
    <3>4. QED
      BY <3>2, <3>3
  <2>3. ASSUME NEW r \in Ids, incoming[r].live
        PROVE  hState = "open" /\ outgoing'[r].live
    <3>1. hState = "open" /\ outgoing[r].live
      BY <1>5, <2>3 DEF IInv, RequestsInv
    <3>2. QED
      BY <1>4, <1>8, <2>3, <3>1
  <2>4. ASSUME NEW i \in DOMAIN toHost', NEW j \in DOMAIN toHost',
               i < j, toHost'[i].kind = "request", toHost'[j].kind = "request"
        PROVE  toHost'[i].id < toHost'[j].id
    BY <2>1, <2>4 DEF IInv, RequestsInv
  <2>5. QED
    BY <1>1, <2>2, <2>3, <2>4 DEF RequestsInv
<1>13. ResponsesInv'
  <2>1. ASSUME NEW i \in DOMAIN toClient'
        PROVE  /\ outgoing'[toClient'[i].id].live
               /\ toClient'[i].kind = "response" => ~incoming[toClient'[i].id].live
    <3>1. /\ outgoing[toClient'[i].id].live
          /\ toClient'[i].kind = "response" => ~incoming[toClient'[i].id].live
      BY <1>7 DEF IInv, ResponsesInv
    <3>2. CASE toClient'[i].id = id
      BY <1>8, <3>1, <3>2
    <3>3. CASE toClient'[i].id # id
      BY <1>2, <1>4, <3>1, <3>3
    <3>4. QED
      BY <3>2, <3>3
  <2>2. ASSUME NEW i \in DOMAIN toClient', NEW j \in DOMAIN toClient',
               i < j, toClient'[i].id = toClient'[j].id
        PROVE  toClient'[i].kind = "chunk"
    <3>1. i + c < j + c
      BY <1>2, <2>2
    <3>2. QED
      BY <1>7, <2>2, <3>1 DEF IInv, ResponsesInv
  <2>3. QED
    BY <1>1, <1>5, <2>1, <2>2 DEF ResponsesInv
<1>14. ChunksInv'
  \* Of the next frames of request id, none is the one just heard.
  <2>1. ASSUME NEW i \in DOMAIN toClient, NEW r \in Ids, toClient[i].kind = "chunk",
               toClient[i].id = r, outgoing'[r].nextSeq <= toClient[i].seq
        PROVE  i - c \in DOMAIN toClient' /\ toClient'[i - c] = toClient[i]
    <3>1. ~(i = 1 /\ c = 1)
      <4>1. SUFFICES ASSUME i = 1, c = 1 PROVE FALSE
        OBVIOUS
      <4>2. h = 1 /\ r = id /\ toClient[i].seq = outgoing[id].nextSeq
        BY <1>6, <2>1, <4>1
      <4>3. QED
        BY <1>3, <1>5, <2>1, <4>2
    <3>2. QED
      BY <1>7, <3>1
  <2>2. ASSUME NEW i \in DOMAIN toClient', toClient'[i].kind = "chunk"
        PROVE  /\ outgoing'[toClient'[i].id].nextSeq <= toClient'[i].seq
               /\ toClient'[i].seq < incoming[toClient'[i].id].nextSeq
               /\ toClient'[i].seq > outgoing'[toClient'[i].id].nextSeq =>
                    \E j \in DOMAIN toClient' :
                      /\ j < i /\ toClient'[j].kind = "chunk"
                      /\ toClient'[j].id = toClient'[i].id
                      /\ toClient'[j].seq = toClient'[i].seq - 1
    <3>1. PICK r \in Ids : r = toClient'[i].id
      BY <1>2
    <3>2. /\ i + c \in DOMAIN toClient /\ toClient'[i] = toClient[i + c]
          /\ toClient'[i].seq \in Nat
      BY <1>1, <1>7, <2>2, ClientKinds
    <3>3. /\ outgoing[r].nextSeq <= toClient'[i].seq
          /\ toClient'[i].seq < incoming[r].nextSeq
          /\ toClient'[i].seq > outgoing[r].nextSeq =>
               \E j \in DOMAIN toClient :
                 /\ j < i + c /\ toClient[j].kind = "chunk"
                 /\ toClient[j].id = r /\ toClient[j].seq = toClient'[i].seq - 1
      BY <2>2, <3>1, <3>2 DEF IInv, ChunksInv
    <3>4. outgoing[r].nextSeq <= outgoing'[r].nextSeq
      BY <1>3, <1>4, <1>5
    <3>5. outgoing'[r].nextSeq <= toClient'[i].seq
      <4>1. CASE r = id /\ h = 1
        <5>1. 1 \in DOMAIN toClient /\ 1 < i + c /\ toClient[1].id = toClient[i + c].id
              /\ toClient[1].kind = "chunk" /\ toClient[1].seq = outgoing[id].nextSeq
          BY <1>2, <1>5, <1>6, <3>1, <3>2, <4>1
        <5>2. toClient[1].seq < toClient[i + c].seq
          BY <2>2, <3>2, <5>1 DEF IInv, ChunksInv
        <5>3. QED
          BY <1>3, <1>5, <3>2, <4>1, <5>1, <5>2
      <4>2. CASE r # id \/ h = 0
        <5>1. outgoing'[r].nextSeq = outgoing[r].nextSeq
          BY <1>3, <1>4, <1>5, <4>2
        <5>2. QED
          BY <3>3, <5>1
      <4>3. QED
        BY <4>1, <4>2
    <3>6. ASSUME toClient'[i].seq > outgoing'[r].nextSeq
          PROVE  \E j \in DOMAIN toClient' :
                   /\ j < i /\ toClient'[j].kind = "chunk"
                   /\ toClient'[j].id = r /\ toClient'[j].seq = toClient'[i].seq - 1
      <4>1. toClient'[i].seq > outgoing[r].nextSeq
        BY <1>3, <3>2, <3>4, <3>6
      <4>2. PICK j \in DOMAIN toClient :
                   /\ j < i + c /\ toClient[j].kind = "chunk"
                   /\ toClient[j].id = r /\ toClient[j].seq = toClient'[i].seq - 1
        BY <3>3, <4>1
      <4>3. outgoing'[r].nextSeq <= toClient[j].seq
        BY <1>3, <3>2, <3>6, <4>2
      <4>4. j - c \in DOMAIN toClient' /\ toClient'[j - c] = toClient[j]
        BY <2>1, <4>2, <4>3
      <4>5. j - c < i
        BY <1>2, <4>2
      <4>6. QED
        BY <4>2, <4>4, <4>5
    <3>7. QED
      BY <3>1, <3>3, <3>5, <3>6
  <2>3. ASSUME NEW i \in DOMAIN toClient', NEW j \in DOMAIN toClient',
               i < j, toClient'[i].id = toClient'[j].id,
               toClient'[i].kind = "chunk", toClient'[j].kind = "chunk"
        PROVE  toClient'[i].seq < toClient'[j].seq
    <3>1. i + c < j + c
      BY <1>2, <2>3
    <3>2. QED
      BY <1>7, <2>3, <3>1 DEF IInv, ChunksInv
  <2>4. ASSUME NEW r \in Ids, incoming[r].live
        PROVE  /\ outgoing'[r].nextSeq <= incoming[r].nextSeq
               /\ incoming[r].nextSeq > outgoing'[r].nextSeq =>
                    \E i \in DOMAIN toClient' :
                      /\ toClient'[i].kind = "chunk" /\ toClient'[i].id = r
                      /\ toClient'[i].seq = incoming[r].nextSeq - 1
    <3>1. /\ outgoing[r].nextSeq <= incoming[r].nextSeq
          /\ incoming[r].nextSeq > outgoing[r].nextSeq =>
               \E i \in DOMAIN toClient :
                 /\ toClient[i].kind = "chunk" /\ toClient[i].id = r
                 /\ toClient[i].seq = incoming[r].nextSeq - 1
      BY <1>5, <2>4 DEF IInv, ChunksInv
    <3>2. /\ outgoing[r].nextSeq <= outgoing'[r].nextSeq
          /\ r # id \/ h = 0 => outgoing'[r].nextSeq = outgoing[r].nextSeq
      BY <1>3, <1>4, <1>5
    <3>3. outgoing'[r].nextSeq <= incoming[r].nextSeq
      <4>1. CASE r = id /\ h = 1
        <5>1. outgoing[id].nextSeq < incoming[id].nextSeq
          BY <1>5, <1>6, <4>1 DEF IInv, ChunksInv
        <5>2. QED
          BY <1>3, <1>5, <4>1, <5>1
      <4>2. CASE r # id \/ h = 0
        BY <3>1, <3>2, <4>2
      <4>3. QED
        BY <4>1, <4>2
    <3>4. ASSUME incoming[r].nextSeq > outgoing'[r].nextSeq
          PROVE  \E i \in DOMAIN toClient' :
                   /\ toClient'[i].kind = "chunk" /\ toClient'[i].id = r
                   /\ toClient'[i].seq = incoming[r].nextSeq - 1
      <4>1. incoming[r].nextSeq > outgoing[r].nextSeq
        BY <1>3, <3>2, <3>4
      <4>2. PICK i \in DOMAIN toClient :
                   /\ toClient[i].kind = "chunk" /\ toClient[i].id = r
                   /\ toClient[i].seq = incoming[r].nextSeq - 1
        BY <3>1, <4>1
      <4>3. outgoing'[r].nextSeq <= toClient[i].seq
        BY <1>3, <3>4, <4>2
      <4>4. i - c \in DOMAIN toClient' /\ toClient'[i - c] = toClient[i]
        BY <2>1, <4>2, <4>3
      <4>5. QED
        BY <4>2, <4>4
    <3>5. QED
      BY <3>3, <3>4
  <2>5. QED
    BY <1>1, <2>2, <2>3, <2>4 DEF ChunksInv
<1>15. QED
  BY <1>10, <1>11, <1>12, <1>13, <1>14 DEF ClientHears, IInv

\* A batch of credit grants back what it counts, from where the last one ended.
LEMMA GrantingCounts ==
  \A e \in Outgoing : \A id \in Ids : e.consumed <= e.nextSeq =>
    /\ Granting(e).live = e.live /\ Granting(e).byHand = e.byHand
    /\ Granting(e).nextSeq = e.nextSeq
    /\ e.nextSeq - e.consumed <= Granting(e).nextSeq - Granting(e).consumed
    /\ e.byHand => Granting(e).granted + (Granting(e).nextSeq - Granting(e).consumed)
                     = e.granted + (e.nextSeq - e.consumed)
    /\ GrantSent(id, e) \in Seq(HostMsg)
    /\ \A i \in DOMAIN GrantSent(id, e) :
         /\ i = 1 /\ GrantSent(id, e)[i].id = id
         /\ GrantSent(id, e)[i].kind = "credit" /\ e.nextSeq > 0
         /\ GrantSent(id, e)[i].upto = Granting(e).nextSeq - Granting(e).consumed
         /\ GrantSent(id, e)[i].upto - GrantSent(id, e)[i].n = e.nextSeq - e.consumed
<1> TAKE e \in Outgoing
<1> TAKE id \in Ids
<1> HAVE e.consumed <= e.nextSeq
<1> DEFINE n == Ready(e)
<1>1. /\ n \in Nat /\ n <= e.consumed /\ (e.byHand => n <= e.granted)
      /\ GrantSent(id, e) \in Seq(HostMsg)
  BY GrantingTyped
<1>2. /\ e.nextSeq \in Nat /\ e.consumed \in Nat /\ e.granted \in Nat
      /\ DOMAIN e = {"live", "cancelled", "handled", "byHand", "idleLimit",
                     "nextSeq", "consumed", "granted"}
  BY DEF Outgoing
<1>3. Batch \in Nat /\ Batch >= 1
  BY WindowAssumption DEF Batch, MaxOf
<1> HIDE DEF n
<1>4. CASE n >= Batch
  <2>1. Granting(e) = Granted(e, n) /\ GrantSent(id, e) = <<Credit(id, n, e.nextSeq - e.consumed + n)>>
    BY <1>4 DEF Granting, GrantSent, n
  <2> DEFINE f == Granted(e, n)
  <2>2. /\ f.live = e.live /\ f.byHand = e.byHand /\ f.nextSeq = e.nextSeq
        /\ f.consumed = e.consumed - n
        /\ e.byHand => f.granted = e.granted - n
    BY <1>2 DEF Granted
  <2> HIDE DEF f
  <2>3. /\ e.nextSeq - e.consumed <= f.nextSeq - f.consumed
        /\ e.byHand => f.granted + (f.nextSeq - f.consumed) = e.granted + (e.nextSeq - e.consumed)
        /\ e.nextSeq > 0
        /\ e.nextSeq - e.consumed + n = f.nextSeq - f.consumed
        /\ (e.nextSeq - e.consumed + n) - n = e.nextSeq - e.consumed
    BY <1>1, <1>2, <1>3, <1>4, <2>2
  <2>4. \A u : /\ <<Credit(id, n, u)>>[1].id = id /\ <<Credit(id, n, u)>>[1].kind = "credit"
               /\ <<Credit(id, n, u)>>[1].upto = u /\ <<Credit(id, n, u)>>[1].n = n
               /\ DOMAIN <<Credit(id, n, u)>> = {1}
    BY DEF Credit
  <2>5. Granting(e) = f
    BY <2>1 DEF f
  <2>6. QED
    BY <1>1, <2>1, <2>2, <2>3, <2>4, <2>5
<1>5. CASE ~(n >= Batch)
  <2>1. Granting(e) = e /\ GrantSent(id, e) = <<>>
    BY <1>5 DEF Granting, GrantSent, n
  <2>2. QED
    BY <1>1, <1>2, <2>1
<1>6. QED
  BY <1>4, <1>5

\* The consumer grants by hand.
LEMMA GrantKeeps ==
  ASSUME IInv, NEW id \in Ids, NEW n \in 1..MaxChunks, Grant(id, n)
  PROVE  IInv'
<1> DEFINE e == [outgoing[id] EXCEPT !.granted = @ + n]
           ms == GrantSent(id, e)
<1>1. TypeInv /\ TypeInv' /\ ~fault
  BY ClientCallsTyped DEF IInv
<1>2. /\ outgoing \in [Ids -> Outgoing] /\ taken \in [Ids -> Nat] /\ n \in Nat
      /\ outgoing[id] \in Outgoing /\ outgoing[id].consumed <= outgoing[id].nextSeq
      /\ outgoing[id].consumed \in Nat /\ outgoing[id].nextSeq \in Nat /\ outgoing[id].granted \in Nat
  <2>1. /\ outgoing \in [Ids -> Outgoing] /\ taken \in [Ids -> Nat] /\ n \in Nat
        /\ outgoing[id] \in Outgoing /\ outgoing[id].consumed <= outgoing[id].nextSeq
    BY <1>1, BoundsAssumption DEF TypeInv, TypeOK, ConsumedHeard
  <2>2. QED
    BY <2>1 DEF Outgoing
<1>3. /\ e \in Outgoing /\ e.consumed = outgoing[id].consumed /\ e.nextSeq = outgoing[id].nextSeq
      /\ e.granted = outgoing[id].granted + n
      /\ e.live = outgoing[id].live /\ e.byHand = outgoing[id].byHand
  BY <1>2 DEF Outgoing
<1>4. /\ cState = "open" /\ outgoing[id].live /\ outgoing[id].byHand
      /\ taken' = [taken EXCEPT ![id] = @ + n]
      /\ outgoing' = [outgoing EXCEPT ![id] = Granting(e)]
      /\ toHost' = SentToHost(ms)
      /\ UNCHANGED <<nextId, cState, hState, lastPeerId, incoming, toClient, fault>>
  BY DEF Grant, hostVars
<1> HIDE DEF e
<1>5. /\ Granting(e).live = e.live /\ Granting(e).byHand = e.byHand
      /\ Granting(e).nextSeq = e.nextSeq
      /\ e.nextSeq - e.consumed <= Granting(e).nextSeq - Granting(e).consumed
      /\ e.byHand => Granting(e).granted + (Granting(e).nextSeq - Granting(e).consumed)
                       = e.granted + (e.nextSeq - e.consumed)
      /\ ms \in Seq(HostMsg)
      /\ \A i \in DOMAIN ms :
           /\ i = 1 /\ ms[i].id = id /\ ms[i].kind = "credit" /\ e.nextSeq > 0
           /\ ms[i].upto = Granting(e).nextSeq - Granting(e).consumed
           /\ ms[i].upto - ms[i].n = e.nextSeq - e.consumed
  <2>1. e.consumed <= e.nextSeq
    BY <1>2, <1>3
  <2>2. QED
    BY <1>3, <2>1, GrantingCounts
<1>6. /\ outgoing'[id] = Granting(e) /\ \A r \in Ids \ {id} : outgoing'[r] = outgoing[r] /\ taken'[r] = taken[r]
      /\ taken'[id] = taken[id] + n
  BY <1>2, <1>4
<1>7. taken[id] = outgoing[id].granted + (outgoing[id].nextSeq - outgoing[id].consumed)
  BY <1>4 DEF IInv, CreditInv, GrantedBack
<1>8. /\ GrantedBack(id) = e.nextSeq - e.consumed
      /\ GrantedBack(id)' = Granting(e).nextSeq - Granting(e).consumed
  BY <1>3, <1>6 DEF GrantedBack
<1>9. taken[id] + n = e.granted + (e.nextSeq - e.consumed)
  BY <1>2, <1>3, <1>7
<1>10. e.nextSeq = e.nextSeq + 0
  BY <1>2, <1>3
<1> HIDE DEF ms
<1>11. /\ outgoing'[id].live /\ outgoing'[id].nextSeq = outgoing[id].nextSeq + 0
       /\ outgoing'[id].nextSeq = e.nextSeq
       /\ GrantedBack(id) <= GrantedBack(id)'
  BY <1>3, <1>4, <1>5, <1>6, <1>8, <1>10
<1>12. taken'[id] = outgoing'[id].granted + GrantedBack(id)'
  BY <1>3, <1>4, <1>5, <1>6, <1>8, <1>9
<1>13. /\ ms \in Seq(HostMsg)
       /\ \A i \in DOMAIN ms :
            /\ i = 1 /\ ms[i].id = id
            /\ ms[i].kind = "credit" /\ outgoing'[id].nextSeq > 0
            /\ ms[i].upto = GrantedBack(id)' /\ ms[i].upto - ms[i].n = GrantedBack(id)
  BY <1>5, <1>8, <1>11
<1>14. ClientHears(id, 0, 0, ms)
  BY <1>1, <1>4, <1>6, <1>11, <1>12, <1>13 DEF ClientHears
<1>15. QED
  BY <1>14, ClientHearsStep

\* What the client receives.  A frame is never one it has no request for, nor a
\* chunk out of order.
LEMMA ClientReceiveKeeps == IInv /\ ClientReceive => IInv'
<1> SUFFICES ASSUME IInv, ClientReceive
             PROVE  IInv'
  OBVIOUS
<1>1. PICK m : m = Head(toClient)
  OBVIOUS
<1>2. PICK id : id = m.id
  OBVIOUS
<1>3. /\ TypeInv /\ TypeInv' /\ ~fault /\ cState = "open" /\ toClient # <<>>
      /\ toClient \in Seq(ClientMsg) /\ outgoing \in [Ids -> Outgoing]
  <2>1. TypeInv /\ ~fault
    BY DEF IInv
  <2>2. TypeInv'
    BY <2>1, ClientReceiveTyped
  <2>3. /\ cState = "open" /\ toClient # <<>>
        /\ toClient \in Seq(ClientMsg) /\ outgoing \in [Ids -> Outgoing]
    BY <2>1 DEF ClientReceive, TypeInv, TypeOK
  <2>4. QED
    BY <2>1, <2>2, <2>3
<1>4. /\ m \in ClientMsg /\ 1 \in DOMAIN toClient /\ toClient[1] = m /\ id \in Ids
      /\ m.kind = "chunk" => m.seq \in Nat
      /\ m.kind = "chunk" \/ m.kind = "response"
  BY <1>1, <1>2, <1>3 DEF ClientMsg, ChunkMsg, ResponseMsg
<1>5. /\ outgoing[id] \in Outgoing /\ outgoing[id].consumed <= outgoing[id].nextSeq
      /\ outgoing[id].consumed \in Nat /\ outgoing[id].nextSeq \in Nat /\ outgoing[id].granted \in Nat
  <2>1. outgoing[id] \in Outgoing /\ outgoing[id].consumed <= outgoing[id].nextSeq
    BY <1>3, <1>4 DEF TypeInv, ConsumedHeard
  <2>2. QED
    BY <2>1 DEF Outgoing
<1>6. ClientExpects(m)
  <2>1. outgoing[id].live
    BY <1>2, <1>4 DEF IInv, ResponsesInv
  <2>2. ASSUME m.kind = "chunk"
        PROVE  m.seq = outgoing[id].nextSeq
    <3>1. m.seq \in Nat /\ outgoing[id].nextSeq <= m.seq
      BY <1>2, <1>4, <2>2 DEF IInv, ChunksInv
    <3>2. ~(m.seq > outgoing[id].nextSeq)
      <4>1. SUFFICES ASSUME m.seq > outgoing[id].nextSeq
                     PROVE  FALSE
        OBVIOUS
      <4>2. \E j \in DOMAIN toClient : j < 1
        BY <1>2, <1>4, <2>2, <4>1 DEF IInv, ChunksInv
      <4>3. \A j \in DOMAIN toClient : j \in Nat /\ 1 <= j
        BY <1>3
      <4>4. QED
        BY <4>2, <4>3
    <3>3. QED
      BY <1>5, <3>1, <3>2
  <2>3. QED
    BY <1>2, <2>1, <2>2 DEF ClientExpects
<1>7. /\ \/ m.kind = "chunk" /\ \E cancels \in BOOLEAN : ReceiveChunk(m, cancels)
         \/ m.kind # "chunk" /\ ReceiveResponse(m)
      /\ toClient' = Tail(toClient)
      /\ UNCHANGED <<nextId, cState, taken, lastPeerId, incoming, hState, fault>>
  BY <1>1, <1>6 DEF ClientReceive, hostVars
<1>8. outgoing[id].live
  BY <1>2, <1>6 DEF ClientExpects
<1>9. outgoing[id].byHand =>
        taken[id] = outgoing[id].granted + (outgoing[id].nextSeq - outgoing[id].consumed)
  BY <1>4 DEF IInv, CreditInv, GrantedBack
<1>10. ASSUME m.kind = "chunk", NEW cancels \in BOOLEAN, ReceiveChunk(m, cancels)
       PROVE  IInv'
  <2> DEFINE e     == outgoing[id]
             heard == [e EXCEPT !.nextSeq = @ + 1, !.consumed = @ + 1]
             gone  == [heard EXCEPT !.cancelled = TRUE]
  <2>1. \E f, ms : /\ outgoing' = [outgoing EXCEPT ![id] = f] /\ toHost' = SentToHost(ms)
                   /\ \/ f = gone /\ ms = <<Cancelled(id)>>
                      \/ f = heard /\ ms = <<>>
                      \/ f = Granting(heard) /\ ms = GrantSent(id, heard) /\ ~e.byHand
    <3>1. SentToHost(<<>>) = toHost
      BY <1>3 DEF SentToHost, TypeInv, TypeOK
    <3>2. \/ outgoing' = [outgoing EXCEPT ![id] = gone] /\ toHost' = SentToHost(<<Cancelled(id)>>)
          \/ outgoing' = [outgoing EXCEPT ![id] = heard] /\ toHost' = toHost
          \/ /\ outgoing' = [outgoing EXCEPT ![id] = Granting(heard)]
             /\ toHost' = SentToHost(GrantSent(id, heard)) /\ ~e.byHand
      BY <1>2, <1>10 DEF ReceiveChunk
    <3> HIDE DEF gone, heard, e
    <3>3. QED
      BY <3>1, <3>2
  <2>2. /\ heard \in Outgoing /\ heard.consumed = e.consumed + 1 /\ heard.nextSeq = e.nextSeq + 1
        /\ heard.granted = e.granted /\ heard.live = e.live /\ heard.byHand = e.byHand
    <3>1. e.consumed + 1 \in Nat /\ e.nextSeq + 1 \in Nat
      BY <1>5
    <3>2. QED
      BY <1>5, <3>1 DEF Outgoing
  <2>3. /\ gone.consumed = heard.consumed /\ gone.nextSeq = heard.nextSeq
        /\ gone.granted = heard.granted /\ gone.live = heard.live /\ gone.byHand = heard.byHand
    BY <2>2 DEF Outgoing
  <2> HIDE DEF heard, gone
  <2>4. heard.consumed <= heard.nextSeq /\ heard.nextSeq - heard.consumed = e.nextSeq - e.consumed
    BY <1>5, <2>2
  <2>5. PICK f, ms : /\ outgoing' = [outgoing EXCEPT ![id] = f] /\ toHost' = SentToHost(ms)
                     /\ \/ f = gone /\ ms = <<Cancelled(id)>>
                        \/ f = heard /\ ms = <<>>
                        \/ f = Granting(heard) /\ ms = GrantSent(id, heard) /\ ~e.byHand
    BY <2>1
  \* The three ways a chunk is counted.
  <2>6. /\ f.live = e.live /\ f.byHand = e.byHand /\ f.nextSeq = e.nextSeq + 1
        /\ e.nextSeq - e.consumed <= f.nextSeq - f.consumed
        /\ f.byHand => f.granted + (f.nextSeq - f.consumed) = e.granted + (e.nextSeq - e.consumed)
        /\ ms \in Seq(HostMsg)
        /\ \A i \in DOMAIN ms :
             /\ i = 1 /\ ms[i].id = id
             /\ \/ ms[i].kind = "cancel"
                \/ /\ ms[i].kind = "credit" /\ f.nextSeq > 0
                   /\ ms[i].upto = f.nextSeq - f.consumed
                   /\ ms[i].upto - ms[i].n = e.nextSeq - e.consumed
    <3>1. CASE f = gone /\ ms = <<Cancelled(id)>>
      <4>1. ms \in Seq(HostMsg) /\ \A i \in DOMAIN ms : i = 1 /\ ms[i].id = id /\ ms[i].kind = "cancel"
        BY <1>4, <3>1 DEF Cancelled, CancelMsg, HostMsg
      <4>2. QED
        BY <1>5, <2>2, <2>3, <2>4, <3>1, <4>1
    <3>2. CASE f = heard /\ ms = <<>>
      <4>1. ms \in Seq(HostMsg) /\ DOMAIN ms = {}
        BY <3>2
      <4>2. QED
        BY <1>5, <2>2, <2>4, <3>2, <4>1
    <3>3. CASE f = Granting(heard) /\ ms = GrantSent(id, heard) /\ ~e.byHand
      <4>1. /\ f.live = heard.live /\ f.byHand = heard.byHand /\ f.nextSeq = heard.nextSeq
            /\ heard.nextSeq - heard.consumed <= f.nextSeq - f.consumed
            /\ ms \in Seq(HostMsg)
            /\ \A i \in DOMAIN ms :
                 /\ i = 1 /\ ms[i].id = id /\ ms[i].kind = "credit" /\ heard.nextSeq > 0
                 /\ ms[i].upto = f.nextSeq - f.consumed
                 /\ ms[i].upto - ms[i].n = heard.nextSeq - heard.consumed
        BY <1>4, <2>2, <2>4, <3>3, GrantingCounts
      <4>2. QED
        BY <2>2, <2>4, <3>3, <4>1
    <3>4. QED
      BY <2>5, <3>1, <3>2, <3>3
  <2>7. outgoing'[id] = f /\ \A r \in Ids \ {id} : outgoing'[r] = outgoing[r]
    BY <1>3, <1>4, <2>5
  <2>8. /\ GrantedBack(id) = e.nextSeq - e.consumed
        /\ GrantedBack(id)' = f.nextSeq - f.consumed
    BY <2>7 DEF GrantedBack
  <2>9. outgoing'[id].byHand => taken'[id] = outgoing'[id].granted + GrantedBack(id)'
    BY <1>7, <1>9, <2>6, <2>7, <2>8
  <2>10. /\ outgoing'[id].live /\ outgoing'[id].nextSeq = outgoing[id].nextSeq + 1
         /\ GrantedBack(id) <= GrantedBack(id)'
    BY <1>8, <2>6, <2>7, <2>8
  <2>11. /\ ms \in Seq(HostMsg)
         /\ \A i \in DOMAIN ms :
              /\ i = 1 /\ ms[i].id = id
              /\ \/ ms[i].kind = "cancel"
                 \/ /\ ms[i].kind = "credit" /\ outgoing'[id].nextSeq > 0
                    /\ ms[i].upto = GrantedBack(id)' /\ ms[i].upto - ms[i].n = GrantedBack(id)
    BY <2>6, <2>7, <2>8
  <2>12. toClient[1].id = id /\ toClient[1].kind = "chunk" /\ toClient[1].seq = outgoing[id].nextSeq
    BY <1>2, <1>4, <1>6, <1>10 DEF ClientExpects
  <2>13. \A r \in Ids \ {id} : taken'[r] = taken[r]
    BY <1>7
  <2>14. ClientHears(id, 1, 1, ms)
    BY <1>3, <1>7, <1>8, <2>5, <2>7, <2>9, <2>10, <2>11, <2>12, <2>13 DEF ClientHears
  <2>15. QED
    BY <1>4, <2>14, ClientHearsStep
<1>11. CASE m.kind # "chunk" /\ ReceiveResponse(m)
  <2> DEFINE e == outgoing[id]
             f == Erased(e)
  <2>1. outgoing' = [outgoing EXCEPT ![id] = f] /\ toHost' = toHost
    BY <1>2, <1>11 DEF ReceiveResponse
  <2>2. f.byHand = e.byHand /\ f.nextSeq = e.nextSeq /\ f.consumed = e.consumed /\ f.granted = e.granted
    BY <1>5 DEF Erased, Outgoing
  <2> HIDE DEF f
  <2>3. outgoing'[id] = f /\ \A r \in Ids \ {id} : outgoing'[r] = outgoing[r]
    BY <1>3, <1>4, <2>1
  <2>4. /\ GrantedBack(id) = e.nextSeq - e.consumed
        /\ GrantedBack(id)' = e.nextSeq - e.consumed
    BY <2>2, <2>3 DEF GrantedBack
  <2>5. /\ outgoing'[id].nextSeq = outgoing[id].nextSeq + 0
        /\ GrantedBack(id) <= GrantedBack(id)'
    BY <1>5, <2>2, <2>3, <2>4
  <2>6. outgoing'[id].byHand => taken'[id] = outgoing'[id].granted + GrantedBack(id)'
    BY <1>7, <1>9, <2>2, <2>3, <2>4
  <2>7. toClient[1].id = id /\ toClient[1].kind = "response"
    BY <1>2, <1>4, <1>11
  <2>8. toHost' = SentToHost(<<>>) /\ <<>> \in Seq(HostMsg) /\ DOMAIN <<>> = {}
    BY <1>3, <2>1 DEF SentToHost, TypeInv, TypeOK
  <2>9. \A r \in Ids \ {id} : taken'[r] = taken[r]
    BY <1>7
  <2>10. ClientHears(id, 1, 0, <<>>)
    BY <1>3, <1>7, <1>8, <2>3, <2>5, <2>6, <2>7, <2>8, <2>9 DEF ClientHears
  <2>11. QED
    BY <1>4, <2>10, ClientHearsStep
<1>12. QED
  BY <1>7, <1>10, <1>11

-----------------------------------------------------------------------------
(* A new request *)

\* Nothing is known of the id a new request takes, on either side or in flight.
LEMMA IssueKeeps ==
  ASSUME IInv, NEW known \in BOOLEAN, NEW byHand \in BOOLEAN, NEW idleLimit \in BOOLEAN,
         Issue(known, byHand, idleLimit)
  PROVE  IInv'
<1>1. PICK id : id = nextId
  OBVIOUS
<1>2. TypeInv /\ TypeInv' /\ ~fault
  BY ClientCallsTyped DEF IInv
<1>3. /\ id \in Ids /\ id \in Nat /\ nextId' = id + 1 /\ nextId = id /\ lastPeerId \in Nat
      /\ outgoing \in [Ids -> Outgoing] /\ incoming \in [Ids -> Incoming]
      /\ toHost \in Seq(HostMsg) /\ toClient \in Seq(ClientMsg)
      /\ UNCHANGED <<cState, hState, taken, lastPeerId, incoming, toClient, fault>>
  <2>1. /\ outgoing \in [Ids -> Outgoing] /\ incoming \in [Ids -> Incoming]
        /\ toHost \in Seq(HostMsg) /\ toClient \in Seq(ClientMsg) /\ lastPeerId \in Nat
    BY <1>2, BoundsAssumption DEF TypeInv, TypeOK
  <2>2. QED
    BY <1>1, <2>1, IdsAreNumbers DEF Issue, hostVars
<1>4. CASE cState = "closed"
  <2>1. outgoing' = outgoing /\ toHost' = toHost
    BY <1>4 DEF Issue
  <2>2. toClient = <<>>
    BY <1>4 DEF IInv, ResponsesInv
  <2>3. \A i \in DOMAIN toHost : i + 0 = i
    BY <1>3
  <2>4. nextId <= nextId'
    BY <1>3
  <2>5. Quiet(0)
    BY <1>2, <1>3, <1>4, <2>1, <2>2, <2>3, <2>4 DEF Quiet, OldOrCancel
  <2>6. QED
    BY <2>5, QuietStep
<1>5. CASE cState # "closed"
  <2> DEFINE fresh == NewOutgoing(byHand, idleLimit)
             x == Request(id, known)
  <2>1. /\ outgoing' = [outgoing EXCEPT ![id] = fresh]
        /\ toHost' = SentToHost(<<x>>)
    BY <1>1, <1>5 DEF Issue
  <2>2. fresh.live /\ fresh.nextSeq = 0 /\ fresh.consumed = 0 /\ fresh.granted = 0
    BY DEF NewOutgoing
  <2>3. x.id = id /\ x.kind = "request" /\ x \in HostMsg
    BY <1>3 DEF Request, RequestMsg, HostMsg
  <2> HIDE DEF fresh, x
  <2>4. /\ outgoing'[id] = fresh /\ \A r \in Ids : r # id => outgoing'[r] = outgoing[r]
        /\ outgoing'[id].nextSeq = 0 /\ outgoing'[id].live /\ outgoing'[id].granted = 0
    BY <1>3, <2>1, <2>2
  <2>5. /\ \A i \in DOMAIN toHost' : \/ i \in DOMAIN toHost /\ toHost'[i] = toHost[i]
                                     \/ /\ i = Len(toHost) + 1
                                        /\ toHost'[i].id = id /\ toHost'[i].kind = "request"
        /\ \A i \in DOMAIN toHost : i < Len(toHost) + 1
        /\ Len(toHost) \in Nat
    <3> DEFINE grown == Append(toHost, x)
    <3>1. /\ toHost \o <<x>> = grown
          /\ \A i \in DOMAIN grown : \/ i \in DOMAIN toHost /\ grown[i] = toHost[i]
                                     \/ i = Len(toHost) + 1 /\ grown[i] = x
          /\ \A i \in DOMAIN toHost : i < Len(toHost) + 1
          /\ Len(toHost) \in Nat
      BY <1>3, <2>3, Longer
    <3> HIDE DEF grown
    <3>2. toHost' = toHost \/ toHost' = grown
      BY <2>1, <3>1 DEF SentToHost
    <3>3. QED
      BY <2>3, <3>1, <3>2
  <2>6. /\ \A r \in Ids : r \in Nat
        /\ \A i \in DOMAIN toHost : i \in Nat /\ toHost[i].id \in Ids /\ toHost[i].id \in Nat /\ toHost[i].id < id
        /\ \A i \in DOMAIN toHost' : i \in Nat /\ toHost'[i].id \in Ids /\ toHost'[i].id \in Nat
        /\ \A i \in DOMAIN toClient : toClient[i].id \in Ids /\ toClient[i].id \in Nat /\ toClient[i].id < id
    <3>1. toHost' \in Seq(HostMsg)
      BY <1>2 DEF TypeInv, TypeOK
    <3>2. /\ \A r \in Ids : r \in Nat
          /\ \A i \in DOMAIN toHost : i \in Nat /\ toHost[i].id \in Ids /\ toHost[i].id \in Nat
          /\ \A i \in DOMAIN toHost' : i \in Nat /\ toHost'[i].id \in Ids /\ toHost'[i].id \in Nat
          /\ \A i \in DOMAIN toClient : toClient[i].id \in Ids /\ toClient[i].id \in Nat
      BY <1>3, <3>1, Frames, IdsAreNumbers
    <3>3. \A i \in DOMAIN toHost : toHost[i].id < id
      BY <1>3 DEF IInv, IdsInv
    <3>4. ASSUME NEW i \in DOMAIN toClient
          PROVE  toClient[i].id < id
      <4>1. toClient[i].id <= lastPeerId /\ lastPeerId < id
        BY <1>3 DEF IInv, IdsInv
      <4>2. QED
        BY <1>3, <3>2, <4>1
    <3>5. QED
      BY <3>2, <3>3, <3>4
  <2>7. ~incoming[id].live /\ lastPeerId < id /\ taken[id] = 0
    BY <1>3 DEF IInv, IdsInv
  <2>8. IdsInv'
    <3>1. lastPeerId' < nextId'
      BY <1>3, <2>7
    <3>2. ASSUME NEW r \in Ids
          PROVE  /\ outgoing'[r].live => r < nextId'
                 /\ r >= nextId' => taken'[r] = 0
                 /\ incoming'[r].live => r <= lastPeerId'
                 /\ outgoing'[r].nextSeq > 0 => r <= lastPeerId'
      <4>1. /\ outgoing[r].live => r < id
            /\ r >= id => taken[r] = 0
            /\ incoming[r].live => r <= lastPeerId
            /\ outgoing[r].nextSeq > 0 => r <= lastPeerId
        BY <1>3 DEF IInv, IdsInv
      <4>2. r \in Nat
        BY <2>6
      <4>3. CASE r = id
        BY <1>3, <2>4, <2>7, <4>3
      <4>4. CASE r # id
        BY <1>3, <2>4, <4>1, <4>2, <4>4
      <4>5. QED
        BY <4>3, <4>4
    <3>3. ASSUME NEW i \in DOMAIN toHost'
          PROVE  /\ toHost'[i].id < nextId'
                 /\ toHost'[i].kind = "credit" => toHost'[i].id <= lastPeerId'
      <4>1. CASE i \in DOMAIN toHost /\ toHost'[i] = toHost[i]
        <5>1. toHost[i].kind = "credit" => toHost[i].id <= lastPeerId
          BY <4>1 DEF IInv, IdsInv
        <5>2. toHost[i].id < id /\ toHost[i].id \in Nat
          BY <2>6, <4>1
        <5>3. QED
          BY <1>3, <4>1, <5>1, <5>2
      <4>2. CASE toHost'[i].id = id /\ toHost'[i].kind = "request"
        BY <1>3, <4>2
      <4>3. QED
        BY <2>5, <4>1, <4>2
    <3>4. \A i \in DOMAIN toClient' : toClient'[i].id <= lastPeerId'
      BY <1>3 DEF IInv, IdsInv
    <3>5. QED
      BY <3>1, <3>2, <3>3, <3>4 DEF IdsInv
  <2>9. CreditInv'
    <3>1. \A r \in Ids : /\ Counted(r)' = Counted(r)
                         /\ r # id => GrantedBack(r)' = GrantedBack(r)
      BY <1>3, <2>4 DEF Counted, GrantedBack
    <3>2. GrantedBack(id)' = 0
      BY <2>2, <2>4 DEF GrantedBack
    <3>3. ASSUME NEW r \in Ids
          PROVE  /\ incoming'[r].live => Counted(r)' <= GrantedBack(r)'
                 /\ outgoing'[r].byHand =>
                      taken'[r] = outgoing'[r].granted + GrantedBack(r)'
      <4>1. CASE r = id
        <5>1. taken'[id] = 0 /\ ~incoming'[id].live
          BY <1>3, <2>7
        <5>2. QED
          BY <2>4, <3>2, <4>1, <5>1
      <4>2. CASE r # id
        BY <1>3, <2>4, <3>1, <4>2 DEF IInv, CreditInv
      <4>3. QED
        BY <4>1, <4>2
    <3>4. ASSUME NEW i \in DOMAIN toHost', toHost'[i].kind = "credit"
          PROVE  i \in DOMAIN toHost /\ toHost'[i] = toHost[i] /\ toHost[i].id \in Ids /\ toHost[i].id # id
      BY <1>3, <2>5, <2>6, <3>4
    <3>5. ASSUME NEW i \in DOMAIN toHost', toHost'[i].kind = "credit"
          PROVE  /\ toHost'[i].upto <= GrantedBack(toHost[i].id)'
                 /\ incoming'[toHost'[i].id].live =>
                      Counted(toHost[i].id)' <= toHost'[i].upto - toHost'[i].n
      <4>1. PICK r \in Ids : r = toHost'[i].id /\ r = toHost[i].id /\ r # id
        BY <3>4, <3>5
      <4>2. /\ GrantedBack(toHost[i].id)' = GrantedBack(r)' /\ GrantedBack(toHost[i].id) = GrantedBack(r)
            /\ Counted(toHost[i].id)' = Counted(r)' /\ Counted(toHost[i].id) = Counted(r)
        BY <4>1 DEF GrantedBack, Counted
      <4>3. /\ toHost[i].upto <= GrantedBack(toHost[i].id)
            /\ incoming[toHost[i].id].live =>
                 Counted(toHost[i].id) <= toHost[i].upto - toHost[i].n
        BY <3>4, <3>5 DEF IInv, CreditInv
      <4>4. QED
        BY <1>3, <3>1, <3>4, <3>5, <4>1, <4>2, <4>3
    <3>6. ASSUME NEW i \in DOMAIN toHost', NEW j \in DOMAIN toHost',
                 i < j, toHost'[i].id = toHost'[j].id,
                 toHost'[i].kind = "credit", toHost'[j].kind = "credit"
          PROVE  toHost'[i].upto <= toHost'[j].upto - toHost'[j].n
      BY <3>4, <3>6 DEF IInv, CreditInv
    <3>7. QED
      BY <3>3, <3>5, <3>6 DEF CreditInv
  <2>10. RequestsInv'
    <3>1. ASSUME NEW i \in DOMAIN toHost', toHost'[i].kind = "request"
          PROVE  /\ toHost'[i].id > lastPeerId
                 /\ cState = "open" => outgoing'[toHost'[i].id].live
      <4>1. CASE i \in DOMAIN toHost /\ toHost'[i] = toHost[i]
        <5>1. toHost[i].id > lastPeerId /\ (cState = "open" => outgoing[toHost[i].id].live)
          BY <3>1, <4>1 DEF IInv, RequestsInv
        <5>2. toHost[i].id # id /\ toHost[i].id \in Ids
          BY <1>3, <2>6, <4>1
        <5>3. QED
          BY <2>4, <4>1, <5>1, <5>2
      <4>2. CASE toHost'[i].id = id
        BY <1>3, <2>4, <2>7, <4>2
      <4>3. QED
        BY <2>5, <4>1, <4>2
    <3>2. ASSUME NEW i \in DOMAIN toHost', NEW j \in DOMAIN toHost',
                 i < j, toHost'[i].kind = "request", toHost'[j].kind = "request"
          PROVE  toHost'[i].id < toHost'[j].id
      <4>1. CASE j \in DOMAIN toHost /\ toHost'[j] = toHost[j]
        <5>1. i \in DOMAIN toHost /\ toHost'[i] = toHost[i]
          BY <2>5, <2>6, <3>2, <4>1
        <5>2. QED
          BY <3>2, <4>1, <5>1 DEF IInv, RequestsInv
      <4>2. CASE j = Len(toHost) + 1 /\ toHost'[j].id = id
        <5>1. i # Len(toHost) + 1
          BY <2>5, <2>6, <3>2, <4>2
        <5>2. QED
          BY <2>5, <2>6, <4>2, <5>1
      <4>3. QED
        BY <2>5, <4>1, <4>2
    <3>3. ASSUME NEW r \in Ids, incoming[r].live
          PROVE  hState = "open" /\ (cState = "open" => outgoing'[r].live)
      BY <2>4, <2>7, <3>3 DEF IInv, RequestsInv
    <3>4. QED
      BY <1>3, <3>1, <3>2, <3>3 DEF RequestsInv
  <2>11. ResponsesInv'
    <3>1. ASSUME NEW i \in DOMAIN toClient
          PROVE  outgoing'[toClient[i].id] = outgoing[toClient[i].id]
      BY <1>3, <2>4, <2>6
    <3>2. QED
      BY <1>3, <3>1 DEF IInv, ResponsesInv
  <2>12. ChunksInv'
    <3>1. ASSUME NEW i \in DOMAIN toClient
          PROVE  outgoing'[toClient[i].id] = outgoing[toClient[i].id]
      BY <1>3, <2>4, <2>6
    <3>2. \A r \in Ids : incoming[r].live => outgoing'[r] = outgoing[r]
      BY <2>4, <2>7
    <3>3. QED
      BY <1>3, <3>1, <3>2 DEF IInv, ChunksInv
  <2>13. QED
    BY <1>2, <1>3, <2>8, <2>9, <2>10, <2>11, <2>12 DEF IInv
<1>6. QED
  BY <1>4, <1>5

-----------------------------------------------------------------------------
(* The invariant holds, and what follows from it *)

\* Every step of the specification keeps the invariant.
LEMMA Step == IInv /\ [Next]_vars => IInv'
<1> SUFFICES ASSUME IInv, [Next]_vars
             PROVE  IInv'
  OBVIOUS
<1>1. CASE Next
  BY <1>1, QuietCalls, IssueKeeps, GrantKeeps, ClientReceiveKeeps, HostReceiveKeeps, HostCallsKeep
  DEF Next
<1>2. CASE UNCHANGED vars
  BY <1>2 DEF vars, clientVars, hostVars, IInv, TypeInv, TypeOK, ConsumedHeard, IdsInv,
              CreditInv, RequestsInv, ResponsesInv, ChunksInv, GrantedBack, Counted
<1>3. QED
  BY <1>1, <1>2

\* The invariant holds throughout.
LEMMA Invariant == Spec => []IInv
  BY InitIInv, Step, PTL DEF Spec

\* Whatever crosses in flight, neither endpoint of two that run this code ever
\* throws the ProtocolError that ends the connection (ReceiveRequest,
\* ReceiveChunk, ReceiveResponse), for any number of requests, chunks and credits.
THEOREM NeverProtocolError == Spec => []NoProtocolError
<1>1. IInv => NoProtocolError
  BY DEF IInv, NoProtocolError
<1>2. QED
  BY Invariant, <1>1, PTL

\* Whatever the window, a handler never runs further ahead of the client than it,
\* nor, where the client grants by hand, of the consumer (SendChunk,
\* GrantConsumed, Endpoint::Grant).
THEOREM WindowAlwaysRespected == Spec => []WindowRespected
<1>1. IInv => WindowRespected
  <2> SUFFICES ASSUME IInv, NEW id \in Ids, incoming[id].live
               PROVE  /\ incoming[id].nextSeq - outgoing[id].nextSeq + outgoing[id].consumed <= Window
                      /\ outgoing[id].byHand => incoming[id].nextSeq <= taken[id] + Window
    BY DEF WindowRespected
  <2>1. incoming[id] \in Incoming /\ outgoing[id] \in Outgoing /\ taken[id] \in Nat
    BY DEF IInv, TypeInv, TypeOK
  <2>2. /\ incoming[id].nextSeq \in Nat /\ incoming[id].credit \in Nat /\ Window \in Nat
        /\ outgoing[id].nextSeq \in Nat /\ outgoing[id].consumed \in Nat /\ outgoing[id].granted \in Nat
    BY <2>1, WindowAssumption DEF Incoming, Outgoing
  <2>3. /\ incoming[id].nextSeq + incoming[id].credit - Window <= outgoing[id].nextSeq - outgoing[id].consumed
        /\ outgoing[id].byHand =>
             taken[id] = outgoing[id].granted + (outgoing[id].nextSeq - outgoing[id].consumed)
    BY DEF IInv, CreditInv, Counted, GrantedBack
  <2>4. QED
    BY <2>1, <2>2, <2>3
<1>2. QED
  BY Invariant, <1>1, PTL

-----------------------------------------------------------------------------
(* Credit is conserved *)

\* What one frame to the host is worth to request id.
CreditOf(id) == [m \in HostMsg |-> IF m.kind = "credit" /\ m.id = id THEN m.n ELSE 0]

LEMMA CreditOfTyped ==
  ASSUME NEW id \in Ids
  PROVE  /\ CreditOf(id) \in [HostMsg -> Nat]
         /\ \A c \in Seq(HostMsg) : /\ CreditIn(c, id) = Total(Weights(c, CreditOf(id)))
                                    /\ CreditIn(c, id) \in Nat
<1>1. \A m \in HostMsg : (IF m.kind = "credit" /\ m.id = id THEN m.n ELSE 0) \in Nat
  BY DEF HostMsg, RequestMsg, CancelMsg, CreditMsg
<1>2. CreditOf(id) \in [HostMsg -> Nat]
  BY <1>1 DEF CreditOf
<1>3. \A c \in Seq(HostMsg) : Total(Weights(c, CreditOf(id))) \in Nat
  BY <1>2, WeightsTyped
<1>4. ASSUME NEW c \in Seq(HostMsg)
      PROVE  CreditIn(c, id) = Total(Weights(c, CreditOf(id)))
  <2>1. DOMAIN c = 1 .. Len(c) /\ \A i \in 1 .. Len(c) : c[i] \in HostMsg
    BY LenProperties, ElementOfSeq
  <2>2. \A i \in 1 .. Len(c) :
          CreditOf(id)[c[i]] = IF c[i].kind = "credit" /\ c[i].id = id THEN c[i].n ELSE 0
    BY <2>1 DEF CreditOf
  <2>3. Weights(c, CreditOf(id)) =
          [i \in DOMAIN c |-> IF c[i].kind = "credit" /\ c[i].id = id THEN c[i].n ELSE 0]
    BY <2>1, <2>2 DEF Weights
  <2>4. QED
    BY <2>3 DEF CreditIn
<1>5. QED
  BY <1>2, <1>3, <1>4

\* Frames that grant nothing to id are worth nothing to it.
LEMMA NoCredit ==
  ASSUME NEW id \in Ids, NEW ms \in Seq(HostMsg),
         \A i \in DOMAIN ms : ~(ms[i].kind = "credit" /\ ms[i].id = id)
  PROVE  CreditIn(ms, id) = 0
<1>1. CreditOf(id) \in [HostMsg -> Nat]
  BY CreditOfTyped
<1>2. \A c \in Seq(HostMsg) :
        /\ Len(Weights(c, CreditOf(id))) = Len(c) /\ Len(c) \in Nat
        /\ \A i \in 1 .. Len(c) : Weights(c, CreditOf(id))[i] = CreditOf(id)[c[i]] /\ c[i] \in HostMsg
  BY <1>1, WeightsTyped
<1>3. DOMAIN ms = 1 .. Len(ms)
  BY LenProperties
<1>4. \A i \in 1 .. Len(ms) : CreditOf(id)[ms[i]] = 0
  BY <1>2, <1>3 DEF CreditOf
<1>5. Total(Weights(ms, CreditOf(id))) = 0
  BY <1>2, <1>4, TotalZero
<1>6. QED
  BY <1>5, CreditOfTyped

\* Frames are sent to the host, and the host takes one.
LEMMA CreditSent ==
  ASSUME NEW id \in Ids, toHost \in Seq(HostMsg), NEW ms \in Seq(HostMsg),
         cState = "open", hState = "open", toHost' = SentToHost(ms)
  PROVE  /\ CreditIn(toHost', id) = CreditIn(toHost, id) + CreditIn(ms, id)
         /\ CreditIn(toHost, id) \in Nat /\ CreditIn(ms, id) \in Nat
<1>1. toHost' = toHost \o ms
  BY DEF SentToHost
<1>2. CreditOf(id) \in [HostMsg -> Nat]
  BY CreditOfTyped
<1>3. /\ toHost \o ms \in Seq(HostMsg)
      /\ Total(Weights(toHost \o ms, CreditOf(id)))
           = Total(Weights(toHost, CreditOf(id))) + Total(Weights(ms, CreditOf(id)))
  BY <1>2, WeightsJoin
<1>4. \A c \in Seq(HostMsg) : CreditIn(c, id) = Total(Weights(c, CreditOf(id))) /\ CreditIn(c, id) \in Nat
  BY CreditOfTyped
<1>5. QED
  BY <1>1, <1>3, <1>4

LEMMA CreditTaken ==
  ASSUME NEW id \in Ids, toHost \in Seq(HostMsg), toHost # <<>>, toHost' = Tail(toHost)
  PROVE  /\ CreditIn(toHost, id) = CreditOf(id)[toHost[1]] + CreditIn(toHost', id)
         /\ CreditIn(toHost', id) \in Nat
         /\ toHost[1] \in HostMsg /\ Head(toHost) = toHost[1] /\ 1 \in DOMAIN toHost
<1>1. toHost' \in Seq(HostMsg) /\ Shrunk(toHost', toHost)
  BY HeadTailProperties, EmptySeq DEF Shrunk
<1>2. CreditOf(id) \in [HostMsg -> Nat]
  BY CreditOfTyped
<1>3. Total(Weights(toHost, CreditOf(id)))
        = CreditOf(id)[toHost[1]] + Total(Weights(toHost', CreditOf(id)))
  BY <1>1, <1>2, WeightsShrink
<1>4. \A c \in Seq(HostMsg) : CreditIn(c, id) = Total(Weights(c, CreditOf(id))) /\ CreditIn(c, id) \in Nat
  BY CreditOfTyped
<1>5. 1 \in DOMAIN toHost /\ toHost[1] \in HostMsg /\ Head(toHost) = toHost[1]
  OBVIOUS
<1>6. QED
  BY <1>1, <1>3, <1>4, <1>5

\* A batch the client grants is worth what it moves the grants up by.
LEMMA BatchIsWorth ==
  ASSUME NEW e \in Outgoing, NEW id \in Ids, e.consumed <= e.nextSeq
  PROVE  /\ GrantSent(id, e) \in Seq(HostMsg)
         /\ e.nextSeq - e.consumed + CreditIn(GrantSent(id, e), id)
              = Granting(e).nextSeq - Granting(e).consumed
         /\ \A r \in Ids \ {id} : CreditIn(GrantSent(id, e), r) = 0
<1> DEFINE ms == GrantSent(id, e)
           up == Granting(e).nextSeq - Granting(e).consumed
<1>1. /\ ms \in Seq(HostMsg)
      /\ \A i \in DOMAIN ms : /\ i = 1 /\ ms[i].id = id /\ ms[i].kind = "credit"
                              /\ ms[i].upto = up /\ ms[i].upto - ms[i].n = e.nextSeq - e.consumed
  BY GrantingCounts
<1>2. e.nextSeq \in Nat /\ e.consumed \in Nat /\ Ready(e) \in Nat
  BY GrantingTyped DEF Outgoing
<1>3. CASE Ready(e) >= Batch
  <2> DEFINE m == Credit(id, Ready(e), e.nextSeq - e.consumed + Ready(e))
  <2>1. ms = <<m>> /\ Granting(e) = Granted(e, Ready(e))
    BY <1>3 DEF GrantSent, Granting
  <2>2. ms[1] = m /\ 1 \in DOMAIN ms /\ Len(ms) = 1
    BY <2>1
  <2>3. m.kind = "credit" /\ m.id = id /\ m.n = Ready(e) /\ m.upto = e.nextSeq - e.consumed + Ready(e)
    BY DEF Credit
  <2> HIDE DEF m, ms, up
  <2>4. up = e.nextSeq - e.consumed + Ready(e)
    BY <1>1, <2>2, <2>3
  <2>5. CreditIn(ms, id) = Ready(e)
    <3>1. CreditOf(id) \in [HostMsg -> Nat]
      BY CreditOfTyped
    <3>2. ms[1] \in HostMsg
      BY <1>1, <2>2, ElementOfSeq, LenProperties
    <3>3. CreditOf(id)[ms[1]] = Ready(e)
      BY <2>2, <2>3, <3>2 DEF CreditOf
    <3>4. \A c \in Seq(HostMsg) :
            /\ Len(Weights(c, CreditOf(id))) = Len(c)
            /\ \A i \in 1 .. Len(c) : Weights(c, CreditOf(id))[i] = CreditOf(id)[c[i]]
      BY <3>1, WeightsTyped
    <3>5. Len(Weights(ms, CreditOf(id))) = 1 /\ Weights(ms, CreditOf(id))[1] = Ready(e)
      BY <1>1, <2>2, <3>3, <3>4
    <3>6. Total(Weights(ms, CreditOf(id))) = Ready(e)
      BY <1>2, <3>5, TotalSingle
    <3>7. QED
      BY <1>1, <3>6, CreditOfTyped
  <2>6. ASSUME NEW r \in Ids \ {id} PROVE CreditIn(ms, r) = 0
    BY <1>1, NoCredit
  <2>7. QED
    BY <1>1, <1>2, <2>4, <2>5, <2>6 DEF ms, up
<1>4. CASE ~(Ready(e) >= Batch)
  <2>1. ms = <<>> /\ Granting(e) = e
    BY <1>4 DEF GrantSent, Granting
  <2>2. up = e.nextSeq - e.consumed
    BY <2>1
  <2>3. \A i \in DOMAIN ms : FALSE
    BY <2>1
  <2> HIDE DEF ms, up
  <2>4. ASSUME NEW r \in Ids PROVE CreditIn(ms, r) = 0
    BY <1>1, <2>3, NoCredit
  <2>5. CreditIn(ms, id) = 0
    BY <2>4
  <2>6. QED
    BY <1>1, <1>2, <2>2, <2>4, <2>5 DEF ms, up
<1>5. QED
  BY <1>3, <1>4

\* What the host has counted and what is still on its way to it make up what
\* the client has granted.
AllCounted(id) == Counted(id) + CreditIn(toHost, id) = GrantedBack(id)

LEMMA CreditNumbers ==
  ASSUME TypeInv, NEW r \in Ids
  PROVE  /\ incoming[r].nextSeq \in Nat /\ incoming[r].credit \in Nat /\ Window \in Nat
         /\ outgoing[r].nextSeq \in Nat /\ outgoing[r].consumed \in Nat
         /\ outgoing[r] \in Outgoing /\ incoming[r] \in Incoming
         /\ Counted(r) \in Int /\ GrantedBack(r) \in Int
         /\ CreditIn(toHost, r) \in Nat /\ toHost \in Seq(HostMsg)
<1>1. /\ incoming[r] \in Incoming /\ outgoing[r] \in Outgoing /\ toHost \in Seq(HostMsg)
  BY DEF TypeInv, TypeOK
<1>2. /\ incoming[r].nextSeq \in Nat /\ incoming[r].credit \in Nat
      /\ outgoing[r].nextSeq \in Nat /\ outgoing[r].consumed \in Nat /\ Window \in Nat
  BY <1>1, WindowAssumption DEF Incoming, Outgoing
<1>3. CreditIn(toHost, r) \in Nat
  BY <1>1, CreditOfTyped
<1>4. QED
  BY <1>1, <1>2, <1>3 DEF Counted, GrantedBack

\* The client's grants move up by what it sends.
LEMMA ClientKeepsCredit ==
  ASSUME IInv, NEW r \in Ids, AllCounted(r), incoming[r].live, cState = "open",
         NEW ms \in Seq(HostMsg), toHost' = SentToHost(ms), incoming' = incoming,
         GrantedBack(r)' = GrantedBack(r) + CreditIn(ms, r)
  PROVE  AllCounted(r)'
<1>1. TypeInv /\ hState = "open"
  BY DEF IInv, RequestsInv
<1>2. Counted(r) \in Int /\ GrantedBack(r) \in Int /\ toHost \in Seq(HostMsg)
  BY <1>1, CreditNumbers
<1>3. /\ CreditIn(toHost', r) = CreditIn(toHost, r) + CreditIn(ms, r)
      /\ CreditIn(toHost, r) \in Nat /\ CreditIn(ms, r) \in Nat
  BY <1>1, <1>2, CreditSent
<1>4. Counted(r)' = Counted(r)
  BY DEF Counted
<1>5. Counted(r) + CreditIn(toHost, r) = GrantedBack(r)
  BY DEF AllCounted
<1>6. Counted(r)' + CreditIn(toHost', r) = GrantedBack(r)'
  BY <1>2, <1>3, <1>4, <1>5
<1>7. QED
  BY <1>6 DEF AllCounted

\* The client's calls keep every grant accounted for.
LEMMA ClientCallsKeepCredit ==
  ASSUME IInv, NEW r \in Ids, incoming'[r].live, outgoing'[r].live,
         incoming[r].live /\ outgoing[r].live => AllCounted(r),
         \/ \E id \in Ids : ReserveRequestIds(id)
         \/ \E known, byHand, idleLimit \in BOOLEAN : Issue(known, byHand, idleLimit)
         \/ \E id \in Ids, n \in 1..MaxChunks : Grant(id, n)
         \/ \E id \in Ids : Cancel(id)
         \/ \E ids \in SUBSET Ids : ExpireIdle(ids)
         \/ ClientClose \/ ClientDestroy \/ HostClose
  PROVE  AllCounted(r)'
<1>1. /\ TypeInv /\ outgoing \in [Ids -> Outgoing] /\ incoming \in [Ids -> Incoming]
      /\ toHost \in Seq(HostMsg)
  BY DEF IInv, TypeInv, TypeOK
<1>2. ASSUME NEW id \in Ids, ReserveRequestIds(id)
      PROVE  AllCounted(r)'
  <2>1. UNCHANGED <<incoming, outgoing, toHost>>
    BY <1>2 DEF ReserveRequestIds, hostVars
  <2>2. QED
    BY <2>1 DEF AllCounted, Counted, GrantedBack
<1>3. ASSUME NEW known \in BOOLEAN, NEW byHand \in BOOLEAN, NEW idleLimit \in BOOLEAN,
             Issue(known, byHand, idleLimit)
      PROVE  AllCounted(r)'
  <2>1. incoming' = incoming /\ nextId \in Ids /\ cState # "destroyed"
    BY <1>3 DEF Issue, hostVars
  <2>2. r # nextId
    <3>1. r <= lastPeerId /\ lastPeerId < nextId
      BY <2>1 DEF IInv, IdsInv
    <3>2. lastPeerId \in Nat /\ nextId \in Nat /\ r \in Nat
      BY <1>1, <2>1, IdsAreNumbers DEF TypeInv, TypeOK
    <3>3. QED
      BY <3>1, <3>2
  <2>3. outgoing'[r] = outgoing[r]
    BY <1>1, <1>3, <2>2 DEF Issue
  <2>4. AllCounted(r) /\ GrantedBack(r)' = GrantedBack(r)
    BY <2>1, <2>3 DEF GrantedBack
  <2>5. CASE cState = "open"
    <3> DEFINE ms == <<Request(nextId, known)>>
    <3>1. toHost' = SentToHost(ms)
      BY <1>3, <2>5 DEF Issue
    <3>2. ms \in Seq(HostMsg) /\ \A i \in DOMAIN ms : ~(ms[i].kind = "credit" /\ ms[i].id = r)
      BY <1>3, <2>1 DEF Request, RequestMsg, HostMsg
    <3> HIDE DEF ms
    <3>3. CreditIn(ms, r) = 0
      BY <3>2, NoCredit
    <3>4. GrantedBack(r) \in Int
      BY <1>1, CreditNumbers
    <3>5. GrantedBack(r)' = GrantedBack(r) + CreditIn(ms, r)
      BY <2>4, <3>3, <3>4
    <3>6. QED
      BY <2>1, <2>4, <2>5, <3>1, <3>2, <3>5, ClientKeepsCredit
  <2>6. CASE cState # "open"
    <3>1. toHost' = toHost
      BY <1>3, <2>6 DEF Issue, SentToHost
    <3>2. QED
      BY <2>1, <2>3, <2>4, <3>1 DEF AllCounted, Counted
  <2>7. QED
    BY <2>5, <2>6
<1>4. ASSUME NEW id \in Ids, NEW n \in 1..MaxChunks, Grant(id, n)
      PROVE  AllCounted(r)'
  <2> DEFINE e == [outgoing[id] EXCEPT !.granted = @ + n]
             ms == GrantSent(id, e)
  <2>1. /\ cState = "open" /\ outgoing[id].live /\ incoming' = incoming
        /\ outgoing' = [outgoing EXCEPT ![id] = Granting(e)] /\ toHost' = SentToHost(ms)
    BY <1>4 DEF Grant, hostVars
  <2>2. /\ e \in Outgoing /\ e.consumed = outgoing[id].consumed /\ e.nextSeq = outgoing[id].nextSeq
        /\ e.consumed <= e.nextSeq
    <3>1. n \in Nat /\ outgoing[id] \in Outgoing /\ outgoing[id].consumed <= outgoing[id].nextSeq
      BY <1>1, BoundsAssumption DEF TypeInv, ConsumedHeard
    <3>2. QED
      BY <3>1 DEF Outgoing
  <2> HIDE DEF e
  <2>3. /\ ms \in Seq(HostMsg)
        /\ e.nextSeq - e.consumed + CreditIn(ms, id) = Granting(e).nextSeq - Granting(e).consumed
        /\ \A x \in Ids \ {id} : CreditIn(ms, x) = 0
    BY <2>2, BatchIsWorth
  <2> HIDE DEF ms
  <2>4. outgoing'[id] = Granting(e) /\ \A x \in Ids \ {id} : outgoing'[x] = outgoing[x]
    BY <1>1, <2>1
  <2>5. AllCounted(r) /\ incoming[r].live
    BY <2>1, <2>4
  <2>6. GrantedBack(r)' = GrantedBack(r) + CreditIn(ms, r)
    <3>1. CASE r = id
      BY <2>2, <2>3, <2>4, <3>1 DEF GrantedBack
    <3>2. CASE r # id
      <4>1. GrantedBack(r)' = GrantedBack(r) /\ CreditIn(ms, r) = 0 /\ GrantedBack(r) \in Int
        BY <1>1, <2>3, <2>4, <3>2, CreditNumbers DEF GrantedBack
      <4>2. QED
        BY <4>1
    <3>3. QED
      BY <3>1, <3>2
  <2>7. QED
    BY <2>1, <2>3, <2>5, <2>6, ClientKeepsCredit
<1>5. ASSUME cState = "open", incoming' = incoming,
             \A x \in Ids : /\ outgoing'[x].live = outgoing[x].live
                            /\ outgoing'[x].nextSeq = outgoing[x].nextSeq
                            /\ outgoing'[x].consumed = outgoing[x].consumed,
             NEW ms \in Seq(HostMsg), toHost' = SentToHost(ms),
             \A i \in DOMAIN ms : ms[i].kind = "cancel"
      PROVE  AllCounted(r)'
  <2>1. CreditIn(ms, r) = 0
    BY <1>5, NoCredit
  <2>2. GrantedBack(r)' = GrantedBack(r) /\ GrantedBack(r) \in Int
    BY <1>1, <1>5, CreditNumbers DEF GrantedBack
  <2>3. GrantedBack(r)' = GrantedBack(r) + CreditIn(ms, r)
    BY <2>1, <2>2
  <2>4. AllCounted(r) /\ incoming[r].live
    BY <1>5
  <2>5. QED
    BY <1>5, <2>3, <2>4, ClientKeepsCredit
<1>6. ASSUME NEW id \in Ids, Cancel(id)
      PROVE  AllCounted(r)'
  <2>1. <<Cancelled(id)>> \in Seq(HostMsg) /\ \A i \in DOMAIN <<Cancelled(id)>> : <<Cancelled(id)>>[i].kind = "cancel"
    BY DEF Cancelled, CancelMsg, HostMsg
  <2>2. \A x \in Ids : /\ outgoing'[x].live = outgoing[x].live
                       /\ outgoing'[x].nextSeq = outgoing[x].nextSeq
                       /\ outgoing'[x].consumed = outgoing[x].consumed
    BY <1>1, <1>6 DEF Cancel, Outgoing
  <2>3. cState = "open" /\ incoming' = incoming /\ toHost' = SentToHost(<<Cancelled(id)>>)
    BY <1>6 DEF Cancel, hostVars
  <2>4. QED
    BY <1>5, <2>1, <2>2, <2>3
<1>7. ASSUME NEW ids \in SUBSET Ids, ExpireIdle(ids)
      PROVE  AllCounted(r)'
  <2>1. PICK o \in OrdersOf(ids) : toHost' = SentToHost([i \in DOMAIN o |-> Cancelled(o[i])])
    BY <1>7 DEF ExpireIdle
  <2>2. PICK n \in Ids : o \in [1..n -> ids]
    BY <2>1 DEF OrdersOf
  <2> DEFINE ms == [i \in DOMAIN o |-> Cancelled(o[i])]
  <2>3. \A i \in 1..n : Cancelled(o[i]) \in HostMsg /\ Cancelled(o[i]).kind = "cancel"
    BY <2>2 DEF Cancelled, CancelMsg, HostMsg
  <2>4. ms \in Seq(HostMsg) /\ \A i \in DOMAIN ms : ms[i].kind = "cancel"
    BY <2>2, <2>3 DEF Ids
  <2>5. \A x \in Ids : /\ outgoing'[x].live = outgoing[x].live
                       /\ outgoing'[x].nextSeq = outgoing[x].nextSeq
                       /\ outgoing'[x].consumed = outgoing[x].consumed
    BY <1>1, <1>7 DEF ExpireIdle, Expired, Outgoing
  <2>6. cState = "open" /\ incoming' = incoming
    BY <1>7 DEF ExpireIdle, hostVars
  <2> HIDE DEF ms
  <2>7. toHost' = SentToHost(ms)
    BY <2>1 DEF ms
  <2>8. QED
    BY <1>5, <2>4, <2>5, <2>6, <2>7
<1>8. CASE ClientClose
  BY <1>1, <1>8 DEF ClientClose, CloseClient, Erased, Outgoing
<1>9. CASE ClientDestroy
  BY <1>1, <1>9 DEF ClientDestroy, Erased, Outgoing
<1>10. CASE HostClose
  BY <1>1, <1>10 DEF HostClose, CloseHost, Stopped, Incoming
<1>11. QED
  BY <1>2, <1>3, <1>4, <1>6, <1>7, <1>8, <1>9, <1>10

\* A frame to the client: a chunk is counted and may be granted back.
LEMMA ClientReceiveKeepsCredit ==
  ASSUME IInv, ClientReceive, NEW r \in Ids, incoming'[r].live, outgoing'[r].live,
         incoming[r].live /\ outgoing[r].live => AllCounted(r)
  PROVE  AllCounted(r)'
<1>1. PICK m : m = Head(toClient)
  OBVIOUS
<1>2. PICK id : id = m.id
  OBVIOUS
<1>3. /\ TypeInv /\ outgoing \in [Ids -> Outgoing] /\ incoming \in [Ids -> Incoming]
      /\ toHost \in Seq(HostMsg) /\ toClient \in Seq(ClientMsg) /\ cState = "open" /\ toClient # <<>>
  BY DEF IInv, TypeInv, TypeOK, ClientReceive
<1>4. id \in Ids
  BY <1>1, <1>2, <1>3 DEF ClientMsg, ChunkMsg, ResponseMsg
<1>5. CASE ClientProtocolError
  BY <1>3, <1>5 DEF ClientProtocolError, CloseClient, Erased, Outgoing
<1>6. CASE ReceiveResponse(m) /\ UNCHANGED hostVars
  <2>1. /\ incoming' = incoming /\ toHost' = toHost
        /\ outgoing' = [outgoing EXCEPT ![id] = Erased(@)]
    BY <1>2, <1>6 DEF ReceiveResponse, hostVars
  <2>2. outgoing'[r] = outgoing[r]
    BY <1>3, <1>4, <2>1 DEF Erased, Outgoing
  <2>3. QED
    BY <2>1, <2>2 DEF AllCounted, Counted, GrantedBack
<1>7. ASSUME NEW cancels \in BOOLEAN, ReceiveChunk(m, cancels), UNCHANGED hostVars
      PROVE  AllCounted(r)'
  <2> DEFINE e == outgoing[id]
             heard == [e EXCEPT !.nextSeq = @ + 1, !.consumed = @ + 1]
             quit  == [heard EXCEPT !.cancelled = TRUE]
             said  == <<Cancelled(id)>>
  <2>1. /\ e \in Outgoing /\ e.nextSeq \in Nat /\ e.consumed \in Nat /\ e.consumed <= e.nextSeq
        /\ incoming' = incoming
    BY <1>3, <1>4, <1>7 DEF TypeInv, ConsumedHeard, Outgoing, hostVars
  <2>2. /\ heard \in Outgoing /\ heard.consumed <= heard.nextSeq /\ heard.live = e.live
        /\ heard.nextSeq = e.nextSeq + 1 /\ heard.consumed = e.consumed + 1
    <3>1. heard \in Outgoing /\ heard.consumed <= heard.nextSeq
      BY <2>1, HeardTyped
    <3>2. QED
      BY <2>1, <3>1 DEF Outgoing
  <2>3. /\ quit.live = heard.live /\ quit.nextSeq = heard.nextSeq /\ quit.consumed = heard.consumed
        /\ quit \in Outgoing
    BY <2>2 DEF Outgoing
  <2>4. \/ outgoing' = [outgoing EXCEPT ![id] = quit] /\ toHost' = SentToHost(said)
        \/ outgoing' = [outgoing EXCEPT ![id] = heard] /\ toHost' = toHost
        \/ outgoing' = [outgoing EXCEPT ![id] = Granting(heard)] /\ toHost' = SentToHost(GrantSent(id, heard))
    BY <1>2, <1>7 DEF ReceiveChunk
  <2>5. said \in Seq(HostMsg) /\ CreditIn(said, id) = 0 /\ \A x \in Ids \ {id} : CreditIn(said, x) = 0
    <3>1. said \in Seq(HostMsg) /\ \A i \in DOMAIN said : said[i].kind = "cancel"
      BY <1>4 DEF Cancelled, CancelMsg, HostMsg
    <3> HIDE DEF said
    <3>2. \A x \in Ids : CreditIn(said, x) = 0
      BY <3>1, NoCredit
    <3>3. QED
      BY <1>4, <3>1, <3>2
  <2>6. <<>> \in Seq(HostMsg) /\ \A x \in Ids : CreditIn(<<>>, x) = 0
    <3> DEFINE none == <<>>
    <3>1. none \in Seq(HostMsg) /\ \A i \in DOMAIN none : FALSE
      OBVIOUS
    <3> HIDE DEF none
    <3>2. \A x \in Ids : CreditIn(none, x) = 0
      BY <3>1, NoCredit
    <3>3. QED
      BY <3>1, <3>2 DEF none
  <2>7. /\ GrantSent(id, heard) \in Seq(HostMsg)
        /\ heard.nextSeq - heard.consumed + CreditIn(GrantSent(id, heard), id)
             = Granting(heard).nextSeq - Granting(heard).consumed
        /\ \A x \in Ids \ {id} : CreditIn(GrantSent(id, heard), x) = 0
        /\ Granting(heard).live = heard.live /\ Granting(heard) \in Outgoing
    <3> HIDE DEF heard
    <3>1. QED
      BY <1>4, <2>2, BatchIsWorth, GrantingCounts, GrantingTyped
  <2>8. toHost = SentToHost(<<>>)
    BY <1>3 DEF SentToHost
  <2> HIDE DEF e, heard, quit, said
  <2>9. PICK f \in Outgoing, ms \in Seq(HostMsg) :
          /\ outgoing' = [outgoing EXCEPT ![id] = f] /\ toHost' = SentToHost(ms)
          /\ f.live = heard.live
          /\ f.nextSeq - f.consumed = heard.nextSeq - heard.consumed + CreditIn(ms, id)
          /\ \A x \in Ids \ {id} : CreditIn(ms, x) = 0
    <3>1. heard.nextSeq \in Nat /\ heard.consumed \in Nat
      BY <2>1, <2>2
    <3>2. CASE outgoing' = [outgoing EXCEPT ![id] = quit] /\ toHost' = SentToHost(said)
      <4>1. quit.nextSeq - quit.consumed = heard.nextSeq - heard.consumed + CreditIn(said, id)
        BY <2>3, <2>5, <3>1
      <4>2. QED
        BY <2>3, <2>5, <3>2, <4>1
    <3>3. CASE outgoing' = [outgoing EXCEPT ![id] = heard] /\ toHost' = toHost
      <4>1. heard.nextSeq - heard.consumed = heard.nextSeq - heard.consumed + CreditIn(<<>>, id)
        BY <1>4, <2>6, <3>1
      <4>2. QED
        BY <2>2, <2>6, <2>8, <3>3, <4>1
    <3>4. CASE outgoing' = [outgoing EXCEPT ![id] = Granting(heard)] /\ toHost' = SentToHost(GrantSent(id, heard))
      BY <2>7, <3>4
    <3>5. QED
      BY <2>4, <3>2, <3>3, <3>4
  <2>10. outgoing'[id] = f /\ \A x \in Ids \ {id} : outgoing'[x] = outgoing[x]
    BY <1>3, <1>4, <2>9
  <2>11. AllCounted(r) /\ incoming[r].live
    BY <2>1, <2>2, <2>9, <2>10 DEF e
  <2>12. GrantedBack(r)' = GrantedBack(r) + CreditIn(ms, r)
    <3>1. CASE r = id
      <4>1. GrantedBack(r) = e.nextSeq - e.consumed /\ GrantedBack(r)' = f.nextSeq - f.consumed
        BY <2>10, <3>1 DEF GrantedBack, e
      <4>2. heard.nextSeq - heard.consumed = e.nextSeq - e.consumed
        BY <2>1, <2>2
      <4>3. QED
        BY <2>9, <3>1, <4>1, <4>2
    <3>2. CASE r # id
      <4>1. GrantedBack(r)' = GrantedBack(r) /\ CreditIn(ms, r) = 0 /\ GrantedBack(r) \in Int
        BY <1>3, <2>9, <2>10, <3>2, CreditNumbers DEF GrantedBack
      <4>2. QED
        BY <4>1
    <3>3. QED
      BY <3>1, <3>2
  <2>13. QED
    BY <1>3, <2>1, <2>9, <2>11, <2>12, ClientKeepsCredit
<1>8. QED
  BY <1>1, <1>5, <1>6, <1>7 DEF ClientReceive

\* FlushedCounts for one flush.
LEMMA FlushedOnce ==
  ASSUME NEW e \in Incoming, NEW n \in Nat, NEW k \in Nat, NEW rest
  PROVE  LET f == Flushed(e, n, k, rest) IN
         /\ f.live = e.live /\ f.nextSeq = e.nextSeq + k /\ f.credit = e.credit + n - k
         /\ ~Stopped(f).live
<1>1. \A y : \A f : f = Flushed(e, n, k, y) =>
        /\ f.live = e.live /\ f.nextSeq = e.nextSeq + k
        /\ f.credit = e.credit + n - k
        /\ ~Stopped(f).live /\ Stopped(f).nextSeq = f.nextSeq
        /\ Stopped(f).credit = f.credit
  BY FlushedCounts, Zenon
<1>2. QED
  BY <1>1

\* A frame to the host: a grant that arrives is counted, a new request starts
\* with one window.
LEMMA HostReceiveKeepsCredit ==
  ASSUME IInv, HostReceive, NEW r \in Ids, incoming'[r].live, outgoing'[r].live,
         incoming[r].live /\ outgoing[r].live => AllCounted(r)
  PROVE  AllCounted(r)'
<1>1. PICK m : m = Head(toHost)
  OBVIOUS
<1>2. PICK id : id = m.id
  OBVIOUS
<1>3. /\ TypeInv /\ outgoing \in [Ids -> Outgoing] /\ incoming \in [Ids -> Incoming]
      /\ toHost \in Seq(HostMsg) /\ toHost # <<>> /\ lastPeerId \in Nat
  BY BoundsAssumption DEF IInv, TypeInv, TypeOK, HostReceive
<1>4. m \in HostMsg /\ id \in Ids /\ 1 \in DOMAIN toHost /\ toHost[1] = m
  BY <1>1, <1>2, <1>3 DEF HostMsg, RequestMsg, CancelMsg, CreditMsg
<1>5. CASE HostProtocolError
  BY <1>3, <1>5 DEF HostProtocolError, CloseHost, Stopped, Incoming
<1>6. ASSUME toHost' = Tail(toHost), outgoing' = outgoing,
             \/ m.kind = "request" /\ ReceiveRequest(m)
             \/ m.kind = "credit" /\ ReceiveCredit(m)
             \/ m.kind = "cancel" /\ ReceiveCancel(m)
      PROVE  AllCounted(r)'
  <2>1. /\ CreditIn(toHost, r) = CreditOf(r)[m] + CreditIn(toHost', r)
        /\ CreditIn(toHost', r) \in Nat /\ CreditIn(toHost, r) \in Nat
    BY <1>3, <1>4, <1>6, CreditTaken, CreditOfTyped
  <2>2. CreditOf(r)[m] = IF m.kind = "credit" /\ id = r THEN m.n ELSE 0
    BY <1>2, <1>4 DEF CreditOf
  <2>3. GrantedBack(r)' = GrantedBack(r) /\ outgoing[r].live
    BY <1>6 DEF GrantedBack
  <2>4. /\ Counted(r) \in Int /\ GrantedBack(r) \in Int /\ Window \in Nat
        /\ incoming[r].nextSeq \in Nat /\ incoming[r].credit \in Nat
    BY <1>3, CreditNumbers
  <2>5. ASSUME Counted(r)' = Counted(r) + CreditOf(r)[m], incoming[r].live
        PROVE  AllCounted(r)'
    <3>1. Counted(r) + CreditIn(toHost, r) = GrantedBack(r)
      BY <2>3, <2>5 DEF AllCounted
    <3>2. CreditOf(r)[m] \in Nat
      BY <1>4, CreditOfTyped
    <3>3. Counted(r)' + CreditIn(toHost', r) = GrantedBack(r)'
      BY <2>1, <2>3, <2>4, <2>5, <3>1, <3>2
    <3>4. QED
      BY <3>3 DEF AllCounted
  <2>6. ASSUME incoming'[r] = incoming[r], CreditOf(r)[m] = 0
        PROVE  AllCounted(r)'
    <3>1. Counted(r)' = Counted(r) + CreditOf(r)[m]
      BY <2>4, <2>6 DEF Counted
    <3>2. QED
      BY <2>5, <2>6, <3>1
  <2>7. CASE m.kind = "request" /\ ReceiveRequest(m)
    <3>1. CASE incoming' = [incoming EXCEPT ![id] = NewIncoming] /\ r = id
      <4>1. incoming'[r] = NewIncoming
        BY <1>3, <3>1
      <4>2. Counted(r)' = 0
        BY <2>4, <4>1 DEF Counted, NewIncoming
      <4>3. id > lastPeerId /\ id \in Nat
        BY <1>2, <1>4, <2>7, IdsAreNumbers DEF IInv, RequestsInv
      <4>4. GrantedBack(r) = 0
        <5>1. outgoing[id].nextSeq > 0 => id <= lastPeerId
          BY <1>4 DEF IInv, IdsInv
        <5>2. /\ outgoing[r].nextSeq \in Nat /\ outgoing[r].consumed \in Nat
              /\ outgoing[r].consumed <= outgoing[r].nextSeq
          BY <1>3, CreditNumbers DEF TypeInv, ConsumedHeard
        <5>3. outgoing[r].nextSeq = 0 /\ outgoing[r].consumed = 0
          BY <1>3, <3>1, <4>3, <5>1, <5>2
        <5>4. QED
          BY <5>3 DEF GrantedBack
      <4>5. CreditIn(toHost, r) = 0
        <5>1. ASSUME NEW i \in DOMAIN toHost PROVE ~(toHost[i].kind = "credit" /\ toHost[i].id = r)
          <6>1. toHost[i].kind = "credit" => toHost[i].id <= lastPeerId
            BY DEF IInv, IdsInv
          <6>2. QED
            BY <1>3, <3>1, <4>3, <6>1
        <5>2. QED
          BY <1>3, <5>1, NoCredit
      <4>6. CreditOf(r)[m] = 0
        BY <2>2, <2>7
      <4>7. Counted(r)' + CreditIn(toHost', r) = GrantedBack(r)'
        BY <2>1, <2>3, <4>2, <4>4, <4>5, <4>6
      <4>8. QED
        BY <4>7 DEF AllCounted
    <3>2. CASE ~(incoming' = [incoming EXCEPT ![id] = NewIncoming] /\ r = id)
      <4>1. incoming' = [incoming EXCEPT ![id] = NewIncoming] \/ incoming' = incoming
        BY <1>2, <2>7 DEF ReceiveRequest
      <4>2. incoming'[r] = incoming[r]
        BY <1>3, <3>2, <4>1
      <4>3. CreditOf(r)[m] = 0
        BY <2>2, <2>7
      <4>4. QED
        BY <2>6, <4>2, <4>3
    <3>3. QED
      BY <3>1, <3>2
  <2>8. CASE m.kind = "cancel" /\ ReceiveCancel(m)
    <3>1. incoming' = incoming \/ incoming' = [incoming EXCEPT ![id] = Stopped(@)]
      BY <1>2, <2>8 DEF ReceiveCancel
    <3>2. incoming'[r] = incoming[r]
      <4>1. ~Stopped(incoming[id]).live
        BY <1>3, <1>4 DEF Stopped, Incoming
      <4>2. QED
        BY <1>3, <1>4, <3>1, <4>1
    <3>3. CreditOf(r)[m] = 0
      BY <2>2, <2>8
    <3>4. QED
      BY <2>6, <3>2, <3>3
  <2>9. CASE m.kind = "credit" /\ ReceiveCredit(m)
    <3> DEFINE e == incoming[id]
               k == MinOf(e.credit + m.n, Len(e.queued))
               rest == SubSeq(e.queued, k + 1, Len(e.queued))
               left == [Charged([e EXCEPT !.credit = @ + m.n], k) EXCEPT !.queued = rest]
               last == rest = <<>> /\ e.response # "none"
    <3>1. \/ ~e.live /\ incoming' = incoming
          \/ incoming' = [incoming EXCEPT ![id] = IF last THEN Stopped(left) ELSE left]
      BY <1>2, <2>9 DEF ReceiveCredit
    <3>2. m.n \in Nat
      BY <1>4, <2>9 DEF HostMsg, RequestMsg, CancelMsg, CreditMsg
    <3>3. e \in Incoming /\ e.credit \in Nat /\ e.nextSeq \in Nat /\ k \in Nat
      <4>1. e \in Incoming /\ e.credit \in Nat /\ e.nextSeq \in Nat /\ Len(e.queued) \in Nat
        BY <1>3, <1>4 DEF Incoming
      <4>2. QED
        BY <3>2, <4>1 DEF MinOf
    <3>4. left = Flushed(e, m.n, k, rest)
      BY DEF Flushed
    <3> HIDE DEF e, k, rest, left, last
    <3>5. /\ left.live = e.live /\ left.nextSeq = e.nextSeq + k
          /\ left.credit = e.credit + m.n - k /\ ~Stopped(left).live
      BY <3>2, <3>3, <3>4, FlushedOnce
    <3>6. CASE r = id
      <4>1. CASE incoming' = [incoming EXCEPT ![id] = IF last THEN Stopped(left) ELSE left]
        <5>1. incoming'[r] = IF last THEN Stopped(left) ELSE left
          BY <1>3, <1>4, <3>6, <4>1
        <5>2. incoming'[r] = left
          BY <3>5, <5>1
        <5>3. incoming[r].live
          BY <3>5, <3>6, <5>2 DEF e
        <5>4. CreditOf(r)[m] = m.n
          BY <2>2, <2>9, <3>6
        <5>5. /\ Counted(r)' = left.nextSeq + left.credit - Window
              /\ Counted(r) = e.nextSeq + e.credit - Window
          BY <3>6, <5>2 DEF Counted, e
        <5>6. Counted(r)' = Counted(r) + m.n
          BY <2>4, <3>2, <3>3, <3>5, <5>5
        <5>7. QED
          BY <2>5, <5>3, <5>4, <5>6
      <4>2. CASE ~e.live /\ incoming' = incoming
        BY <3>6, <4>2 DEF e
      <4>3. QED
        BY <3>1, <4>1, <4>2
    <3>7. CASE r # id
      <4>1. incoming'[r] = incoming[r]
        BY <1>3, <3>1, <3>7
      <4>2. CreditOf(r)[m] = 0
        BY <2>2, <3>7
      <4>3. QED
        BY <2>6, <4>1, <4>2
    <3>8. QED
      BY <3>6, <3>7
  <2>10. QED
    BY <1>6, <2>7, <2>8, <2>9
<1>7. m.kind \in {"request", "credit", "cancel"}
  BY <1>4 DEF HostMsg, RequestMsg, CancelMsg, CreditMsg
<1>8. QED
  BY <1>1, <1>5, <1>6, <1>7 DEF HostReceive, clientVars

\* What the host's application does spends credit chunk by chunk.
LEMMA HostCallsKeepCredit ==
  ASSUME IInv, NEW r \in Ids, incoming'[r].live, outgoing'[r].live,
         incoming[r].live /\ outgoing[r].live => AllCounted(r),
         \/ \E id \in Ids, paces \in BOOLEAN : HostChunk(id, paces)
         \/ \E id \in Ids, answer \in {"result", "error"} : HostAnswer(id, answer)
  PROVE  AllCounted(r)'
<1>1. TypeInv /\ incoming \in [Ids -> Incoming]
  BY DEF IInv, TypeInv, TypeOK
<1>2. ASSUME UNCHANGED <<outgoing, toHost>>, incoming[r].live, Counted(r)' = Counted(r)
      PROVE  AllCounted(r)'
  BY <1>2 DEF AllCounted, GrantedBack
<1>3. ASSUME NEW id \in Ids, NEW paces \in BOOLEAN, HostChunk(id, paces)
      PROVE  AllCounted(r)'
  <2> DEFINE e == incoming[id]
             held == [e EXCEPT !.queued = Append(@, produced[id] + 1)]
             sent == Charged(e, 1)
  <2>1. /\ UNCHANGED <<outgoing, toHost>> /\ e.live
        /\ \/ incoming' = [incoming EXCEPT ![id] = sent]
           \/ incoming' = [incoming EXCEPT ![id] = held]
    BY <1>3 DEF HostChunk, clientVars
  <2>2. e \in Incoming /\ e.nextSeq \in Nat /\ e.credit \in Nat /\ Window \in Nat
    BY <1>1, CreditNumbers
  <2>3. /\ held.nextSeq = e.nextSeq /\ held.credit = e.credit
        /\ sent.nextSeq = e.nextSeq + 1 /\ sent.credit = e.credit - 1
    BY <2>2 DEF Charged, Incoming
  <2> HIDE DEF held, sent
  <2>4. CASE r = id
    <3>1. incoming'[r] = sent \/ incoming'[r] = held
      BY <1>1, <2>1, <2>4
    <3>2. incoming'[r].nextSeq + incoming'[r].credit - Window = e.nextSeq + e.credit - Window
      BY <2>2, <2>3, <3>1
    <3>3. Counted(r)' = Counted(r) /\ incoming[r].live
      BY <2>1, <2>4, <3>2 DEF Counted
    <3>4. QED
      BY <1>2, <2>1, <3>3
  <2>5. CASE r # id
    <3>1. incoming'[r] = incoming[r]
      BY <1>1, <2>1, <2>5
    <3>2. QED
      BY <1>2, <2>1, <3>1 DEF Counted
  <2>6. QED
    BY <2>4, <2>5
<1>4. ASSUME NEW id \in Ids, NEW answer \in {"result", "error"}, HostAnswer(id, answer)
      PROVE  AllCounted(r)'
  <2> DEFINE e == incoming[id]
             held == [e EXCEPT !.response = answer]
  <2>1. /\ UNCHANGED <<outgoing, toHost>>
        /\ \/ incoming' = incoming
           \/ incoming' = [incoming EXCEPT ![id] = Stopped(e)]
           \/ incoming' = [incoming EXCEPT ![id] = held]
    BY <1>4 DEF HostAnswer, clientVars
  <2>2. /\ ~Stopped(e).live /\ held.live = e.live
        /\ held.nextSeq = e.nextSeq /\ held.credit = e.credit
    BY <1>1 DEF Stopped, Incoming
  <2> HIDE DEF held
  <2>3. incoming'[r] = incoming[r] \/ (incoming'[r] = held /\ r = id)
    BY <1>1, <2>1, <2>2
  <2>4. incoming[r].live /\ Counted(r)' = Counted(r)
    BY <2>2, <2>3 DEF Counted
  <2>5. QED
    BY <1>2, <2>1, <2>4
<1>5. QED
  BY <1>3, <1>4

\* No step loses or invents credit.
CreditInduct == IInv /\ \A r \in Ids : incoming[r].live /\ outgoing[r].live => AllCounted(r)

LEMMA CreditStep == CreditInduct /\ [Next]_vars => CreditInduct'
<1> SUFFICES ASSUME CreditInduct, [Next]_vars
             PROVE  CreditInduct'
  OBVIOUS
<1>1. IInv /\ IInv'
  BY Step DEF CreditInduct
<1>2. ASSUME NEW r \in Ids, incoming'[r].live, outgoing'[r].live
      PROVE  AllCounted(r)'
  <2>1. incoming[r].live /\ outgoing[r].live => AllCounted(r)
    BY DEF CreditInduct
  <2>2. CASE Next
    BY <1>1, <1>2, <2>1, <2>2, ClientCallsKeepCredit, ClientReceiveKeepsCredit,
       HostReceiveKeepsCredit, HostCallsKeepCredit
    DEF Next
  <2>3. CASE UNCHANGED vars
    BY <1>2, <2>1, <2>3 DEF vars, clientVars, hostVars, AllCounted, Counted, GrantedBack
  <2>4. QED
    BY <2>2, <2>3
<1>3. QED
  BY <1>1, <1>2 DEF CreditInduct

\* Whatever the window and whatever crosses in flight, credit is neither lost nor
\* invented: what the host may still send, the chunks and the grants in flight
\* and what the client holds back make up one window (SendChunk, GrantConsumed,
\* $/credit).
THEOREM CreditAlwaysConserved == Spec => []CreditConserved
<1>1. Init => CreditInduct
  BY InitIInv DEF CreditInduct, Init, NoIncoming
<1>2. CreditInduct => CreditConserved
  <2> SUFFICES ASSUME CreditInduct, NEW id \in Ids, incoming[id].live, outgoing[id].live
               PROVE  incoming[id].credit + (incoming[id].nextSeq - outgoing[id].nextSeq)
                        + outgoing[id].consumed + CreditIn(toHost, id) = Window
    BY DEF CreditConserved
  <2>1. AllCounted(id) /\ TypeInv
    BY DEF CreditInduct, IInv
  <2>2. incoming[id].nextSeq + incoming[id].credit - Window + CreditIn(toHost, id)
          = outgoing[id].nextSeq - outgoing[id].consumed
    BY <2>1 DEF AllCounted, Counted, GrantedBack
  <2>3. /\ incoming[id].nextSeq \in Nat /\ incoming[id].credit \in Nat /\ Window \in Nat
        /\ outgoing[id].nextSeq \in Nat /\ outgoing[id].consumed \in Nat
        /\ CreditIn(toHost, id) \in Nat
    BY <2>1, CreditNumbers
  <2>4. QED
    BY <2>2, <2>3
<1>3. QED
  BY <1>1, <1>2, CreditStep, PTL DEF Spec
=============================================================================
