------------------------------ MODULE Endpoint ------------------------------
(***************************************************************************)
(* The message layer of ned's client/host protocol                         *)
(* (Source/Editor/Protocol/Endpoint.cpp): one endpoint that issues         *)
(* requests (the client) and one that answers them (the host), joined by a *)
(* FIFO channel each way.  Every request is a stream: the host sends       *)
(* $/chunk messages against credit, the client returns credit in $/credit  *)
(* batches of half the window, $/cancel abandons a request, and exactly    *)
(* one response ends it.                                                   *)
(*                                                                         *)
(* Both endpoints of a connection run this same code; requests of one      *)
(* direction never touch the tables of the other, so one direction is      *)
(* modelled.  Each action is a call on one endpoint together with all it   *)
(* does before returning, as both endpoints are single-threaded.  The      *)
(* channels, their loss, and the code that uses the endpoints (request     *)
(* handlers, consumers) are the environment.                               *)
(***************************************************************************)
EXTENDS SequenceOps

CONSTANTS MaxRequests,  \* bound: requests the client issues
          MaxChunks,    \* bound: chunks one handler produces
          Window        \* chunks the client accepts ahead per stream; the
                        \* host learned it from hello (SetPeerWindow)

Ids == 1..MaxRequests

ASSUME BoundsAssumption == MaxRequests \in Nat /\ MaxChunks \in Nat
ASSUME WindowAssumption == Window \in Nat \ {0}

VARIABLES
  nextId,       \* client: the next request's id
  outgoing,     \* client: its requests, by id
  cState,       \* client: "open", "closed" or "destroyed"
  lastPeerId,   \* host: the last request id seen
  incoming,     \* host: the requests being answered, by id
  hState,       \* host: "open" or "closed"
  toHost,       \* frames on their way to the host
  toClient,     \* frames on their way to the client
  responder,    \* host application: the Responder of each request; a hung
                \* handler keeps it and never answers
  waiting,      \* host application: producers waiting for OnDrained
  produced,     \* host application: chunks each handler has emitted
  taken,        \* client application: chunks released through Grant
  delivered,    \* history: what onChunk was given, per request
  settled,      \* history: terminal callbacks run, per request
  fault         \* history: a side threw ProtocolError

clientVars == <<nextId, outgoing, cState, taken, delivered, settled>>
hostVars   == <<lastPeerId, incoming, hState, responder, waiting, produced>>
vars       == <<clientVars, hostVars, toHost, toClient, fault>>

-----------------------------------------------------------------------------
(* Tables and messages *)

\* handled is whether the entry still holds its handlers: ExpireIdle takes them.
Outgoing == [live : BOOLEAN, cancelled : BOOLEAN, handled : BOOLEAN,
             byHand : BOOLEAN, idleLimit : BOOLEAN,
             nextSeq : Nat, consumed : Nat, granted : Nat]

\* queued holds chunks waiting for credit; response one held behind them.
Incoming == [live : BOOLEAN, credit : Nat, nextSeq : Nat, queued : Seq(Nat),
             response : {"none", "result", "error"}]

Answers  == {"result", "error", "cancelled"}
Outcomes == Answers \cup {"timedout", "closed"}

RequestMsg  == [kind : {"request"}, id : Ids, known : BOOLEAN]
CancelMsg   == [kind : {"cancel"}, id : Ids]
\* upto is the total ever granted once this batch is counted (history only).
CreditMsg   == [kind : {"credit"}, id : Ids, n : Nat, upto : Nat]
ChunkMsg    == [kind : {"chunk"}, id : Ids, seq : Nat, data : Nat]
ResponseMsg == [kind : {"response"}, id : Ids, answer : Answers]

HostMsg   == RequestMsg \cup CancelMsg \cup CreditMsg
ClientMsg == ChunkMsg \cup ResponseMsg

Request(id, known)   == [kind |-> "request", id |-> id, known |-> known]
Cancelled(id)        == [kind |-> "cancel", id |-> id]
Credit(id, n, upto)  == [kind |-> "credit", id |-> id, n |-> n, upto |-> upto]
Chunk(id, seq, data) == [kind |-> "chunk", id |-> id, seq |-> seq, data |-> data]
Response(id, answer) == [kind |-> "response", id |-> id, answer |-> answer]

NoOutgoing == [live |-> FALSE, cancelled |-> FALSE, handled |-> FALSE,
               byHand |-> FALSE, idleLimit |-> FALSE,
               nextSeq |-> 0, consumed |-> 0, granted |-> 0]

NewOutgoing(byHand, idleLimit) ==
  [live |-> TRUE, cancelled |-> FALSE, handled |-> TRUE,
   byHand |-> byHand, idleLimit |-> idleLimit,
   nextSeq |-> 0, consumed |-> 0, granted |-> 0]

NoIncoming == [live |-> FALSE, credit |-> 0, nextSeq |-> 0, queued |-> <<>>,
               response |-> "none"]

NewIncoming == [live |-> TRUE, credit |-> Window, nextSeq |-> 0, queued |-> <<>>,
                response |-> "none"]

\* Erasing an entry keeps its counters, which nothing reads any more.
Erased(e) == [e EXCEPT !.live = FALSE]
Stopped(e) == [e EXCEPT !.live = FALSE, !.queued = <<>>, !.response = "none"]

MinOf(a, b) == IF a <= b THEN a ELSE b
MaxOf(a, b) == IF a >= b THEN a ELSE b

Init ==
  /\ nextId     = 1
  /\ outgoing   = [id \in Ids |-> NoOutgoing]
  /\ cState     = "open"
  /\ lastPeerId = 0
  /\ incoming   = [id \in Ids |-> NoIncoming]
  /\ hState     = "open"
  /\ toHost     = <<>>
  /\ toClient   = <<>>
  /\ responder  = [id \in Ids |-> "none"]
  /\ waiting    = [id \in Ids |-> FALSE]
  /\ produced   = [id \in Ids |-> 0]
  /\ taken      = [id \in Ids |-> 0]
  /\ delivered  = [id \in Ids |-> <<>>]
  /\ settled    = [id \in Ids |-> <<>>]
  /\ fault      = FALSE

\* Send: nothing leaves a closed endpoint, and nothing reaches one.
SentToHost(ms)   == IF cState = "open" /\ hState = "open" THEN toHost \o ms ELSE toHost
SentToClient(ms) == IF cState = "open" /\ hState = "open" THEN toClient \o ms ELSE toClient

-----------------------------------------------------------------------------
(* The ends of a connection *)

\* Frames in the channel when an end goes away: the other end still reads some.
SomeArrive(chan, chan2) == \E k \in 0..Len(chan) : chan2 = SubSeq(chan, 1, k)

\* Every request that still has its handlers fails with ConnectionClosed.
CloseClient(out) ==
  /\ cState'   = "closed"
  /\ outgoing' = [id \in Ids |-> Erased(out[id])]
  /\ settled'  = [id \in Ids |-> IF out[id].live /\ out[id].handled
                                 THEN Append(settled[id], "closed")
                                 ELSE settled[id]]
  /\ SomeArrive(toHost, toHost')
  /\ toClient' = <<>>

CloseHost ==
  /\ hState'   = "closed"
  /\ incoming' = [id \in Ids |-> Stopped(incoming[id])]
  /\ SomeArrive(toClient, toClient')
  /\ toHost'   = <<>>

ClientClose ==
  /\ cState = "open"
  /\ CloseClient(outgoing)
  /\ UNCHANGED <<nextId, taken, delivered, hostVars, fault>>

\* ~Endpoint: the owner goes away and asks for no callback.
ClientDestroy ==
  /\ cState # "destroyed"
  /\ cState'   = "destroyed"
  /\ outgoing' = [id \in Ids |-> Erased(outgoing[id])]
  /\ SomeArrive(toHost, toHost')
  /\ toClient' = <<>>
  /\ UNCHANGED <<nextId, taken, delivered, settled, hostVars, fault>>

\* The host's own shutdown, or its crash.
HostClose ==
  /\ hState = "open"
  /\ CloseHost
  /\ UNCHANGED <<lastPeerId, responder, waiting, produced, clientVars, fault>>

\* The reader reaches the end of the peer's stream after its last frame.
ClientSeesEnd == hState # "open" /\ toClient = <<>> /\ ClientClose
HostSeesEnd   == cState # "open" /\ toHost = <<>> /\ HostClose

-----------------------------------------------------------------------------
(* The client's calls *)

\* The connection's constructor: hello was sent before the endpoint existed.
ReserveRequestIds(id) ==
  /\ cState = "open" /\ nextId = 1
  /\ nextId' = MaxOf(nextId, id + 1)
  /\ UNCHANGED <<outgoing, cState, taken, delivered, settled, hostVars,
                 toHost, toClient, fault>>

\* Endpoint::Request: a closed endpoint fails it at once and remembers nothing.
Issue(known, byHand, idleLimit) ==
  LET id == nextId IN
  /\ cState # "destroyed"
  /\ id \in Ids
  /\ nextId' = id + 1
  /\ IF cState = "closed"
     THEN /\ settled' = [settled EXCEPT ![id] = Append(@, "closed")]
          /\ UNCHANGED <<outgoing, toHost>>
     ELSE /\ outgoing' = [outgoing EXCEPT ![id] =
                            NewOutgoing(byHand, idleLimit)]
          /\ toHost' = SentToHost(<<Request(id, known)>>)
          /\ UNCHANGED settled
  /\ UNCHANGED <<cState, taken, delivered, hostVars, toClient, fault>>

\* GrantConsumed: credit goes back in batches of half the window.
BatchBeyondWindow == Window + 1  \* (mutant)
Batch == MaxOf(Window \div 2, 1)

Ready(e) == IF e.byHand THEN MinOf(e.granted, e.consumed) ELSE e.consumed

\* The entry once n of its consumed chunks are granted back.
GrantedForgettingRest(e, n) ==   \* (mutant)
  [e EXCEPT !.consumed = 0, !.granted = IF e.byHand THEN @ - n ELSE @]
Granted(e, n) ==
  [e EXCEPT !.consumed = @ - n, !.granted = IF e.byHand THEN @ - n ELSE @]

Granting(e) == IF Ready(e) >= Batch THEN Granted(e, Ready(e)) ELSE e

GrantSent(id, e) ==
  IF Ready(e) >= Batch
  THEN <<Credit(id, Ready(e), e.nextSeq - e.consumed + Ready(e))>>
  ELSE <<>>

\* The consumer of a grantsByHand request has taken n more of its chunks.
Grant(id, n) ==
  /\ cState = "open"
  /\ outgoing[id].live /\ ~outgoing[id].cancelled /\ outgoing[id].byHand
  /\ taken[id] + n <= Len(delivered[id])
  /\ taken'    = [taken EXCEPT ![id] = @ + n]
  /\ LET e == [outgoing[id] EXCEPT !.granted = @ + n] IN
       /\ outgoing' = [outgoing EXCEPT ![id] = Granting(e)]
       /\ toHost'   = SentToHost(GrantSent(id, e))
  /\ UNCHANGED <<nextId, cState, delivered, settled, hostVars, toClient, fault>>

Cancel(id) ==
  /\ cState = "open"
  /\ outgoing[id].live /\ ~outgoing[id].cancelled
  /\ outgoing' = [outgoing EXCEPT ![id].cancelled = TRUE]
  /\ toHost'   = SentToHost(<<Cancelled(id)>>)
  /\ UNCHANGED <<nextId, cState, taken, delivered, settled, hostVars, toClient, fault>>

MayExpire(id) == outgoing[id].live /\ outgoing[id].idleLimit /\ ~outgoing[id].cancelled

\* The orders in which an unordered table may yield a set of requests.
OrdersOf(ids) ==
  {o \in UNION {[1..n -> ids] : n \in Ids} :
     /\ \A i, j \in DOMAIN o : o[i] = o[j] => i = j
     /\ \A id \in ids : \E i \in DOMAIN o : o[i] = id}

ExpiredKeepingHandlers(e) == [e EXCEPT !.cancelled = TRUE]  \* (mutant)
Expired(e) == [e EXCEPT !.cancelled = TRUE, !.handled = FALSE]

\* ExpireIdle: every request quiet for longer than its limit fails and is
\* cancelled on the peer.  Its handlers leave the table first, so the late
\* answer finds none.
ExpireIdle(ids) ==
  /\ cState = "open"
  /\ ids # {} /\ \A id \in ids : MayExpire(id)
  /\ outgoing' = [id \in Ids |-> IF id \in ids THEN Expired(outgoing[id])
                                 ELSE outgoing[id]]
  /\ settled'  = [id \in Ids |-> IF id \in ids THEN Append(settled[id], "timedout")
                                 ELSE settled[id]]
  /\ \E o \in OrdersOf(ids) :
       toHost' = SentToHost([i \in DOMAIN o |-> Cancelled(o[i])])
  /\ UNCHANGED <<nextId, cState, taken, delivered, hostVars, toClient, fault>>

-----------------------------------------------------------------------------
(* The client's side of a frame *)

\* What ReceiveChunk and ReceiveResponse demand of a frame.
ClientExpects(m) ==
  /\ outgoing[m.id].live
  /\ m.kind = "chunk" => m.seq = outgoing[m.id].nextSeq

\* ProtocolError: the connection's owner closes the endpoint.
ClientProtocolError ==
  /\ fault' = TRUE
  /\ CloseClient(outgoing)
  /\ UNCHANGED <<nextId, taken, delivered, hostVars>>

\* The chunk callback sees the data unless the request was given up, and may
\* cancel; any other call it makes could as well follow this step.
ReceiveChunk(m, cancels) ==
  LET id    == m.id
      e     == outgoing[id]
      heard == [e EXCEPT !.nextSeq = @ + 1, !.consumed = @ + 1]
      seen  == ~e.cancelled /\ e.handled
  IN
  /\ cancels => seen
  /\ delivered' = IF seen THEN [delivered EXCEPT ![id] = Append(@, m.data)]
                  ELSE delivered
  /\ IF cancels
     THEN /\ outgoing' = [outgoing EXCEPT ![id] = [heard EXCEPT !.cancelled = TRUE]]
          /\ toHost'   = SentToHost(<<Cancelled(id)>>)
     ELSE IF e.cancelled \/ e.byHand
     THEN /\ outgoing' = [outgoing EXCEPT ![id] = heard]
          /\ UNCHANGED toHost
     ELSE /\ outgoing' = [outgoing EXCEPT ![id] = Granting(heard)]
          /\ toHost'   = SentToHost(GrantSent(id, heard))
  /\ UNCHANGED settled

ReceiveResponse(m) ==
  LET id == m.id IN
  /\ outgoing' = [outgoing EXCEPT ![id] = Erased(@)]
  /\ settled'  = IF outgoing[id].handled
                 THEN [settled EXCEPT ![id] = Append(@, m.answer)]
                 ELSE settled
  /\ UNCHANGED <<delivered, toHost>>

ClientReceive ==
  /\ cState = "open"
  /\ toClient # <<>>
  /\ LET m == Head(toClient) IN
     IF ~ClientExpects(m) THEN ClientProtocolError
     ELSE /\ IF m.kind = "chunk"
             THEN \E cancels \in BOOLEAN : ReceiveChunk(m, cancels)
             ELSE ReceiveResponse(m)
          /\ toClient' = Tail(toClient)
          /\ UNCHANGED <<nextId, cState, taken, hostVars, fault>>

-----------------------------------------------------------------------------
(* The host's side of a frame *)

\* ReceiveRequest.  A handler that throws is answered for; its Responder may
\* have been stored by then, and its later calls find no entry.
ReceiveRequest(m) ==
  /\ lastPeerId' = m.id
  /\ IF ~m.known
     THEN /\ toClient' = SentToClient(<<Response(m.id, "error")>>)
          /\ UNCHANGED <<incoming, responder>>
     ELSE /\ \E r \in {"held", "hung"} : responder' = [responder EXCEPT ![m.id] = r]
          /\ \/ /\ incoming' = [incoming EXCEPT ![m.id] = NewIncoming]
                /\ UNCHANGED toClient
             \/ /\ toClient' = SentToClient(<<Response(m.id, "error")>>)
                /\ UNCHANGED incoming
  /\ UNCHANGED waiting

\* SendChunk: each of k chunks uses up one credit and one sequence number.
ChargedNothing(e, k) == [e EXCEPT !.nextSeq = @ + k]  \* (mutant)
Charged(e, k) == [e EXCEPT !.credit = @ - k, !.nextSeq = @ + k]

QueuedChunks(id, k) ==
  [i \in 1..k |-> Chunk(id, incoming[id].nextSeq + i - 1, incoming[id].queued[i])]

\* Flush calls onDrained when it clears a backlog and no response was behind it.
DrainedReadAfterFlush(e, left) ==  \* (mutant)
  left.queued # <<>> /\ left.queued = <<>> /\ e.response = "none"
Drained(e, left) ==
  e.queued # <<>> /\ left.queued = <<>> /\ e.response = "none"

\* $/credit and Flush: what credit allows, then the held response once nothing
\* is ahead of it, or else the producer hears that its backlog cleared.
ReceiveCredit(m) ==
  LET id   == m.id
      e    == incoming[id]
      k    == MinOf(e.credit + m.n, Len(e.queued))
      rest == SubSeq(e.queued, k + 1, Len(e.queued))
      left == [Charged([e EXCEPT !.credit = @ + m.n], k) EXCEPT !.queued = rest]
      last == rest = <<>> /\ e.response # "none"
  IN
  IF ~e.live THEN UNCHANGED <<incoming, toClient, waiting>>
  ELSE /\ incoming' = [incoming EXCEPT ![id] = IF last THEN Stopped(left) ELSE left]
       /\ toClient' = SentToClient(QueuedChunks(id, k) \o
                        (IF last THEN <<Response(id, e.response)>> ELSE <<>>))
       /\ waiting'  = [waiting EXCEPT ![id] = @ /\ ~Drained(e, left)]

ReceiveCancelAnswersAlways(m) ==  \* (mutant)
  /\ incoming' = [incoming EXCEPT ![m.id] = Stopped(@)]
  /\ toClient' = SentToClient(<<Response(m.id, "cancelled")>>)
  /\ UNCHANGED waiting

\* $/cancel stops the handler and answers for it.
ReceiveCancel(m) ==
  /\ IF incoming[m.id].live
     THEN /\ incoming' = [incoming EXCEPT ![m.id] = Stopped(@)]
          /\ toClient' = SentToClient(<<Response(m.id, "cancelled")>>)
     ELSE UNCHANGED <<incoming, toClient>>
  /\ UNCHANGED waiting

HostExpects(m) == m.kind = "request" => m.id > lastPeerId

HostProtocolError ==
  /\ fault' = TRUE
  /\ CloseHost
  /\ UNCHANGED <<lastPeerId, responder, waiting, produced, clientVars>>

HostReceive ==
  /\ hState = "open"
  /\ toHost # <<>>
  /\ LET m == Head(toHost) IN
     IF ~HostExpects(m) THEN HostProtocolError
     ELSE /\ CASE m.kind = "request" -> ReceiveRequest(m)
               [] m.kind = "credit"  -> ReceiveCredit(m) /\ UNCHANGED <<lastPeerId, responder>>
               [] m.kind = "cancel"  -> ReceiveCancel(m) /\ UNCHANGED <<lastPeerId, responder>>
          /\ toHost' = Tail(toHost)
          /\ UNCHANGED <<hState, produced, clientVars, fault>>

-----------------------------------------------------------------------------
(* The host application: what a request handler does with its Responder.  *)
(* A call on a Responder whose entry is gone does nothing.                 *)

MayGoOutUncredited(e) == e.queued = <<>>  \* (mutant)
MayGoOut(e) == e.credit > 0 /\ e.queued = <<>>

\* Responder::Chunk: sent if credit allows and nothing is queued ahead of it.
\* A producer that paces itself waits for OnDrained while it has a backlog.
HostChunk(id, paces) ==
  LET e    == incoming[id]
      data == produced[id] + 1
  IN
  /\ responder[id] \in {"held", "hung"} /\ e.live /\ ~waiting[id]
  /\ data <= MaxChunks
  /\ produced' = [produced EXCEPT ![id] = data]
  /\ IF MayGoOut(e)
     THEN /\ incoming' = [incoming EXCEPT ![id] = Charged(e, 1)]
          /\ toClient' = SentToClient(<<Chunk(id, e.nextSeq, data)>>)
          /\ UNCHANGED waiting
     ELSE /\ incoming' = [incoming EXCEPT ![id].queued = Append(@, data)]
          /\ waiting'  = [waiting EXCEPT ![id] = paces]
          /\ UNCHANGED toClient
  /\ UNCHANGED <<lastPeerId, hState, responder, clientVars, toHost, fault>>

MayAnswerAtOnce(e) == TRUE  \* (mutant)
MayAnswer(e) == e.queued = <<>>

\* Responder::Result, Error and ~Responder: at most one of them answers, and
\* queued chunks go first.
HostAnswer(id, answer) ==
  LET e == incoming[id] IN
  /\ responder[id] = "held" /\ (e.live => ~waiting[id])
  /\ responder' = [responder EXCEPT ![id] = "answered"]
  /\ IF ~e.live THEN UNCHANGED <<incoming, toClient>>
     ELSE IF MayAnswer(e)
     THEN /\ incoming' = [incoming EXCEPT ![id] = Stopped(@)]
          /\ toClient' = SentToClient(<<Response(id, answer)>>)
     ELSE /\ incoming' = [incoming EXCEPT ![id].response = answer]
          /\ UNCHANGED toClient
  /\ UNCHANGED <<lastPeerId, hState, waiting, produced, clientVars, toHost, fault>>

-----------------------------------------------------------------------------
Next ==
  \/ \E id \in Ids : ReserveRequestIds(id)
  \/ \E known, byHand, idleLimit \in BOOLEAN : Issue(known, byHand, idleLimit)
  \/ \E id \in Ids, n \in 1..MaxChunks : Grant(id, n)
  \/ \E id \in Ids : Cancel(id)
  \/ \E ids \in SUBSET Ids : ExpireIdle(ids)
  \/ ClientClose
  \/ ClientDestroy
  \/ HostClose
  \/ ClientReceive
  \/ HostReceive
  \/ \E id \in Ids, paces \in BOOLEAN : HostChunk(id, paces)
  \/ \E id \in Ids, answer \in {"result", "error"} : HostAnswer(id, answer)

Spec == Init /\ [][Next]_vars

\* Each side's main loop runs every frame that arrives and notices the end of
\* the stream; ExpireIdle runs periodically; a consumer drains what it was
\* given; and every handler that is not hung answers in the end.
Fairness ==
  /\ WF_vars(ClientReceive) /\ WF_vars(HostReceive)
  /\ WF_vars(ClientSeesEnd) /\ WF_vars(HostSeesEnd)
  /\ \A id \in Ids : WF_vars(Grant(id, 1))
  /\ WF_vars(\E ids \in SUBSET Ids : ExpireIdle(ids))
  /\ \A id \in Ids : WF_vars(\E answer \in {"result", "error"} : HostAnswer(id, answer))

FairSpec == Spec /\ Fairness

-----------------------------------------------------------------------------
(* Properties *)

\* Every table, message and history has its type.
TypeOK ==
  /\ nextId \in 1..(MaxRequests + 1)
  /\ outgoing \in [Ids -> Outgoing]
  /\ cState \in {"open", "closed", "destroyed"}
  /\ lastPeerId \in 0..MaxRequests
  /\ incoming \in [Ids -> Incoming]
  /\ hState \in {"open", "closed"}
  /\ toHost \in Seq(HostMsg)
  /\ toClient \in Seq(ClientMsg)
  /\ responder \in [Ids -> {"none", "held", "hung", "answered"}]
  /\ waiting \in [Ids -> BOOLEAN]
  /\ produced \in [Ids -> Nat]
  /\ taken \in [Ids -> Nat]
  /\ delivered \in [Ids -> Seq(Nat)]
  /\ settled \in [Ids -> Seq(Outcomes)]
  /\ fault \in BOOLEAN

\* Two correct endpoints never break the protocol for each other, whatever
\* cancels, grants, expiries and answers cross in flight: no side ever throws
\* the ProtocolError that would end the connection (ReceiveRequest,
\* ReceiveChunk, ReceiveResponse).
NoProtocolError == ~fault

\* The credit for a request that is on a channel.
CreditIn(chan, id) ==
  Total([i \in DOMAIN chan |->
          IF chan[i].kind = "credit" /\ chan[i].id = id THEN chan[i].n ELSE 0])

\* Credit is neither lost nor invented: what the host may still send, what is
\* in flight, what the client has consumed without granting, and the grants in
\* flight always make up one window, so a stream can neither flood its
\* receiver nor stall for good (SendChunk, GrantConsumed, $/credit).
CreditConserved ==
  \A id \in Ids : incoming[id].live /\ outgoing[id].live =>
    incoming[id].credit + (incoming[id].nextSeq - outgoing[id].nextSeq)
      + outgoing[id].consumed + CreditIn(toHost, id) = Window

\* Flow control holds end to end: a handler never has more chunks out, in
\* flight or not yet released by the client, than the window it was granted
\* (SendChunk, GrantConsumed); and where the client grants by hand, it is the
\* consumer's own pace the window is counted from (Endpoint::Grant).
WindowRespected ==
  \A id \in Ids : incoming[id].live /\ outgoing[id].live =>
    /\ incoming[id].nextSeq - outgoing[id].nextSeq + outgoing[id].consumed <= Window
    /\ outgoing[id].byHand => incoming[id].nextSeq <= taken[id] + Window

\* Nothing on the host waits for an event that cannot come: chunks are queued
\* only for want of credit, a response is held only behind queued chunks, and
\* a producer waits for OnDrained only while there is a backlog to drain
\* (Chunk, Answer, Flush).
BacklogIsDriven ==
  \A id \in Ids : incoming[id].live =>
    /\ incoming[id].queued # <<>> => incoming[id].credit = 0
    /\ incoming[id].response # "none" => incoming[id].queued # <<>>
    /\ waiting[id] => incoming[id].queued # <<>>

\* Seen by the code that issues requests, the two endpoints and the channels
\* between them are the streams RequestStream describes: chunks in order and
\* complete, one terminal callback, silence after giving up (ResponseHandlers,
\* Endpoint::Cancel, Endpoint::ExpireIdle, Endpoint::Close).
Stream == INSTANCE RequestStream WITH
            Requests  <- Ids,
            abandoned <- [id \in Ids |-> outgoing[id].cancelled]

ImplementsRequestStream == Stream!Spec

\* Every request ends in a terminal callback: an answer, a timeout or the end
\* of the connection.  Only a destroyed endpoint, or a handler that never
\* answers a request without an idle limit, leaves one pending
\* (Endpoint::ExpireIdle, Endpoint::Close, ~Responder).
RequestsSettle ==
  \A id \in Ids :
    outgoing[id].live
      ~> \/ settled[id] # <<>>
         \/ cState = "destroyed"
         \/ responder[id] = "hung" /\ ~outgoing[id].idleLimit
=============================================================================
