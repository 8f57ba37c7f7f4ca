----------------------------- MODULE BrokerRouter -----------------------------
(***************************************************************************)
(* The routing core of the language-server broker                          *)
(* (Source/Editor/Lsp/Broker.cpp): one entry per project and language, the *)
(* clients of each, the one real handshake an entry makes with its server, *)
(* and the identifiers of the requests it relays.                          *)
(*                                                                         *)
(* The router does no I/O.  Each of its methods is an action of the thread *)
(* that calls it, and leaves that thread the actions it must then apply,   *)
(* in order, with the lock released: todo[t].                              *)
(***************************************************************************)
EXTENDS FiniteSets, SequenceOps, SequencesExt

CONSTANTS Keys,        \* pairs of a project root and a language
          Conns,       \* client connections
          Threads,     \* the daemon's threads
          MaxServers   \* maxConcurrentServers_

ASSUME ServersAssumption == MaxServers \in Nat

VARIABLES
  languages,      \* languages_: Keys -> entries, where there is one
  recency,        \* the keys of languages_ by lastActive, oldest first
  connectionKey,  \* connectionKey_: Conns -> Keys, where attached
  todo            \* what each thread has still to apply

routerVars == <<languages, recency, connectionKey, todo>>

-----------------------------------------------------------------------------
(* Frames and actions *)

\* Frames to a server.  `of` tells apart what the identifier answers.
Initialize(id)  == [m |-> "initialize", id |-> id]
Initialized     == [m |-> "initialized"]
Relayed(id, of) == [m |-> "request", id |-> id, of |-> of]
Notice          == [m |-> "notice"]
ShutdownRequest(id) == [m |-> "shutdown", id |-> id]
Exit            == [m |-> "exit"]
Acknowledge     == [m |-> "ack"]

\* Frames to a client.
InitializeReply == [m |-> "initialized"]
Reply(id, of)   == [m |-> "reply", id |-> id, of |-> of]

SpawnServer(k)     == [do |-> "SpawnServer", key |-> k]
SendToServer(k, f) == [do |-> "SendToServer", key |-> k, frame |-> f]
SendToClient(c, f) == [do |-> "SendToClient", conn |-> c, frame |-> f]
CloseClient(c)     == [do |-> "CloseClient", conn |-> c]
CloseServer(k)     == [do |-> "CloseServer", key |-> k]
ShutdownProcess    == [do |-> "ShutdownProcess"]

\* A method called while a thread applies an action puts its own first.
Emit(t, actions) ==
  todo' = [todo EXCEPT ![t] = actions \o IF @ = <<>> THEN <<>> ELSE Tail(@)]

\* Maps.
With(f, k, x)    == [j \in DOMAIN f \cup {k} |-> IF j = k THEN x ELSE f[j]]
Without(f, gone) == Restrict(f, DOMAIN f \ gone)

-----------------------------------------------------------------------------
(* Entries *)

NewEntry(status) ==
  [status      |-> status,   \* "NotStarted", "SpawningProcess", ...
   running     |-> FALSE,    \* processRunning
   queue       |-> <<>>,     \* pendingInitializeRequests: connections
   attached    |-> {},
   relayed     |-> {},       \* pendingByBrokerId
   nextId      |-> 1,        \* nextBrokerId
   handshakeId |-> 0]        \* handshakeBrokerId

Known(k) == k \in DOMAIN languages

\* languages_[key]: an entry that is not there springs up as NotStarted.
Entry(k) == IF Known(k) THEN languages[k] ELSE NewEntry("NotStarted")
Put(k, e) == languages' = With(languages, k, e)

\* lastActive = now; and an entry that never was active is the oldest.
TouchedAgain(k, order) == Append(order, k)  \* (mutant)
Touched(k, order) == Append(Removing(order, {k}), k)
Touch(k)  == recency' = Touched(k, recency)
Appear(k) == recency' = IF Known(k) THEN recency ELSE <<k>> \o recency

Idle(k) == languages[k].attached = {} /\ languages[k].queue = <<>>

Clients(e) == e.attached \cup Range(e.queue)

\* The maps are unordered: their elements come in the order of any listing.
Listed(order, S) == Removing(order, Range(order) \ S)
CloseEach(conns) == [i \in DOMAIN conns |-> CloseClient(conns[i])]

TearDownActionsForAttached(k, order) ==  \* (mutant)
  <<CloseServer(k)>> \o CloseEach(Listed(order, languages[k].attached))

\* A Ready server is told to shut down; every process is closed, and every
\* client, attached or waiting.
TearDownActions(k, order) ==
  LET e == languages[k] IN
    (IF e.status = "Ready"
     THEN <<SendToServer(k, ShutdownRequest(e.nextId)), SendToServer(k, Exit)>> ELSE <<>>)
    \o (IF e.status # "NotStarted" THEN <<CloseServer(k)>> ELSE <<>>)
    \o CloseEach(Listed(order, e.attached)) \o CloseEach(e.queue)

TearDownAll(keys, order) ==
  FlattenSeq([i \in DOMAIN keys |-> TearDownActions(keys[i], order)])

\* The keys ks torn down, and the thread left to say so and then do `more`.
TearDownEntries(t, ks, more) ==
  /\ languages'     = Without(languages, ks)
  /\ recency'       = Removing(recency, ks)
  /\ connectionKey' = Without(connectionKey, UNION {Clients(languages[k]) : k \in ks})
  /\ \E keys \in SetToSeqs(ks), order \in SetToSeqs(UNION {languages[k].attached : k \in ks}) :
       Emit(t, TearDownAll(keys, order) \o more)

\* At capacity, the oldest entry without clients makes room; if all have
\* clients, the capacity is exceeded.
Evicted ==
  IF MaxServers > 0 /\ Cardinality(DOMAIN languages) >= MaxServers
  THEN {recency[i] : i \in {j \in DOMAIN recency :
                             Idle(recency[j]) /\ \A l \in 1..j - 1 : ~Idle(recency[l])}}
  ELSE {}

\* The one real handshake, as soon as there is a process and an initialize.
StartsHandshakeAgain(e) ==  \* (mutant)
  e.status \in {"SpawningProcess", "AwaitingRealHandshake"} /\ e.running /\ e.queue # <<>>
StartsHandshake(e) == e.status = "SpawningProcess" /\ e.running /\ e.queue # <<>>

AfterHandshakeStart(e) ==
  IF ~StartsHandshake(e) THEN e
  ELSE [e EXCEPT !.status = "AwaitingRealHandshake", !.handshakeId = e.nextId, !.nextId = @ + 1]

HandshakeStart(k, e) ==
  IF StartsHandshake(e) THEN <<SendToServer(k, Initialize(e.nextId))>> ELSE <<>>

\* Everyone waiting is answered, from the cache or with the failure.
FlushQueue(e) == [i \in DOMAIN e.queue |-> SendToClient(e.queue[i], InitializeReply)]

-----------------------------------------------------------------------------
(* The methods *)

ClientAttached(t, c, k) ==
  /\ connectionKey' = With(connectionKey, c, k)
  /\ IF Known(k)
     THEN /\ Touch(k) /\ Emit(t, <<>>)
          /\ UNCHANGED languages
     ELSE /\ languages' = With(Without(languages, Evicted), k, NewEntry("SpawningProcess"))
          /\ recency'   = Touched(k, Removing(recency, Evicted))
          /\ Emit(t, TearDownAll(SetToSeq(Evicted), <<>>) \o <<SpawnServer(k)>>)

ClientInitialize(t, c, k) ==
  LET e == Entry(k)
      q == [e EXCEPT !.queue = Append(@, c)] IN
  IF e.status \in {"Ready", "Failed"}
  THEN Put(k, e) /\ Emit(t, <<SendToClient(c, InitializeReply)>>)
  ELSE Put(k, AfterHandshakeStart(q)) /\ Emit(t, HandshakeStart(k, q))

\* Swallowed: the server had its own when the entry became Ready.
ClientInitialized(t, c, k) ==
  LET e == Entry(k) IN
  /\ Put(k, IF e.status = "Ready" THEN [e EXCEPT !.attached = @ \cup {c}] ELSE e)
  /\ Emit(t, <<>>)

ClientTraffic(t, c, k, f) ==
  LET e == Entry(k) IN
  IF c \notin e.attached \/ e.status # "Ready"
  THEN Put(k, e) /\ Emit(t, <<CloseClient(c)>>)
  ELSE IF f.m = "notice"
  THEN Put(k, e) /\ Emit(t, <<SendToServer(k, Notice)>>)
  ELSE /\ Put(k, [e EXCEPT !.relayed = @ \cup {[id |-> e.nextId, conn |-> c, orig |-> f.id]},
                           !.nextId  = e.nextId + 1])
       /\ Emit(t, <<SendToServer(k, Relayed(e.nextId, <<c, f.id>>))>>)

ClientFrame(t, c, f) ==
  IF c \notin DOMAIN connectionKey
  THEN Emit(t, <<>>) /\ UNCHANGED <<languages, recency, connectionKey>>
  ELSE LET k == connectionKey[c] IN
       /\ Touch(k)
       /\ CASE f.m = "initialize"  -> ClientInitialize(t, c, k)
            [] f.m = "initialized" -> ClientInitialized(t, c, k)
            [] OTHER               -> ClientTraffic(t, c, k, f)
       /\ UNCHANGED connectionKey

LeftUnanswered(e, c) ==  \* (mutant)
  [e EXCEPT !.attached = @ \ {c}, !.queue = Removing(@, {c})]

\* An entry without c; answers to c are dropped when they come.
Left(e, c) ==
  [e EXCEPT !.attached = @ \ {c},
            !.queue    = Removing(@, {c}),
            !.relayed  = {p \in @ : p.conn # c}]

ClientDisconnected(t, c) ==
  /\ IF c \notin DOMAIN connectionKey
     THEN UNCHANGED <<languages, recency, connectionKey>>
     ELSE LET k == connectionKey[c] IN
          /\ Appear(k)
          /\ Put(k, Left(Entry(k), c))
          /\ connectionKey' = Without(connectionKey, {c})
  /\ Emit(t, <<>>)

ServerSpawned(t, k) ==
  LET e == [Entry(k) EXCEPT !.running = TRUE] IN
  /\ Appear(k)
  /\ Put(k, AfterHandshakeStart(e))
  /\ Emit(t, HandshakeStart(k, e))
  /\ UNCHANGED connectionKey

ServerSpawnFailed(t, k) ==
  LET e == Entry(k) IN
  /\ Appear(k)
  /\ Put(k, [e EXCEPT !.status = "Failed", !.queue = <<>>])
  /\ Emit(t, FlushQueue(e))
  /\ UNCHANGED connectionKey

HandshakeAnswered(t, k, ok) ==
  LET e == languages[k] IN
  /\ Put(k, [e EXCEPT !.status = IF ok THEN "Ready" ELSE "Failed", !.queue = <<>>])
  /\ Emit(t, (IF ok THEN <<SendToServer(k, Initialized)>> ELSE <<>>) \o FlushQueue(e))

Broadcast(conns) == [i \in DOMAIN conns |-> SendToClient(conns[i], Notice)]

ServerReplyUnmapped(t, k, f) ==  \* (mutant)
  LET e     == languages[k]
      asked == {p \in e.relayed : p.id = f.id} IN
  /\ Put(k, [e EXCEPT !.relayed = @ \ asked])
  /\ Emit(t, [i \in 1..Cardinality(asked) |->
                LET p == SetToSeq(asked)[i] IN SendToClient(p.conn, Reply(p.id, f.of))])

ServerReply(t, k, f) ==
  LET e     == languages[k]
      asked == {p \in e.relayed : p.id = f.id} IN
  /\ Put(k, [e EXCEPT !.relayed = @ \ asked])
  /\ Emit(t, [i \in 1..Cardinality(asked) |->
                LET p == SetToSeq(asked)[i] IN SendToClient(p.conn, Reply(p.orig, f.of))])

\* The identifier alone is compared: a request of the server's own counts too.
AnswersHandshake(k, f) ==
  /\ languages[k].status = "AwaitingRealHandshake"
  /\ f.m \in {"reply", "ask"} /\ f.id = languages[k].handshakeId

ServerFrame(t, k, f) ==
  /\ IF ~Known(k)
     THEN Emit(t, <<>>) /\ UNCHANGED <<languages, recency>>
     ELSE /\ Touch(k)
          /\ IF AnswersHandshake(k, f) THEN HandshakeAnswered(t, k, f.m = "reply" /\ f.ok)
             ELSE CASE f.m = "reply"  -> ServerReply(t, k, f)
                    [] f.m = "ask"    -> /\ Emit(t, <<SendToServer(k, Acknowledge)>>)
                                         /\ UNCHANGED languages
                    [] f.m = "notice" -> /\ \E order \in SetToSeqs(languages[k].attached) :
                                              Emit(t, Broadcast(order))
                                         /\ UNCHANGED languages
  /\ UNCHANGED connectionKey

ServerDisconnected(t, k) == TearDownEntries(t, {k} \cap DOMAIN languages, <<>>)

\* The entries without clients among the n least recently active.
IdleSweep(t, n) ==
  TearDownEntries(t, {recency[i] : i \in {j \in 1..n : Idle(recency[j])}}, <<>>)

Shutdown(t) == TearDownEntries(t, DOMAIN languages, <<ShutdownProcess>>)
=============================================================================
