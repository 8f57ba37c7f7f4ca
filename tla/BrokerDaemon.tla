----------------------------- MODULE BrokerDaemon -----------------------------
(***************************************************************************)
(* The broker daemon around its router (Source/Editor/Lsp/BrokerDaemon.cpp): *)
(* a thread for each client, a thread for each server process, and the     *)
(* idle sweeper.  One mutex guards the router and the maps of transports;  *)
(* what a router call asks for is applied after the mutex is released, one *)
(* action at a time, so the actions of two threads interleave.             *)
(*                                                                         *)
(* The editors and the language servers are the environment.  A frame is   *)
(* chosen when the thread that reads it takes the lock; it may have been   *)
(* read from a connection closed since.                                    *)
(***************************************************************************)
EXTENDS BrokerRouter

CONSTANTS Servers,      \* processes that can be spawned
          Sweeper,      \* the idle-sweep thread
          None,
          MaxRequests   \* bound: requests a client makes

ASSUME ThreadsAssumption ==
  /\ Threads = Conns \cup Servers \cup {Sweeper}
  /\ Conns \cap Servers = {} /\ Sweeper \notin Conns \cup Servers /\ None \notin Threads

VARIABLES
  clientTransports,  \* clientTransports_: the open client connections
  serverTransports,  \* serverTransports_: Keys -> Servers
  handler,           \* the thread of each client connection
  reader,            \* the thread of each server process
  sweeping,          \* the idle-sweep thread is in its loop
  holder,            \* the thread that holds the mutex across a join
  client,            \* external: the editors
  asked,             \* external: how many requests each has made
  answered,          \* external: the answers each has got
  server,            \* external: the processes
  mixed              \* history: frames for a process may have reached its successor

daemonVars == <<clientTransports, serverTransports, handler, reader, sweeping, holder>>
clientVars == <<client, asked, answered>>
stepVars == <<routerVars, daemonVars, clientVars, server>>
vars == <<stepVars, mixed>>

NoServer == [key |-> None, alive |-> FALSE, closed |-> FALSE, inits |-> 0, open |-> {}]

Init ==
  /\ languages = <<>> /\ recency = <<>> /\ connectionKey = <<>>
  /\ todo = [t \in Threads |-> <<>>]
  /\ clientTransports = {} /\ serverTransports = <<>>
  /\ handler = [c \in Conns |-> "new"]
  /\ reader = [s \in Servers |-> "none"]
  /\ sweeping = TRUE /\ holder = None
  /\ client = [c \in Conns |-> "new"] /\ asked = [c \in Conns |-> 0]
  /\ answered = [c \in Conns |-> <<>>]
  /\ server = [s \in Servers |-> NoServer] /\ mixed = FALSE

Free    == holder = None
Done(t) == todo[t] = <<>>
Next1(t, what) == ~Done(t) /\ Head(todo[t]).do = what

-----------------------------------------------------------------------------
(* Applying what a router call asked for *)

Applied(t) ==
  /\ Emit(t, <<>>)
  /\ UNCHANGED <<languages, recency, connectionKey>>

\* A process is spawned before the lock is taken; then its transport is
\* registered, with the lock held until the reader thread is in its place.
RegisterServer(t) ==
  /\ Free /\ Next1(t, "SpawnServer")
  /\ LET k == Head(todo[t]).key IN
     \E s \in Servers :
       /\ reader[s] = "none"
       /\ server'           = [server EXCEPT ![s] = [NoServer EXCEPT !.key = k, !.alive = TRUE]]
       /\ serverTransports' = With(serverTransports, k, s)
       /\ reader'           = [reader EXCEPT ![s] = "created"]
  /\ holder' = t
  /\ UNCHANGED <<routerVars, clientTransports, handler, sweeping, clientVars>>

Earlier(k) == {s \in Servers : server[s].key = k /\ reader[s] \notin {"none", "created", "done"}}

\* insert_or_assign joins the thread it replaces.
StartReader(t) ==
  /\ holder = t
  /\ LET k == Head(todo[t]).key IN
     /\ Earlier(k) = {}
     /\ reader' = [reader EXCEPT ![serverTransports[k]] = "top"]
     /\ ServerSpawned(t, k)
  /\ holder' = None
  /\ UNCHANGED <<clientTransports, serverTransports, handler, sweeping, clientVars, server>>

FailToSpawn(t) ==
  /\ Free /\ Next1(t, "SpawnServer")
  /\ ServerSpawnFailed(t, Head(todo[t]).key)
  /\ UNCHANGED <<daemonVars, clientVars, server>>

\* What a server makes of a frame: it answers what has an identifier.
Answerable(f) ==
  CASE f.m = "request"                    -> {[id |-> f.id, of |-> f.of]}
    [] f.m \in {"initialize", "shutdown"} -> {[id |-> f.id, of |-> <<None, 0>>]}
    [] OTHER                              -> {}

Received(s, f) ==
  [s EXCEPT !.open = @ \cup Answerable(f), !.inits = @ + IF f.m = "initialize" THEN 1 ELSE 0]

WriteToServer(t) ==
  /\ Free /\ Next1(t, "SendToServer")
  /\ LET k == Head(todo[t]).key IN
       IF k \in DOMAIN serverTransports /\ server[serverTransports[k]].alive
       THEN server' = [server EXCEPT ![serverTransports[k]] = Received(@, Head(todo[t]).frame)]
       ELSE UNCHANGED server
  /\ Applied(t)
  /\ UNCHANGED <<daemonVars, clientVars>>

WriteToClient(t) ==
  /\ Free /\ Next1(t, "SendToClient")
  /\ LET c == Head(todo[t]).conn
         f == Head(todo[t]).frame IN
       IF c \in clientTransports /\ client[c] # "gone"
       THEN /\ client'   = IF f = InitializeReply /\ client[c] = "waiting"
                           THEN [client EXCEPT ![c] = "answered"] ELSE client
            /\ answered' = IF f.m = "reply"
                           THEN [answered EXCEPT ![c] = Append(@, [id |-> f.id, of |-> f.of])]
                           ELSE answered
       ELSE UNCHANGED <<client, answered>>
  /\ Applied(t)
  /\ UNCHANGED <<daemonVars, asked, server>>

ApplyCloseClient(t) ==
  /\ Free /\ Next1(t, "CloseClient")
  /\ clientTransports' = clientTransports \ {Head(todo[t]).conn}
  /\ Applied(t)
  /\ UNCHANGED <<serverTransports, handler, reader, sweeping, holder, clientVars, server>>

\* The transport registered for k is forgotten and hung up, whichever it is.
HangUpServer(k) ==
  IF k \in DOMAIN serverTransports
  THEN /\ server' = [server EXCEPT ![serverTransports[k]].closed = TRUE]
       /\ serverTransports' = Without(serverTransports, {k})
  ELSE UNCHANGED <<server, serverTransports>>

ApplyCloseServer(t) ==
  /\ Free /\ Next1(t, "CloseServer")
  /\ HangUpServer(Head(todo[t]).key)
  /\ Applied(t)
  /\ UNCHANGED <<clientTransports, handler, reader, sweeping, holder, clientVars>>

\* No more connections are accepted; those that were may still attach.
ApplyShutdown(t) ==
  /\ Next1(t, "ShutdownProcess")
  /\ Applied(t)
  /\ UNCHANGED <<daemonVars, clientVars, server>>

-----------------------------------------------------------------------------
(* The thread of a client connection *)

Attach(c, k) ==
  /\ Free /\ handler[c] = "new" /\ client[c] = "new"
  /\ handler' = [handler EXCEPT ![c] = "open"]
  /\ client'  = [client EXCEPT ![c] = "attached"]
  /\ clientTransports' = clientTransports \cup {c}
  /\ ClientAttached(c, c, k)
  /\ UNCHANGED <<serverTransports, reader, sweeping, holder, asked, answered, server>>

\* What an editor says next: its handshake, then requests and notifications.
Says(c) ==
  CASE client[c] = "attached" -> {[m |-> "initialize"]}
    [] client[c] = "answered" -> {[m |-> "initialized"]}
    [] client[c] = "ready" /\ asked[c] < MaxRequests ->
         {[m |-> "request", id |-> asked[c] + 1], [m |-> "notice"]}
    [] OTHER -> {}

\* A frame the broker reads.  One in hand when the connection is closed is
\* ignored, because whoever closes it has made the router forget it before.
ReadClient(c) ==
  /\ Free /\ handler[c] = "open" /\ Done(c) /\ c \in clientTransports
  /\ \E f \in Says(c) :
       /\ client' = [client EXCEPT ![c] = IF f.m = "initialize" THEN "waiting" ELSE "ready"]
       /\ asked'  = [asked EXCEPT ![c] = @ + IF client[c] = "ready" THEN 1 ELSE 0]
       /\ ClientFrame(c, c, f)
  /\ UNCHANGED <<daemonVars, answered, server>>

\* The end of the connection, at either side.
ClientEnds(c) ==
  /\ Free /\ handler[c] = "open" /\ Done(c)
  /\ client[c] = "gone" \/ c \notin clientTransports
  /\ handler' = [handler EXCEPT ![c] = "done"]
  /\ clientTransports' = clientTransports \ {c}
  /\ ClientDisconnected(c, c)
  /\ UNCHANGED <<serverTransports, reader, sweeping, holder, clientVars, server>>

-----------------------------------------------------------------------------
(* The thread of a server process *)

\* The transport registered for its key is its own: no reader is started
\* before the earlier ones have ended.
ReaderTop(s) ==
  /\ Free /\ reader[s] = "top" /\ Done(s)
  /\ reader' = [reader EXCEPT ![s] =
                 IF server[s].key \in DOMAIN serverTransports THEN "reading" ELSE "ending"]
  /\ UNCHANGED <<routerVars, clientTransports, serverTransports, handler, sweeping, holder,
                 clientVars, server>>

\* Answers to what is open, requests of the server's own, notifications.
ServerSays(x) ==
  {[m |-> "reply", id |-> q.id, of |-> q.of, ok |-> ok] : q \in server[x].open, ok \in BOOLEAN}
  \cup {[m |-> "ask", id |-> id] : id \in {0, 1}} \cup {[m |-> "notice"]}

ReadServer(s) ==
  /\ Free /\ reader[s] = "reading"
  /\ \E f \in ServerSays(s) :
       /\ server' = [server EXCEPT ![s].open =
                       {q \in @ : f.m # "reply" \/ q.id # f.id \/ q.of # f.of}]
       /\ ServerFrame(s, server[s].key, f)
  /\ reader' = [reader EXCEPT ![s] = "top"]
  /\ UNCHANGED <<clientTransports, serverTransports, handler, sweeping, holder, clientVars>>

\* The end of the connection, or one that was forgotten meanwhile.
ForgetServer(s) ==
  /\ Free
  /\ \/ reader[s] = "ending"
     \/ reader[s] = "reading" /\ (server[s].closed \/ ~server[s].alive)
  /\ reader' = [reader EXCEPT ![s] = "leaving"]
  /\ HangUpServer(server[s].key)
  /\ ServerDisconnected(s, server[s].key)
  /\ UNCHANGED <<clientTransports, handler, sweeping, holder, clientVars>>

\* With the reader goes the last reference to the transport, and the process.
ServerReaderFinished(s) ==
  /\ Free /\ reader[s] = "leaving" /\ Done(s)
  /\ reader' = [reader EXCEPT ![s] = "done"]
  /\ server' = [server EXCEPT ![s].alive = FALSE, ![s].open = {}]
  /\ UNCHANGED <<routerVars, clientTransports, serverTransports, handler, sweeping, holder,
                 clientVars>>

-----------------------------------------------------------------------------
(* The sweeper and the environment *)

Sweep ==
  /\ Free /\ sweeping /\ Done(Sweeper)
  /\ \E n \in 1..Len(recency) : Idle(recency[n]) /\ IdleSweep(Sweeper, n)
  /\ UNCHANGED <<daemonVars, clientVars, server>>

\* A signal, the daemon's own idle timeout, or a rebuilt executable: the last
\* thing the sweeper does.
StopDaemon ==
  /\ Free /\ sweeping /\ Done(Sweeper)
  /\ sweeping' = FALSE
  /\ Shutdown(Sweeper)
  /\ UNCHANGED <<clientTransports, serverTransports, handler, reader, holder, clientVars,
                 server>>

ClientGoes(c) ==
  /\ client[c] \notin {"new", "gone"}
  /\ client' = [client EXCEPT ![c] = "gone"]
  /\ UNCHANGED <<routerVars, daemonVars, asked, answered, server>>

ServerExits(s) ==
  /\ server[s].alive
  /\ server' = [server EXCEPT ![s].alive = FALSE]
  /\ UNCHANGED <<routerVars, daemonVars, clientVars>>

-----------------------------------------------------------------------------
Apply(t) ==
  \/ RegisterServer(t) \/ StartReader(t) \/ FailToSpawn(t)
  \/ WriteToServer(t) \/ WriteToClient(t)
  \/ ApplyCloseClient(t) \/ ApplyCloseServer(t) \/ ApplyShutdown(t)

Handler(c) == ReadClient(c) \/ ClientEnds(c)

ServerReader(s) ==
  ReaderTop(s) \/ ReadServer(s) \/ ForgetServer(s) \/ ServerReaderFinished(s)

Step ==
  \/ \E t \in Threads : Apply(t)
  \/ \E c \in Conns : (\E k \in Keys : Attach(c, k)) \/ Handler(c) \/ ClientGoes(c)
  \/ \E s \in Servers : ServerReader(s) \/ ServerExits(s)
  \/ Sweep \/ StopDaemon

\* What a call asks for is applied before the next call.
Serial == \A t, u \in Threads : ~Done(t) /\ ~Done(u) => t = u

\* No process is registered while a thread has still to write to its
\* predecessor.  Nothing forbids that: actions are applied with the mutex
\* released, and a frame names a process only by its key (ApplySendToServer).
Unmixed ==
  holder # None =>
    \A t \in Threads : \A a \in Range(todo[t]) :
      a.do = "SendToServer" => a.key # Head(todo[holder]).key

Next == Step /\ mixed' = (mixed \/ ~Unmixed')

Spec == Init /\ [][Next]_vars

-----------------------------------------------------------------------------
(* Properties *)

Statuses == {"NotStarted", "SpawningProcess", "AwaitingRealHandshake", "Ready", "Failed"}

\* The router's maps, the threads and the transports have their types.
TypeOK ==
  /\ DOMAIN languages \subseteq Keys /\ Range(recency) = DOMAIN languages
  /\ Len(recency) = Cardinality(DOMAIN languages)
  /\ \A k \in DOMAIN languages :
       /\ languages[k].status \in Statuses
       /\ languages[k].attached \subseteq Conns /\ Range(languages[k].queue) \subseteq Conns
  /\ DOMAIN connectionKey \subseteq Conns /\ Range(connectionKey) \subseteq Keys
  /\ clientTransports \subseteq Conns
  /\ DOMAIN serverTransports \subseteq Keys /\ Range(serverTransports) \subseteq Servers
  /\ holder \in Threads \cup {None} /\ sweeping \in BOOLEAN /\ mixed \in BOOLEAN

\* An entry refers only to connections attached to it: one that left is
\* forgotten everywhere, its unanswered requests included
\* (ClientDisconnected, TearDownEntry).
TracesAreOfConnections ==
  \A k \in DOMAIN languages :
    \A c \in Clients(languages[k]) \cup {p.conn : p \in languages[k].relayed} :
      c \in DOMAIN connectionKey /\ connectionKey[c] = k

\* No client is left connected to a broker that has forgotten it: the router
\* knows it, or some thread is on its way to close it (TearDownEntry).
NobodyLeftOpen ==
  \A c \in clientTransports :
    c \in DOMAIN connectionKey \/ \E t \in Threads : CloseClient(c) \in Range(todo[t])

\* "BrokerRouter performs exactly one real handshake with the actual spawned
\* server" (Broker.h): a process gets one initialize, whoever attaches and
\* whatever entry it is serving (MaybeStartRealHandshake).
OneHandshake == \A s \in Servers : server[s].inits <= 1

\* That, until a process gets frames that were for its predecessor.
OneHandshakeUnlessMixed == mixed \/ OneHandshake

\* What a client gets as the answer to a request is the answer to that
\* request, and comes once (ClientFrame, ServerFrame).
AnswersAreOwn ==
  \A c \in Conns :
    /\ \A i \in DOMAIN answered[c] : answered[c][i].of = <<c, answered[c][i].id>>
    /\ IsInjective(answered[c])

\* That, until a process gets frames that were for its predecessor: a request
\* among them may have the identifier of one that is relayed to the successor.
AnswersAreOwnUnlessMixed == mixed \/ AnswersAreOwn

\* "a join can never wait on work that needs the lock": the thread that holds
\* the mutex is not waiting for one that still has to take it (ApplySpawnServer).
JoinsOnlyFinished == holder # None => Earlier(Head(todo[holder]).key) = {}

\* "SpawningProcess or AwaitingRealHandshake -- queue until the real handshake
\* resolves": nobody waits in an entry that no handshake is coming to
\* (ClientFrame).
QueuedOnlyWhileStarting ==
  \A k \in DOMAIN languages :
    languages[k].queue # <<>> =>
      languages[k].status \in {"SpawningProcess", "AwaitingRealHandshake"}
=============================================================================
