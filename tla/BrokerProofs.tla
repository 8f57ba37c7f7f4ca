---------------------------- MODULE BrokerProofs ----------------------------
(***************************************************************************)
(* Proofs about the language-server broker.                                *)
(*                                                                         *)
(* Of the daemon, whatever its threads do to one another: the types, that  *)
(* entries refer only to connections attached to them, and that no client  *)
(* is left connected to a broker that has forgotten it (BrokerInvariant).  *)
(*                                                                         *)
(* Of the daemon until a process gets frames that were for its             *)
(* predecessor: one handshake for each process, and every answer to who    *)
(* asked, once (OrderedInvariant).                                         *)
(***************************************************************************)
EXTENDS BrokerDaemon, SequenceFacts, FiniteSetTheorems, TLAPS

-----------------------------------------------------------------------------
(* Types *)

Origins == (Conns \cup {None}) \X Nat
Answers == [id : Nat, of : Origins]

\* Frames to a server.
ServerFrames ==
  [m : {"initialize", "shutdown"}, id : Nat] \cup [m : {"request"}, id : Nat, of : Origins]
  \cup [m : {"initialized", "notice", "exit", "ack"}]

\* Frames to a client.
ClientFrames == [m : {"reply"}, id : Nat, of : Origins] \cup [m : {"initialized", "notice"}]

Actions ==
  [do : {"SpawnServer", "CloseServer"}, key : Keys]
  \cup [do : {"SendToServer"}, key : Keys, frame : ServerFrames]
  \cup [do : {"SendToClient"}, conn : Conns, frame : ClientFrames]
  \cup [do : {"CloseClient"}, conn : Conns]
  \cup {ShutdownProcess}

Requests == [id : Nat, conn : Conns, orig : Nat]

Entries == [status : Statuses, running : BOOLEAN, queue : Seq(Conns), attached : SUBSET Conns,
            relayed : SUBSET Requests, nextId : Nat, handshakeId : Nat]

\* No identifier is given to two requests.
Numbered(e) ==
  \A p \in e.relayed : p.id < e.nextId /\ \A q \in e.relayed : p.id = q.id => p = q

IsEntry(e) == e \in Entries /\ IsFiniteSet(e.attached) /\ Numbered(e)

LanguagesTyped == DOMAIN languages \subseteq Keys /\ \A k \in DOMAIN languages : IsEntry(languages[k])

\* Each entry has its place in the order of activity.
RecencyTyped == recency \in Seq(Keys) /\ Distinct(recency) /\ Members(recency) = DOMAIN languages

ConnectionsTyped ==
  DOMAIN connectionKey \subseteq Conns /\ \A c \in DOMAIN connectionKey : connectionKey[c] \in Keys

RouterTyped ==
  /\ LanguagesTyped /\ RecencyTyped /\ ConnectionsTyped
  /\ todo \in [Threads -> Seq(Actions)]

Processes ==
  [key : Keys \cup {None}, alive : BOOLEAN, closed : BOOLEAN, inits : Nat, open : SUBSET Answers]

DaemonTyped ==
  /\ clientTransports \subseteq Conns
  /\ serverTransports \in [DOMAIN serverTransports -> Servers]
  /\ DOMAIN serverTransports \subseteq Keys
  /\ handler \in [Conns -> {"new", "open", "done"}]
  /\ reader \in [Servers -> {"none", "created", "top", "reading", "ending", "leaving", "done"}]
  /\ sweeping \in BOOLEAN /\ holder \in Threads \cup {None}
  /\ server \in [Servers -> Processes]

ClientsTyped ==
  /\ client \in [Conns -> {"new", "attached", "waiting", "answered", "ready", "gone"}]
  /\ asked \in [Conns -> Nat]
  /\ answered \in [Conns -> Seq(Answers)]

-----------------------------------------------------------------------------
(* The threads *)

\* The thread that holds the mutex registers a process, which nobody has read.
Registering(t) ==
  /\ t \in Threads /\ todo[t] # <<>> /\ Head(todo[t]).do = "SpawnServer"
  /\ Head(todo[t]).key \in DOMAIN serverTransports
  /\ reader[serverTransports[Head(todo[t]).key]] = "created"

\* The thread of a connection does nothing before the connection is accepted.
HandlersInv ==
  \A c \in Conns : handler[c] = "new" =>
    Done(c) /\ c \notin DOMAIN connectionKey /\ c \notin clientTransports

\* The thread of a process reads with nothing else to do; before it reads,
\* nobody has written to the process.
ReadersInv ==
  \A s \in Servers :
    /\ reader[s] \in {"none", "created", "reading", "ending"} => Done(s)
    /\ reader[s] # "none" => server[s].key \in Keys
    /\ reader[s] = "none" => server[s] = NoServer
    /\ reader[s] = "created" =>
         /\ server[s].inits = 0 /\ server[s].open = {}
         /\ holder # None /\ s = serverTransports[Head(todo[holder]).key]

\* A registered transport is of a process of its key, and that is being read.
TransportsInv ==
  \A k \in DOMAIN serverTransports :
    LET s == serverTransports[k] IN
    server[s].key = k /\ reader[s] \in {"created", "top", "reading", "ending"}

HolderInv == holder # None => Registering(holder)

\* Of the processes of a key one at most is read, or being given up.
OneReaderInv ==
  \A s, u \in Servers :
    /\ reader[s] \in {"top", "reading", "ending", "leaving"}
    /\ reader[u] \in {"top", "reading", "ending", "leaving"}
    /\ server[s].key = server[u].key
    => s = u

ThreadsInv == HandlersInv /\ ReadersInv /\ TransportsInv /\ HolderInv /\ OneReaderInv

-----------------------------------------------------------------------------
(* What holds whatever the threads do to one another *)

BrokerInv ==
  /\ RouterTyped /\ DaemonTyped /\ ClientsTyped
  /\ ThreadsInv /\ TracesAreOfConnections /\ NobodyLeftOpen


-----------------------------------------------------------------------------
(* Sequences and sets *)

LEMMA RangeIsMembers ==
  ASSUME NEW S, NEW q \in Seq(S)
  PROVE  Range(q) = Members(q) /\ DOMAIN q = 1..Len(q) /\ Len(q) \in Nat /\ (IsInjective(q) <=> Distinct(q))
<1>1. DOMAIN q = 1..Len(q) /\ Len(q) \in Nat
  BY LenProperties
<1>2. QED
  BY <1>1 DEF Range, Members, IsInjective, Distinct

\* A finite set as a sequence: its members, each once.
LEMMA Listing ==
  ASSUME NEW S, IsFiniteSet(S), NEW f \in SetToSeqs(S)
  PROVE  f \in Seq(S) /\ Members(f) = S /\ Distinct(f)
<1> DEFINE n == Cardinality(S)
<1>1. n \in Nat
  BY FS_CardinalityType
<1> HIDE DEF n
<1>2. f \in [1..n -> S] /\ \A i, j \in 1..n : i # j => f[i] # f[j]
  BY DEF SetToSeqs, n
<1>3. f \in Seq(S) /\ Len(f) = n
  BY <1>1, <1>2
<1>4. Distinct(f)
  BY <1>2, <1>3 DEF Distinct
<1>5. Members(f) \subseteq S
  BY <1>3, MembersTyped
<1>6. f \in Injection(1..n, Members(f)) /\ f \in Surjection(1..n, Members(f))
  BY <1>2, <1>3 DEF Injection, Surjection, Members, IsInjective
<1>7. IsFiniteSet(Members(f)) /\ Cardinality(Members(f)) = n
  <2>1. f \in Bijection(1..n, Members(f))
    BY <1>6 DEF Bijection
  <2>2. ExistsBijection(1..n, Members(f))
    BY <2>1 DEF ExistsBijection
  <2> DEFINE M == Members(f)
  <2> HIDE DEF M
  <2>3. Cardinality(M) = n
    BY <1>1, <2>2, FS_CountingElements DEF M
  <2>4. IsFiniteSet(Members(f))
    BY <1>5, FS_Subset
  <2>5. QED
    BY <2>3, <2>4 DEF M
<1>8. Members(f) = S
  BY <1>5, <1>7, FS_Subset DEF n
<1>9. QED
  BY <1>3, <1>4, <1>8

LEMMA OneListed ==
  ASSUME NEW x
  PROVE  SetToSeq({x}) = <<x>> /\ Cardinality({x}) = 1
<1>1. Cardinality({x}) = 1
  BY FS_Singleton
<1>2. [i \in 1..1 |-> x] \in [1..1 -> {x}] /\ IsInjective([i \in 1..1 |-> x])
  BY DEF IsInjective
<1>3. SetToSeq({x}) \in [1..1 -> {x}]
  BY <1>1, <1>2 DEF SetToSeq
<1>4. <<x>> \in [1..1 -> {x}]
  OBVIOUS
<1>5. QED
  BY <1>1, <1>3, <1>4

LEMMA NoneListed == SetToSeq({}) = <<>> /\ Cardinality({}) = 0
<1>1. Cardinality({}) = 0
  BY FS_EmptySet
<1>2. <<>> \in [1..0 -> {}] /\ IsInjective(<<>>)
  BY DEF IsInjective
<1>3. SetToSeq({}) \in [1..0 -> {}]
  BY <1>1, <1>2 DEF SetToSeq
<1>4. QED
  BY <1>1, <1>3


-----------------------------------------------------------------------------
(* Sequences of sequences, joined *)

JoinedBy(ss, f) ==
  f = [i \in 1..Len(ss) |-> IF i = 1 THEN ss[i] ELSE f[i - 1] \o ss[i]]

LEMMA JoinedExists ==
  ASSUME NEW ss, Len(ss) \in Nat
  PROVE  \E f : JoinedBy(ss, f)
<1> DEFINE After(i, q) == q \o ss[i]
           G(n, g) == g = [i \in 1..n |-> IF i = 1 THEN ss[i] ELSE After(i, g[i - 1])]
           P == {n \in Nat : \E g : G(n, g)}
<1>1. 0 \in P
  <2>1. G(0, [i \in 1..0 |-> <<>>])
    OBVIOUS
  <2>2. QED
    BY <2>1
<1>2. ASSUME NEW n \in Nat, n \in P PROVE n + 1 \in P
  <2>1. PICK g : G(n, g)
    BY <1>2
  <2> DEFINE h == [i \in 1..n + 1 |-> IF i = 1 THEN ss[i]
                                      ELSE IF i = n + 1 THEN After(n + 1, g[n]) ELSE g[i]]
  <2>2. G(n + 1, h)
    <3> SUFFICES ASSUME NEW i \in 1..n + 1
                 PROVE  h[i] = IF i = 1 THEN ss[i] ELSE After(i, h[i - 1])
      OBVIOUS
    <3> HIDE DEF After
    <3>1. CASE i = 1
      BY <3>1
    <3>2. CASE i = n + 1 /\ i # 1
      <4>1. n \in 1..n + 1 /\ n # n + 1 /\ i - 1 = n /\ n \in 1..n
        BY <3>2
      <4>2. h[n] = g[n]
        BY <4>1, <2>1
      <4>3. QED
        BY <3>2, <4>1, <4>2
    <3>3. CASE i \in 1..n /\ i # 1
      <4>1. i - 1 \in 1..n /\ i - 1 \in 1..n + 1 /\ i - 1 # n + 1 /\ i # n + 1
        BY <3>3
      <4>2. h[i - 1] = g[i - 1] /\ g[i] = After(i, g[i - 1]) /\ h[i] = g[i]
        BY <4>1, <3>3, <2>1
      <4>3. QED
        BY <3>3, <4>2
    <3>4. QED
      BY <3>1, <3>2, <3>3
  <2>3. \E w : G(n + 1, w)
    <3> HIDE DEF h, After
    <3>1. QED
      BY <2>2
  <2> HIDE DEF G
  <2>4. QED
    BY <2>3
<1>3. Nat \subseteq P
  <2> HIDE DEF P
  <2>1. QED
    BY <1>1, <1>2, Induction
<1>4. Len(ss) \in P
  BY <1>3
<1>5. QED
  BY <1>4 DEF JoinedBy

\* The members of a joined sequence are those of its parts.
LEMMA Flattened ==
  ASSUME NEW S, NEW ss \in Seq(Seq(S))
  PROVE  /\ FlattenSeq(ss) \in Seq(S)
         /\ Members(FlattenSeq(ss)) = UNION {Members(ss[i]) : i \in 1..Len(ss)}
<1> DEFINE f == CHOOSE f : JoinedBy(ss, f)
           n == Len(ss)
           Before(i) == UNION {Members(ss[j]) : j \in 1..i}
           Good(i) == f[i] \in Seq(S) /\ Members(f[i]) = Before(i)
           P == {i \in Nat : i + 1 <= n => Good(i + 1)}
<1>1. n \in Nat /\ \A i \in 1..n : ss[i] \in Seq(S)
  BY LenProperties, ElementOfSeq
<1>2. JoinedBy(ss, f)
  BY <1>1, JoinedExists
<1>3. n # 0 => FlattenSeq(ss) = f[n]
  BY DEF FlattenSeq, JoinedBy
<1>4. n = 0 => ss = <<>> /\ FlattenSeq(ss) = ss
  BY EmptySeq DEF FlattenSeq
<1> HIDE DEF f
<1>5. \A i \in 1..n : f[i] = IF i = 1 THEN ss[i] ELSE f[i - 1] \o ss[i]
  <2> DEFINE g == [i \in 1..n |-> IF i = 1 THEN ss[i] ELSE f[i - 1] \o ss[i]]
  <2>1. f = g
    BY <1>2 DEF JoinedBy
  <2>2. \A i \in 1..n : g[i] = IF i = 1 THEN ss[i] ELSE f[i - 1] \o ss[i]
    OBVIOUS
  <2> HIDE DEF g
  <2>3. QED
    BY <2>1, <2>2
<1>6. 0 \in P
  <2> SUFFICES ASSUME 1 <= n PROVE Good(1)
    OBVIOUS
  <2>1. 1 \in 1..n
    BY <1>1
  <2>2. f[1] = ss[1] /\ ss[1] \in Seq(S)
    BY <1>1, <1>5, <2>1
  <2>3. 1..1 = {1}
    OBVIOUS
  <2>4. Before(1) = Members(ss[1])
    BY <2>3
  <2>5. QED
    BY <2>2, <2>4
<1>7. ASSUME NEW i \in Nat, i \in P PROVE i + 1 \in P
  <2> SUFFICES ASSUME (i + 1) + 1 <= n PROVE Good((i + 1) + 1)
    OBVIOUS
  <2> DEFINE j == (i + 1) + 1
  <2>1. Good(i + 1) /\ j \in 1..n /\ j # 1 /\ j - 1 = i + 1
    BY <1>1, <1>7
  <2>2. f[j] = f[i + 1] \o ss[j] /\ ss[j] \in Seq(S)
    BY <1>1, <1>5, <2>1
  <2>3. Before(j) = Before(i + 1) \cup Members(ss[j])
    <3>1. 1..j = (1..i + 1) \cup {j}
      OBVIOUS
    <3>2. QED
      BY <3>1
  <2>4. f[i + 1] \o ss[j] \in Seq(S) /\ Members(f[i + 1] \o ss[j]) = Members(f[i + 1]) \cup Members(ss[j])
    BY <2>1, <2>2, MembersOfJoin, ConcatProperties
  <2> HIDE DEF Before, j
  <2>5. f[j] \in Seq(S) /\ Members(f[j]) = Before(j)
    BY <2>1, <2>2, <2>3, <2>4
  <2>6. QED
    BY <2>5 DEF j
<1>8. Nat \subseteq P
  <2> HIDE DEF P
  <2>1. QED
    BY <1>6, <1>7, Induction
<1>9. CASE n = 0
  <2>1. {Members(ss[i]) : i \in 1..n} = {}
    BY <1>9
  <2>2. <<>> \in Seq(S)
    OBVIOUS
  <2>3. QED
    BY <1>4, <1>9, <2>1, <2>2, MembersNone
<1>10. CASE n # 0
  <2>1. n - 1 \in Nat /\ (n - 1) + 1 = n /\ n <= n
    BY <1>1, <1>10
  <2>2. Good(n)
    <3>1. n - 1 \in P
      <4> HIDE DEF P
      <4>1. QED
        BY <1>8, <2>1
    <3> HIDE DEF Good
    <3>2. QED
      BY <2>1, <3>1
  <2>3. QED
    BY <1>3, <1>10, <2>2
<1>11. QED
  BY <1>9, <1>10

-----------------------------------------------------------------------------
(* Actions and frames *)

LEMMA FramesTyped ==
  /\ \A id \in Nat : Initialize(id) \in ServerFrames /\ ShutdownRequest(id) \in ServerFrames
  /\ \A id \in Nat, of \in Origins : Relayed(id, of) \in ServerFrames /\ Reply(id, of) \in ClientFrames
  /\ Initialized \in ServerFrames /\ Notice \in ServerFrames /\ Exit \in ServerFrames
  /\ Acknowledge \in ServerFrames /\ InitializeReply \in ClientFrames /\ Notice \in ClientFrames
BY DEF ServerFrames, ClientFrames, Initialize, ShutdownRequest, Relayed, Reply, Initialized, Notice,
       Exit, Acknowledge, InitializeReply

LEMMA ActionsTyped ==
  /\ \A k \in Keys : SpawnServer(k) \in Actions /\ CloseServer(k) \in Actions
  /\ \A k \in Keys, f \in ServerFrames : SendToServer(k, f) \in Actions
  /\ \A c \in Conns, f \in ClientFrames : SendToClient(c, f) \in Actions
  /\ \A c \in Conns : CloseClient(c) \in Actions
  /\ ShutdownProcess \in Actions
BY DEF Actions, SpawnServer, CloseServer, SendToServer, SendToClient, CloseClient

LEMMA ActionFields ==
  ASSUME NEW a \in Actions
  PROVE  /\ a.do \in {"SpawnServer", "CloseServer"} => a.key \in Keys
         /\ a.do = "SendToServer" => a.key \in Keys /\ a.frame \in ServerFrames
         /\ a.do = "SendToClient" => a.conn \in Conns /\ a.frame \in ClientFrames
         /\ a.do = "CloseClient" => a.conn \in Conns /\ a = CloseClient(a.conn)
BY DEF Actions, CloseClient, ShutdownProcess

LEMMA CloseClientIs ==
  ASSUME NEW c
  PROVE  CloseClient(c).do = "CloseClient" /\ CloseClient(c).conn = c
BY DEF CloseClient

\* What is left to do of the entries K when they are torn down.
Farewells(K) ==
  [do : {"CloseServer"}, key : K] \cup [do : {"CloseClient"}, conn : Conns]
  \cup [do : {"SendToServer"}, key : K, frame : [m : {"shutdown"}, id : Nat] \cup [m : {"exit"}]]
  \cup {ShutdownProcess}

LEMMA FarewellsAreActions ==
  ASSUME NEW K \in SUBSET Keys
  PROVE  Farewells(K) \subseteq Actions
<1>1. [m : {"shutdown"}, id : Nat] \cup [m : {"exit"}] \subseteq ServerFrames
  BY DEF ServerFrames
<1>2. QED
  BY <1>1 DEF Farewells, Actions

LEMMA FarewellsTyped ==
  ASSUME NEW K
  PROVE  /\ \A k \in K : CloseServer(k) \in Farewells(K) /\ SendToServer(k, Exit) \in Farewells(K)
         /\ \A k \in K, id \in Nat : SendToServer(k, ShutdownRequest(id)) \in Farewells(K)
         /\ \A c \in Conns : CloseClient(c) \in Farewells(K)
         /\ ShutdownProcess \in Farewells(K)
BY DEF Farewells, CloseServer, SendToServer, ShutdownRequest, Exit, CloseClient

LEMMA FarewellsWiden ==
  ASSUME NEW K, NEW L, K \subseteq L
  PROVE  Seq(Farewells(K)) \subseteq Seq(Farewells(L))
<1>1. Farewells(K) \subseteq Farewells(L)
  BY DEF Farewells
<1>2. QED
  BY <1>1, WiderQueues

LEMMA SequencesOf ==
  ASSUME NEW S
  PROVE  /\ <<>> \in Seq(S)
         /\ \A x \in S : <<x>> \in Seq(S) /\ Members(<<x>>) = {x}
         /\ \A x, y \in S : <<x, y>> \in Seq(S)
BY DEF Members

LEMMA CloseEachIs ==
  ASSUME NEW K, NEW q \in Seq(Conns)
  PROVE  /\ CloseEach(q) \in Seq(Farewells(K))
         /\ \A c \in Members(q) : CloseClient(c) \in Members(CloseEach(q))
<1> DEFINE n == Len(q)
           t == CloseEach(q)
<1>1. n \in Nat /\ DOMAIN q = 1..n /\ \A i \in 1..n : q[i] \in Conns
  BY LenProperties, ElementOfSeq
<1>2. t = [i \in 1..n |-> CloseClient(q[i])]
  BY <1>1 DEF CloseEach
<1>3. \A i \in 1..n : CloseClient(q[i]) \in Farewells(K)
  BY <1>1, FarewellsTyped
<1> HIDE DEF t, n
<1>4. t \in Seq(Farewells(K)) /\ Len(t) = n /\ \A i \in 1..n : t[i] = CloseClient(q[i])
  BY <1>1, <1>2, <1>3
<1>5. QED
  BY <1>4 DEF Members, n, t

-----------------------------------------------------------------------------
(* Tearing entries down *)

LEMMA EntryFields ==
  ASSUME NEW e, IsEntry(e)
  PROVE  /\ e.status \in Statuses /\ e.queue \in Seq(Conns) /\ e.attached \subseteq Conns
         /\ e.relayed \subseteq Requests /\ e.nextId \in Nat /\ e.handshakeId \in Nat
         /\ IsFiniteSet(e.attached) /\ Range(e.queue) = Members(e.queue) /\ Clients(e) \subseteq Conns
<1>1. /\ e.status \in Statuses /\ e.queue \in Seq(Conns) /\ e.attached \subseteq Conns
      /\ e.relayed \subseteq Requests /\ e.nextId \in Nat /\ e.handshakeId \in Nat
      /\ IsFiniteSet(e.attached)
  BY DEF IsEntry, Entries
<1>2. Range(e.queue) = Members(e.queue) /\ Members(e.queue) \subseteq Conns
  BY <1>1, RangeIsMembers, MembersTyped
<1>3. QED
  BY <1>1, <1>2 DEF Clients

LEMMA ListedIs ==
  ASSUME NEW order \in Seq(Conns), NEW T
  PROVE  Listed(order, T) \in Seq(Conns) /\ Members(Listed(order, T)) = Members(order) \cap T
<1>1. Range(order) = Members(order)
  BY RangeIsMembers
<1>2. /\ Removing(order, Members(order) \ T) \in Seq(Conns)
      /\ Members(Removing(order, Members(order) \ T)) = Members(order) \ (Members(order) \ T)
  BY RemovingIs
<1>3. QED
  BY <1>1, <1>2 DEF Listed

LEMMA JoinIs ==
  ASSUME NEW S, NEW q \in Seq(S), NEW u \in Seq(S)
  PROVE  q \o u \in Seq(S) /\ Members(q \o u) = Members(q) \cup Members(u)
BY MembersOfJoin, MembersJoin

LEMMA TearDownIs ==
  ASSUME NEW K, NEW k \in K, IsEntry(languages[k]), NEW order \in Seq(Conns),
         languages[k].attached \subseteq Members(order)
  PROVE  /\ TearDownActions(k, order) \in Seq(Farewells(K))
         /\ \A c \in Clients(languages[k]) : CloseClient(c) \in Members(TearDownActions(k, order))
<1> DEFINE e == languages[k]
           b == IF e.status = "Ready"
                THEN <<SendToServer(k, ShutdownRequest(e.nextId)), SendToServer(k, Exit)>> ELSE <<>>
           d == IF e.status # "NotStarted" THEN <<CloseServer(k)>> ELSE <<>>
           l == Listed(order, e.attached)
           f == CloseEach(l)
           g == CloseEach(e.queue)
<1>1. /\ e.queue \in Seq(Conns) /\ e.nextId \in Nat /\ Range(e.queue) = Members(e.queue)
  BY EntryFields
<1>2. l \in Seq(Conns) /\ Members(l) = e.attached
  BY ListedIs
<1> HIDE DEF e, l
<1>3. /\ f \in Seq(Farewells(K)) /\ g \in Seq(Farewells(K))
      /\ \A c \in e.attached : CloseClient(c) \in Members(f)
      /\ \A c \in Members(e.queue) : CloseClient(c) \in Members(g)
  BY <1>1, <1>2, CloseEachIs
<1>4. b \in Seq(Farewells(K))
  <2>1. SendToServer(k, ShutdownRequest(e.nextId)) \in Farewells(K) /\ SendToServer(k, Exit) \in Farewells(K)
    BY <1>1, FarewellsTyped
  <2>2. QED
    BY <2>1, SequencesOf
<1>5. d \in Seq(Farewells(K))
  BY FarewellsTyped, SequencesOf
<1> HIDE DEF b, d, f, g
<1>6. b \o d \in Seq(Farewells(K))
  BY <1>4, <1>5, JoinIs
<1> DEFINE h == b \o d
           w == h \o f
<1>6a. h \in Seq(Farewells(K))
  BY <1>6
<1> HIDE DEF h
<1>7. h \o f \in Seq(Farewells(K)) /\ Members(h \o f) = Members(h) \cup Members(f)
  BY <1>6a, <1>3, JoinIs
<1>7a. w \in Seq(Farewells(K)) /\ Members(w) = Members(h) \cup Members(f)
  BY <1>7
<1> HIDE DEF w
<1>8. w \o g \in Seq(Farewells(K)) /\ Members(w \o g) = Members(w) \cup Members(g)
  BY <1>7a, <1>3, JoinIs
<1>9. TearDownActions(k, order) = w \o g
  BY DEF TearDownActions, b, d, f, g, e, l, h, w
<1>10. Clients(e) = e.attached \cup Members(e.queue)
  BY <1>1 DEF Clients, e
<1>11. QED
  BY <1>3, <1>8, <1>9, <1>10, <1>7a DEF e

LEMMA TearDownAllIs ==
  ASSUME NEW K, NEW keys \in Seq(K), NEW order \in Seq(Conns),
         \A k \in Members(keys) : IsEntry(languages[k]) /\ languages[k].attached \subseteq Members(order)
  PROVE  /\ TearDownAll(keys, order) \in Seq(Farewells(K))
         /\ \A k \in Members(keys) : \A c \in Clients(languages[k]) :
              CloseClient(c) \in Members(TearDownAll(keys, order))
<1> DEFINE n == Len(keys)
           T(i) == TearDownActions(keys[i], order)
           ss == [i \in 1..n |-> T(i)]
<1>1. n \in Nat /\ DOMAIN keys = 1..n /\ \A i \in 1..n : keys[i] \in K /\ keys[i] \in Members(keys)
  BY LenProperties, ElementOfSeq DEF Members
<1>2. \A i \in 1..n : /\ T(i) \in Seq(Farewells(K))
                      /\ \A c \in Clients(languages[keys[i]]) : CloseClient(c) \in Members(T(i))
  BY <1>1, TearDownIs
<1>3. TearDownAll(keys, order) = FlattenSeq(ss)
  BY <1>1 DEF TearDownAll
<1> HIDE DEF T
<1>4. ss \in Seq(Seq(Farewells(K))) /\ Len(ss) = n /\ \A i \in 1..n : ss[i] = T(i)
  BY <1>1, <1>2
<1> HIDE DEF ss
<1>5. /\ FlattenSeq(ss) \in Seq(Farewells(K))
      /\ Members(FlattenSeq(ss)) = UNION {Members(ss[i]) : i \in 1..Len(ss)}
  BY <1>4, Flattened
<1>6. ASSUME NEW k \in Members(keys), NEW c \in Clients(languages[k])
      PROVE  CloseClient(c) \in Members(FlattenSeq(ss))
  <2>1. PICK i \in 1..n : k = keys[i]
    BY DEF Members
  <2>2. CloseClient(c) \in Members(ss[i])
    BY <1>2, <1>4, <1>6, <2>1
  <2>3. QED
    BY <1>4, <1>5, <2>2
<1>7. QED
  BY <1>3, <1>5, <1>6

-----------------------------------------------------------------------------
(* Entries *)

Traces(e) == Clients(e) \cup {p.conn : p \in e.relayed}

LEMMA NewEntryIs ==
  ASSUME NEW status \in Statuses
  PROVE  IsEntry(NewEntry(status)) /\ Traces(NewEntry(status)) = {}
<1> DEFINE e == NewEntry(status)
<1>1. /\ e.status = status /\ e.queue = <<>> /\ e.attached = {} /\ e.relayed = {} /\ e.nextId = 1
      /\ e.handshakeId = 0
  BY DEF NewEntry
<1>2. e \in Entries
  <2>1. FALSE \in BOOLEAN /\ <<>> \in Seq(Conns) /\ {} \in SUBSET Conns /\ {} \in SUBSET Requests
        /\ 1 \in Nat /\ 0 \in Nat
    OBVIOUS
  <2>2. QED
    BY <2>1 DEF NewEntry, Entries
<1>3. IsFiniteSet(e.attached)
  BY <1>1, FS_EmptySet
<1>4. Numbered(e)
  BY <1>1 DEF Numbered
<1>5. Range(<<>>) = {}
  BY DEF Range
<1>6. Traces(e) = {}
  BY <1>1, <1>5 DEF Traces, Clients
<1>7. QED
  BY <1>2, <1>3, <1>4, <1>6 DEF IsEntry

LEMMA QueueGrows ==
  ASSUME NEW e, IsEntry(e), NEW c \in Conns
  PROVE  LET q == [e EXCEPT !.queue = Append(@, c)] IN
         IsEntry(q) /\ Traces(q) = Traces(e) \cup {c}
<1> DEFINE q == [e EXCEPT !.queue = Append(@, c)]
<1>1. e.queue \in Seq(Conns) /\ e \in Entries /\ IsFiniteSet(e.attached) /\ Numbered(e)
  BY DEF IsEntry, Entries
<1>2. Append(e.queue, c) \in Seq(Conns)
  BY <1>1
<1>3. /\ q.queue = Append(e.queue, c) /\ q.attached = e.attached /\ q.relayed = e.relayed
      /\ q.nextId = e.nextId
  BY <1>1 DEF Entries
<1>4. q \in Entries
  BY <1>1, <1>2 DEF Entries
<1> HIDE DEF q
<1>5. IsEntry(q)
  <2>1. Numbered(q)
    BY <1>1, <1>3 DEF Numbered
  <2>2. QED
    BY <1>1, <1>3, <1>4, <2>1 DEF IsEntry
<1>6. Range(q.queue) = Range(e.queue) \cup {c}
  <2>1. e.queue \in Seq(Conns)
    BY <1>1
  <2> DEFINE s == e.queue
             t == Append(s, c)
  <2>2. s \in Seq(Conns) /\ t \in Seq(Conns) /\ Members(t) = Members(s) \cup {c}
    BY <2>1, <1>2, MembersAppend
  <2> HIDE DEF s, t
  <2>3. Range(s) = Members(s) /\ Range(t) = Members(t)
    BY <2>2, RangeIsMembers
  <2>4. QED
    BY <1>3, <2>2, <2>3 DEF s, t
<1>7. QED
  BY <1>3, <1>5, <1>6 DEF Traces, Clients, q

LEMMA HandshakeEntry ==
  ASSUME NEW e, IsEntry(e)
  PROVE  IsEntry(AfterHandshakeStart(e)) /\ Traces(AfterHandshakeStart(e)) = Traces(e)
<1> DEFINE q == [e EXCEPT !.status = "AwaitingRealHandshake", !.handshakeId = e.nextId, !.nextId = @ + 1]
<1>1. /\ e \in Entries /\ IsFiniteSet(e.attached) /\ Numbered(e) /\ e.nextId \in Nat
      /\ e.relayed \subseteq Requests
  BY DEF IsEntry, Entries
<1>2. e.nextId + 1 \in Nat /\ "AwaitingRealHandshake" \in Statuses
  BY <1>1 DEF Statuses
<1>3. q.queue = e.queue /\ q.attached = e.attached /\ q.relayed = e.relayed /\ q.nextId = e.nextId + 1
  BY <1>1 DEF Entries
<1>4. q \in Entries
  BY <1>1, <1>2 DEF Entries
<1> HIDE DEF q
<1>5. \A p \in e.relayed : p.id \in Nat
  BY <1>1 DEF Requests
<1>6. Numbered(q)
  BY <1>1, <1>3, <1>5 DEF Numbered
<1>7. IsEntry(q) /\ Traces(q) = Traces(e)
  BY <1>1, <1>3, <1>4, <1>6 DEF IsEntry, Traces, Clients
<1>8. AfterHandshakeStart(e) = q \/ AfterHandshakeStart(e) = e
  BY DEF AfterHandshakeStart, q
<1>9. QED
  BY <1>7, <1>8

LEMMA AttachedGrows ==
  ASSUME NEW e, IsEntry(e), NEW c \in Conns
  PROVE  LET q == [e EXCEPT !.attached = @ \cup {c}] IN
         IsEntry(q) /\ Traces(q) = Traces(e) \cup {c}
<1> DEFINE q == [e EXCEPT !.attached = @ \cup {c}]
<1>1. e \in Entries /\ IsFiniteSet(e.attached) /\ Numbered(e) /\ e.attached \subseteq Conns
  BY DEF IsEntry, Entries
<1>2. e.attached \cup {c} \in SUBSET Conns
  BY <1>1
<1>3. /\ q.queue = e.queue /\ q.attached = e.attached \cup {c} /\ q.relayed = e.relayed
      /\ q.nextId = e.nextId
  BY <1>1 DEF Entries
<1>4. q \in Entries
  BY <1>1, <1>2 DEF Entries
<1> HIDE DEF q
<1>5. IsFiniteSet(q.attached)
  BY <1>1, <1>3, FS_AddElement
<1>6. Numbered(q)
  BY <1>1, <1>3 DEF Numbered
<1>7. QED
  BY <1>3, <1>4, <1>5, <1>6 DEF IsEntry, Traces, Clients, q

LEMMA RelayedGrows ==
  ASSUME NEW e, IsEntry(e), NEW c \in Conns, NEW o \in Nat
  PROVE  LET q == [e EXCEPT !.relayed = @ \cup {[id |-> e.nextId, conn |-> c, orig |-> o]},
                            !.nextId  = e.nextId + 1] IN
         IsEntry(q) /\ Traces(q) = Traces(e) \cup {c}
<1> DEFINE r == [id |-> e.nextId, conn |-> c, orig |-> o]
           q == [e EXCEPT !.relayed = @ \cup {r}, !.nextId  = e.nextId + 1]
<1>1. /\ e \in Entries /\ IsFiniteSet(e.attached) /\ Numbered(e) /\ e.relayed \subseteq Requests
      /\ e.nextId \in Nat
  BY DEF IsEntry, Entries
<1>2. r \in Requests /\ r.id = e.nextId /\ r.conn = c /\ e.nextId + 1 \in Nat
  BY <1>1 DEF Requests
<1> HIDE DEF r
<1>3. /\ q.queue = e.queue /\ q.attached = e.attached /\ q.relayed = e.relayed \cup {r}
      /\ q.nextId = e.nextId + 1
  BY <1>1 DEF Entries
<1>4. q \in Entries
  <2>1. e.relayed \cup {r} \in SUBSET Requests
    BY <1>1, <1>2
  <2>2. QED
    BY <1>1, <1>2, <2>1 DEF Entries
<1> HIDE DEF q
<1>5. Numbered(q)
  <2>1. \A p \in e.relayed : p.id \in Nat /\ p.id < e.nextId
    BY <1>1 DEF Requests, Numbered
  <2>2. \A p \in q.relayed : p \in e.relayed \/ p = r
    BY <1>3
  <2>3. \A p \in q.relayed : p.id < q.nextId
    BY <1>1, <1>2, <1>3, <2>1, <2>2
  <2>4. ASSUME NEW p \in q.relayed, NEW p2 \in q.relayed, p.id = p2.id PROVE p = p2
    <3>1. CASE p \in e.relayed /\ p2 \in e.relayed
      BY <1>1, <2>4, <3>1 DEF Numbered
    <3>2. CASE p = r \/ p2 = r
      BY <1>1, <1>2, <2>1, <2>2, <2>4, <3>2
    <3>3. QED
      BY <2>2, <3>1, <3>2
  <2>5. QED
    BY <2>3, <2>4 DEF Numbered
<1>6. {p.conn : p \in q.relayed} = {p.conn : p \in e.relayed} \cup {c}
  BY <1>2, <1>3
<1>7. Traces(q) = Traces(e) \cup {c}
  BY <1>3, <1>6 DEF Traces, Clients
<1>8. IsEntry(q)
  BY <1>1, <1>3, <1>4, <1>5 DEF IsEntry
<1>9. QED
  BY <1>7, <1>8 DEF q, r

LEMMA LeftIs ==
  ASSUME NEW e, IsEntry(e), NEW c
  PROVE  IsEntry(Left(e, c)) /\ Traces(Left(e, c)) = Traces(e) \ {c}
<1> DEFINE l == Removing(e.queue, {c})
           q == Left(e, c)
<1>1. /\ e \in Entries /\ IsFiniteSet(e.attached) /\ Numbered(e) /\ e.attached \subseteq Conns
      /\ e.queue \in Seq(Conns) /\ e.relayed \subseteq Requests
  BY DEF IsEntry, Entries
<1>2. l \in Seq(Conns) /\ Members(l) = Members(e.queue) \ {c}
  BY <1>1, RemovingIs
<1> HIDE DEF l
<1>3. /\ q.queue = l /\ q.attached = e.attached \ {c} /\ q.relayed = {p \in e.relayed : p.conn # c}
      /\ q.nextId = e.nextId
  BY <1>1 DEF Entries, Left, l
<1>4. q \in Entries
  <2>1. e.attached \ {c} \in SUBSET Conns /\ {p \in e.relayed : p.conn # c} \in SUBSET Requests
    BY <1>1
  <2>2. QED
    BY <1>1, <1>2, <2>1 DEF Entries, Left, l
<1> HIDE DEF q
<1>5. IsFiniteSet(q.attached)
  <2>1. q.attached \in SUBSET e.attached
    BY <1>3
  <2>2. QED
    BY <1>1, <2>1, FS_Subset
<1>6. Numbered(q)
  BY <1>1, <1>3 DEF Numbered
<1>7. Range(q.queue) = Range(e.queue) \ {c}
  BY <1>1, <1>2, <1>3, RangeIsMembers
<1>8. {p.conn : p \in q.relayed} = {p.conn : p \in e.relayed} \ {c}
  BY <1>3
<1>9. QED
  BY <1>3, <1>4, <1>5, <1>6, <1>7, <1>8 DEF IsEntry, Traces, Clients, q

LEMMA RunningEntry ==
  ASSUME NEW e, IsEntry(e)
  PROVE  LET q == [e EXCEPT !.running = TRUE] IN IsEntry(q) /\ Traces(q) = Traces(e)
<1> DEFINE q == [e EXCEPT !.running = TRUE]
<1>1. e \in Entries /\ IsFiniteSet(e.attached) /\ Numbered(e)
  BY DEF IsEntry
<1>2. /\ q.queue = e.queue /\ q.attached = e.attached /\ q.relayed = e.relayed
      /\ q.nextId = e.nextId
  BY <1>1 DEF Entries
<1>3. q \in Entries
  BY <1>1 DEF Entries
<1> HIDE DEF q
<1>4. Numbered(q)
  BY <1>1, <1>2 DEF Numbered
<1>5. QED
  BY <1>1, <1>2, <1>3, <1>4 DEF IsEntry, Traces, Clients, q

LEMMA SettledEntry ==
  ASSUME NEW e, IsEntry(e), NEW status \in Statuses
  PROVE  LET q == [e EXCEPT !.status = status, !.queue = <<>>] IN
         IsEntry(q) /\ Traces(q) \subseteq Traces(e)
<1> DEFINE q == [e EXCEPT !.status = status, !.queue = <<>>]
<1>1. e \in Entries /\ IsFiniteSet(e.attached) /\ Numbered(e) /\ <<>> \in Seq(Conns)
  BY DEF IsEntry
<1>2. /\ q.queue = <<>> /\ q.attached = e.attached /\ q.relayed = e.relayed
      /\ q.nextId = e.nextId
  BY <1>1 DEF Entries
<1>3. q \in Entries
  BY <1>1 DEF Entries
<1> HIDE DEF q
<1>4. Numbered(q)
  BY <1>1, <1>2 DEF Numbered
<1>5. Range(q.queue) = {}
  BY <1>2 DEF Range
<1>6. QED
  BY <1>1, <1>2, <1>3, <1>4, <1>5 DEF IsEntry, Traces, Clients, q

LEMMA AnsweredEntry ==
  ASSUME NEW e, IsEntry(e), NEW gone
  PROVE  LET q == [e EXCEPT !.relayed = @ \ gone] IN IsEntry(q) /\ Traces(q) \subseteq Traces(e)
<1> DEFINE q == [e EXCEPT !.relayed = @ \ gone]
<1>1. e \in Entries /\ IsFiniteSet(e.attached) /\ Numbered(e) /\ e.relayed \ gone \in SUBSET Requests
  BY DEF IsEntry, Entries
<1>2. /\ q.queue = e.queue /\ q.attached = e.attached /\ q.relayed = e.relayed \ gone
      /\ q.nextId = e.nextId
  BY <1>1 DEF Entries
<1>3. q \in Entries
  BY <1>1 DEF Entries
<1> HIDE DEF q
<1>4. Numbered(q)
  BY <1>1, <1>2 DEF Numbered
<1>5. QED
  BY <1>1, <1>2, <1>3, <1>4 DEF IsEntry, Traces, Clients, q

-----------------------------------------------------------------------------
(* What a step of the router leaves as it was *)

LEMMA WithIs ==
  ASSUME NEW f, NEW k, NEW x
  PROVE  /\ DOMAIN With(f, k, x) = DOMAIN f \cup {k} /\ With(f, k, x)[k] = x
         /\ \A j \in DOMAIN f : j # k => With(f, k, x)[j] = f[j]
BY DEF With

LEMMA WithoutIs ==
  ASSUME NEW f, NEW gone
  PROVE  /\ DOMAIN Without(f, gone) = DOMAIN f \ gone
         /\ \A j \in DOMAIN f \ gone : Without(f, gone)[j] = f[j]
BY DEF Without, Restrict

LEMMA TouchedIs ==
  ASSUME NEW order \in Seq(Keys), Distinct(order), NEW k \in Keys
  PROVE  /\ Touched(k, order) \in Seq(Keys) /\ Distinct(Touched(k, order))
         /\ Members(Touched(k, order)) = Members(order) \cup {k}
<1> DEFINE r == Removing(order, {k})
<1>1. r \in Seq(Keys) /\ Members(r) = Members(order) \ {k} /\ Distinct(r)
  BY RemovingIs
<1> HIDE DEF r
<1>2. /\ Append(r, k) \in Seq(Keys) /\ Members(Append(r, k)) = Members(r) \cup {k}
      /\ Distinct(Append(r, k))
  BY <1>1, MembersAppend, DistinctAppend, AppendGrows
<1>3. QED
  BY <1>1, <1>2 DEF Touched, r

LEMMA OldestIs ==
  ASSUME NEW order \in Seq(Keys), Distinct(order), NEW k \in Keys, k \notin Members(order)
  PROVE  /\ <<k>> \o order \in Seq(Keys) /\ Distinct(<<k>> \o order)
         /\ Members(<<k>> \o order) = Members(order) \cup {k}
<1> DEFINE s == <<k>>
           t == s \o order
           n == Len(order)
<1>1. s \in Seq(Keys) /\ Members(s) = {k} /\ Len(s) = 1 /\ s[1] = k
  BY SequencesOf
<1> HIDE DEF s
<1>2. t \in Seq(Keys) /\ Members(t) = {k} \cup Members(order)
  BY <1>1, JoinIs
<1>3. /\ n \in Nat /\ Len(t) = 1 + n
      /\ \A i \in 1..Len(t) : \/ i = 1 /\ t[i] = k
                              \/ i > 1 /\ i - 1 \in 1..n /\ t[i] = order[i - 1]
  <2>1. /\ Len(t) = Len(s) + n /\ n \in Nat
        /\ \A i \in 1..Len(t) :
             \/ i \in 1..Len(s) /\ t[i] = s[i]
             \/ i > Len(s) /\ i - Len(s) \in 1..n /\ t[i] = order[i - Len(s)]
    <3>1. s \in Seq(Keys) /\ order \in Seq(Keys)
      BY <1>1
    <3>2. QED
      BY ONLY <3>1, MembersJoin
  <2> HIDE DEF t, n
  <2>2. \A i \in 1..1 : i = 1
    OBVIOUS
  <2>3. QED
    BY <1>1, <2>1, <2>2
<1> HIDE DEF t
<1>4. \A i \in 1..n : order[i] # k
  BY DEF Members
<1>5. Distinct(t)
  <2> SUFFICES ASSUME NEW i \in 1..Len(t), NEW j \in 1..Len(t), t[i] = t[j] PROVE i = j
    BY DEF Distinct
  <2>1. CASE i = 1 \/ j = 1
    BY <1>3, <1>4, <2>1
  <2>2. CASE i # 1 /\ j # 1
    <3>1. i - 1 \in 1..n /\ j - 1 \in 1..n /\ order[i - 1] = order[j - 1]
      BY <1>3, <2>2
    <3>2. i - 1 = j - 1
      BY <3>1 DEF Distinct
    <3>3. i \in Int /\ j \in Int
      BY <1>3
    <3> HIDE DEF n
    <3>4. QED
      BY <3>2, <3>3
  <2>3. QED
    BY <2>1, <2>2
<1>6. QED
  BY <1>2, <1>5 DEF t, s

LEMMA RecencyStep ==
  ASSUME RecencyTyped, NEW k \in Keys, Touch(k) \/ Appear(k)
  PROVE  recency' \in Seq(Keys) /\ Distinct(recency') /\ Members(recency') = DOMAIN languages \cup {k}
<1>1. CASE Touch(k)
  BY <1>1, TouchedIs DEF RecencyTyped, Touch
<1>2. CASE Appear(k) /\ Known(k)
  BY <1>2 DEF RecencyTyped, Appear, Known
<1>3. CASE Appear(k) /\ ~Known(k)
  <2>1. k \notin Members(recency) /\ recency' = <<k>> \o recency
    BY <1>3 DEF RecencyTyped, Appear, Known
  <2>2. QED
    BY <2>1, OldestIs DEF RecencyTyped
<1>4. QED
  BY <1>1, <1>2, <1>3

\* Thread t goes on to its next action, or to what it has been left to do.
Moves(t) ==
  /\ todo' \in [Threads -> Seq(Actions)]
  /\ \A u \in Threads : u # t => todo'[u] = todo[u]
  /\ \A a \in Members(todo[t]) : a = Head(todo[t]) \/ a \in Members(todo'[t])

LEMMA EmitIs ==
  ASSUME todo \in [Threads -> Seq(Actions)], NEW t \in Threads, NEW acts \in Seq(Actions), Emit(t, acts)
  PROVE  /\ Moves(t) /\ Members(acts) \subseteq Members(todo'[t])
         /\ acts = <<>> /\ todo[t] = <<>> => todo'[t] = <<>>
         /\ todo[t] = <<>> => todo'[t] = acts
         /\ todo[t] # <<>> => todo'[t] = acts \o Tail(todo[t])
<1> DEFINE q == todo[t]
           rest == IF q = <<>> THEN <<>> ELSE Tail(q)
<1>1. q \in Seq(Actions)
  OBVIOUS
<1>2. rest \in Seq(Actions) /\ \A a \in Members(q) : a = Head(q) \/ a \in Members(rest)
  <2>1. CASE q = <<>>
    BY <2>1, MembersNone
  <2>2. CASE q # <<>>
    <3> HIDE DEF q
    <3>1. Tail(q) \in Seq(Actions) /\ Members(q) = Members(Tail(q)) \cup {Head(q)}
      BY <1>1, <2>2, MembersTail, TailShrinks
    <3>2. QED
      BY <3>1, <2>2
  <2>3. QED
    BY <2>1, <2>2
<1>3. todo' = [todo EXCEPT ![t] = acts \o rest]
  BY DEF Emit
<1>4. /\ acts \o rest \in Seq(Actions) /\ Members(acts \o rest) = Members(acts) \cup Members(rest)
  <2> HIDE DEF rest
  <2>1. QED
    BY <1>2, JoinIs
<1>5. todo'[t] = acts \o rest /\ \A u \in Threads : u # t => todo'[u] = todo[u]
  BY <1>3
<1>6. todo' \in [Threads -> Seq(Actions)]
  <2> HIDE DEF rest
  <2>1. QED
    BY <1>3, <1>4
<1>7. acts \o <<>> = acts
  OBVIOUS
<1>8. Moves(t) /\ Members(acts) \subseteq Members(todo'[t])
  <2> HIDE DEF rest
  <2>1. QED
    BY <1>2, <1>4, <1>5, <1>6 DEF Moves, q
<1>9. QED
  BY <1>5, <1>7, <1>8

-----------------------------------------------------------------------------
(* Steps of the router *)

LEMMA TracesAre ==
  TracesAreOfConnections <=>
    \A k \in DOMAIN languages : \A c \in Traces(languages[k]) :
      c \in DOMAIN connectionKey /\ connectionKey[c] = k
BY DEF TracesAreOfConnections, Traces

\* A step of the router for thread t.  But for the connections in gone, whoever
\* is forgotten will be closed; nobody but those in come becomes known.
RouterStep(t, gone, come) ==
  /\ RouterTyped' /\ TracesAreOfConnections' /\ Moves(t)
  /\ \A c \in DOMAIN connectionKey :
       c \in gone \/ c \in DOMAIN connectionKey' \/ CloseClient(c) \in Members(todo'[t])
  /\ DOMAIN connectionKey' \subseteq DOMAIN connectionKey \cup come

LEMMA EntryOf ==
  ASSUME RouterTyped, TracesAreOfConnections, NEW k \in Keys
  PROVE  /\ IsEntry(Entry(k))
         /\ \A c \in Traces(Entry(k)) : c \in DOMAIN connectionKey /\ connectionKey[c] = k
<1>1. CASE Known(k)
  BY <1>1, TracesAre DEF RouterTyped, LanguagesTyped, Entry, Known
<1>2. CASE ~Known(k)
  <2>1. "NotStarted" \in Statuses
    BY DEF Statuses
  <2>2. QED
    BY <1>2, <2>1, NewEntryIs DEF Entry
<1>3. QED
  BY <1>1, <1>2

\* One entry is put, created where there was none; only its connections go.
LEMMA OneEntry ==
  ASSUME RouterTyped, TracesAreOfConnections, NEW k \in Keys, NEW e, IsEntry(e),
         Put(k, e), Touch(k) \/ Appear(k), ConnectionsTyped',
         \A c \in DOMAIN connectionKey : connectionKey[c] # k =>
           c \in DOMAIN connectionKey' /\ connectionKey'[c] = connectionKey[c],
         \A c \in Traces(e) : c \in DOMAIN connectionKey' /\ connectionKey'[c] = k
  PROVE  LanguagesTyped' /\ RecencyTyped' /\ TracesAreOfConnections'
<1>1. /\ DOMAIN languages' = DOMAIN languages \cup {k} /\ languages'[k] = e
      /\ \A j \in DOMAIN languages : j # k => languages'[j] = languages[j]
  BY DEF Put, With
<1>2. LanguagesTyped'
  BY <1>1 DEF RouterTyped, LanguagesTyped
<1>3. RecencyTyped'
  BY <1>1, RecencyStep DEF RouterTyped, RecencyTyped
<1>4. ASSUME NEW j \in DOMAIN languages', NEW c \in Traces(languages'[j])
      PROVE  c \in DOMAIN connectionKey' /\ connectionKey'[c] = j
  <2>1. CASE j = k
    BY <1>1, <1>4, <2>1
  <2>2. CASE j # k
    <3>1. j \in DOMAIN languages /\ c \in Traces(languages[j])
      BY <1>1, <1>4, <2>2
    <3>2. c \in DOMAIN connectionKey /\ connectionKey[c] = j
      BY <3>1, TracesAre
    <3>3. QED
      BY <2>2, <3>2
  <2>3. QED
    BY <2>1, <2>2
<1>5. TracesAreOfConnections'
  BY <1>4 DEF TracesAreOfConnections, Traces
<1>6. QED
  BY <1>2, <1>3, <1>5

\* The same, when every connection stays.
LEMMA OneEntryStep ==
  ASSUME RouterTyped, TracesAreOfConnections, NEW k \in Keys, NEW e, IsEntry(e),
         Put(k, e), Touch(k) \/ Appear(k), UNCHANGED connectionKey,
         \A c \in Traces(e) : c \in DOMAIN connectionKey /\ connectionKey[c] = k,
         NEW t \in Threads, NEW acts \in Seq(Actions), Emit(t, acts)
  PROVE  RouterStep(t, {}, {})
<1>1. ConnectionsTyped'
  BY DEF RouterTyped, ConnectionsTyped
<1>2. LanguagesTyped' /\ RecencyTyped' /\ TracesAreOfConnections'
  BY <1>1, OneEntry
<1>3. Moves(t)
  BY EmitIs DEF RouterTyped
<1>4. QED
  BY <1>1, <1>2, <1>3 DEF RouterTyped, RouterStep, Moves

\* The same, when nothing changes but the order of activity.
LEMMA TouchStep ==
  ASSUME RouterTyped, TracesAreOfConnections, NEW k \in DOMAIN languages,
         Touch(k) \/ UNCHANGED recency, UNCHANGED <<languages, connectionKey>>,
         NEW t \in Threads, NEW acts \in Seq(Actions), Emit(t, acts)
  PROVE  RouterStep(t, {}, {})
<1>1. LanguagesTyped' /\ ConnectionsTyped' /\ TracesAreOfConnections'
  BY DEF RouterTyped, LanguagesTyped, ConnectionsTyped, TracesAreOfConnections
<1>2. RecencyTyped'
  <2>1. k \in Keys /\ DOMAIN languages \cup {k} = DOMAIN languages /\ RecencyTyped
    BY DEF RouterTyped, LanguagesTyped
  <2>2. CASE Touch(k)
    BY <2>1, <2>2, RecencyStep DEF RecencyTyped
  <2>3. CASE UNCHANGED recency
    BY <2>1, <2>3 DEF RecencyTyped
  <2>4. QED
    BY <2>2, <2>3
<1>3. Moves(t)
  BY EmitIs DEF RouterTyped
<1>4. QED
  BY <1>1, <1>2, <1>3 DEF RouterTyped, RouterStep, Moves

\* The same, when the router is not called.
LEMMA NoCall ==
  ASSUME RouterTyped, TracesAreOfConnections, UNCHANGED <<languages, recency, connectionKey>>,
         NEW t \in Threads, NEW acts \in Seq(Actions), Emit(t, acts)
  PROVE  RouterStep(t, {}, {})
<1>1. LanguagesTyped' /\ ConnectionsTyped' /\ TracesAreOfConnections' /\ RecencyTyped'
  BY DEF RouterTyped, LanguagesTyped, ConnectionsTyped, TracesAreOfConnections, RecencyTyped
<1>2. Moves(t)
  BY EmitIs DEF RouterTyped
<1>3. QED
  BY <1>1, <1>2 DEF RouterTyped, RouterStep, Moves

\* Finitely many entries, and finitely many clients of some of them.
LEMMA FinitelyMany ==
  ASSUME RouterTyped, NEW ks \in SUBSET DOMAIN languages
  PROVE  IsFiniteSet(ks) /\ IsFiniteSet(UNION {languages[k].attached : k \in ks})
<1> DEFINE n == Len(recency)
           A == {languages[k].attached : k \in ks}
<1>1. n \in Nat /\ recency \in [1..n -> Keys] /\ Members(recency) = DOMAIN languages
  BY LenProperties, SeqDef DEF RouterTyped, RecencyTyped
<1>2. recency \in Surjection(1..n, Members(recency))
  BY <1>1 DEF Surjection, Members
<1>3. IsFiniteSet(1..n)
  BY <1>1, FS_Interval
<1>4. IsFiniteSet(DOMAIN languages)
  BY <1>1, <1>2, <1>3, FS_Surjection
<1>5. IsFiniteSet(ks)
  BY <1>4, FS_Subset
<1>6. IsFiniteSet(A)
  <2> DEFINE f == [k \in ks |-> languages[k].attached]
  <2>1. f \in Surjection(ks, A)
    BY DEF Surjection
  <2> HIDE DEF f, A
  <2>2. QED
    BY <1>5, <2>1, FS_Surjection
<1>7. \A T \in A : IsFiniteSet(T)
  BY DEF RouterTyped, LanguagesTyped, IsEntry
<1>8. IsFiniteSet(UNION A)
  <2> HIDE DEF A
  <2>1. QED
    BY <1>6, <1>7, FS_UNION
<1>9. QED
  BY <1>5, <1>8

\* Entries torn down: whoever they knew is closed.
LEMMA TornDown ==
  ASSUME RouterTyped, TracesAreOfConnections, NEW t \in Threads,
         NEW ks \in SUBSET DOMAIN languages, NEW more \in Seq(Farewells(ks)),
         TearDownEntries(t, ks, more)
  PROVE  /\ RouterStep(t, {}, {})
         /\ languages' = Without(languages, ks)
         /\ \E acts \in Seq(Farewells(ks)) : Emit(t, acts)
<1> DEFINE U == UNION {languages[k].attached : k \in ks}
           gone == UNION {Clients(languages[k]) : k \in ks}
<1>1. PICK keys \in SetToSeqs(ks), order \in SetToSeqs(U) : Emit(t, TearDownAll(keys, order) \o more)
  BY DEF TearDownEntries
<1>2. IsFiniteSet(ks) /\ IsFiniteSet(U)
  BY FinitelyMany
<1>3. /\ DOMAIN languages \subseteq Keys
      /\ \A k \in ks : IsEntry(languages[k]) /\ languages[k].attached \subseteq U
  BY DEF RouterTyped, LanguagesTyped
<1>4. U \subseteq Conns
  <2>1. \A k \in ks : languages[k].attached \subseteq Conns
    BY <1>3, EntryFields
  <2>2. QED
    BY <2>1
<1> HIDE DEF U
<1>5. keys \in Seq(ks) /\ Members(keys) = ks /\ order \in Seq(Conns) /\ Members(order) = U
  <2>1. keys \in Seq(ks) /\ Members(keys) = ks
    BY <1>2, Listing
  <2>2. order \in Seq(U) /\ Members(order) = U
    BY <1>2, Listing
  <2>3. QED
    BY <1>4, <2>1, <2>2, WiderQueues
<1> DEFINE down == TearDownAll(keys, order)
           acts == down \o more
<1>6. /\ down \in Seq(Farewells(ks))
      /\ \A k \in ks : \A c \in Clients(languages[k]) : CloseClient(c) \in Members(down)
  BY <1>3, <1>5, TearDownAllIs
<1> HIDE DEF down
<1>7. acts \in Seq(Farewells(ks)) /\ Members(acts) = Members(down) \cup Members(more)
  BY <1>6, JoinIs
<1>8. acts \in Seq(Actions) /\ Emit(t, acts)
  <2>1. ks \in SUBSET Keys
    BY <1>3
  <2>2. Seq(Farewells(ks)) \subseteq Seq(Actions)
    BY <2>1, WiderQueues, FarewellsAreActions
  <2>3. QED
    BY <1>1, <1>7, <2>2 DEF down
<1> HIDE DEF acts
<1>9. Moves(t) /\ Members(acts) \subseteq Members(todo'[t])
  BY <1>8, EmitIs DEF RouterTyped
<1>10. /\ languages' = Without(languages, ks) /\ recency' = Removing(recency, ks)
       /\ connectionKey' = Without(connectionKey, gone)
  BY DEF TearDownEntries
<1> HIDE DEF gone
<1>11. /\ DOMAIN languages' = DOMAIN languages \ ks /\ DOMAIN connectionKey' = DOMAIN connectionKey \ gone
       /\ \A k \in DOMAIN languages' : languages'[k] = languages[k]
       /\ \A c \in DOMAIN connectionKey' : connectionKey'[c] = connectionKey[c]
  BY <1>10 DEF Without, Restrict
<1>12. RecencyTyped'
  <2>1. recency \in Seq(Keys) /\ Distinct(recency) /\ Members(recency) = DOMAIN languages
    BY DEF RouterTyped, RecencyTyped
  <2> DEFINE r == Removing(recency, ks)
  <2>2. r \in Seq(Keys) /\ Distinct(r) /\ Members(r) = Members(recency) \ ks
    BY ONLY <2>1, RemovingIs
  <2>3. r = recency'
    BY <1>10
  <2> HIDE DEF r
  <2>4. QED
    BY <1>11, <2>1, <2>2, <2>3 DEF RecencyTyped
<1>13. LanguagesTyped' /\ ConnectionsTyped'
  BY <1>11 DEF RouterTyped, LanguagesTyped, ConnectionsTyped
<1>14. ASSUME NEW k \in DOMAIN languages', NEW c \in Traces(languages'[k])
       PROVE  c \in DOMAIN connectionKey' /\ connectionKey'[c] = k
  <2>1. k \in DOMAIN languages /\ k \notin ks /\ c \in Traces(languages[k])
    BY <1>11, <1>14
  <2>2. c \in DOMAIN connectionKey /\ connectionKey[c] = k
    BY <2>1, TracesAre
  <2>3. c \notin gone
    <3>1. \A j \in ks : c \in Clients(languages[j]) => connectionKey[c] = j
      BY TracesAre DEF Traces
    <3>2. QED
      BY <2>1, <2>2, <3>1 DEF gone
  <2>4. QED
    BY <1>11, <2>2, <2>3
<1>15. TracesAreOfConnections'
  BY <1>14 DEF TracesAreOfConnections, Traces
<1>16. ASSUME NEW c \in DOMAIN connectionKey, c \notin DOMAIN connectionKey'
       PROVE  CloseClient(c) \in Members(todo'[t])
  <2>1. c \in gone
    BY <1>11, <1>16
  <2>2. PICK k \in ks : c \in Clients(languages[k])
    BY <2>1 DEF gone
  <2>3. QED
    BY <1>6, <1>7, <1>9, <2>2
<1>17. RouterTyped'
  BY <1>9, <1>12, <1>13 DEF RouterTyped, Moves
<1>18. RouterStep(t, {}, {})
  BY <1>9, <1>11, <1>15, <1>16, <1>17 DEF RouterStep
<1>19. QED
  BY <1>7, <1>8, <1>10, <1>18

-----------------------------------------------------------------------------
(* The methods of the router *)

LEMMA EvictedIs ==
  ASSUME RouterTyped
  PROVE  Evicted = {} \/ \E j \in DOMAIN languages : Evicted = {j} /\ Idle(j)
<1> DEFINE First == {j \in DOMAIN recency : Idle(recency[j]) /\ \A l \in 1..j - 1 : ~Idle(recency[l])}
           E == {recency[i] : i \in First}
<1>1. Evicted = {} \/ Evicted = E
  BY DEF Evicted
<1>2. /\ DOMAIN recency = 1..Len(recency) /\ Len(recency) \in Nat
      /\ \A i \in DOMAIN recency : recency[i] \in DOMAIN languages
  BY LenProperties DEF RouterTyped, RecencyTyped, Members
<1>3. \A i, j \in First : i = j
  <2>1. ASSUME NEW i \in First, NEW j \in First, i < j PROVE FALSE
    <3>1. i \in 1..j - 1 /\ Idle(recency[i])
      BY <1>2, <2>1
    <3>2. QED
      BY <3>1, <2>1
  <2>2. \A i \in First : i \in Int
    BY <1>2
  <2> HIDE DEF First
  <2>3. QED
    BY <2>1, <2>2
<1>4. \A i \in First : recency[i] \in DOMAIN languages /\ Idle(recency[i])
  BY <1>2
<1> HIDE DEF First
<1>5. E = {} \/ \E j \in DOMAIN languages : E = {j} /\ Idle(j)
  BY <1>3, <1>4
<1>6. QED
  BY <1>1, <1>5

LEMMA EvictedActions ==
  ASSUME RouterTyped
  PROVE  TearDownAll(SetToSeq(Evicted), <<>>) \in Seq(Farewells(Evicted))
<1>1. PICK keys \in Seq(Evicted) : SetToSeq(Evicted) = keys /\ Members(keys) = Evicted
  <2>1. CASE Evicted = {}
    <3>1. <<>> \in Seq(Evicted)
      OBVIOUS
    <3>2. QED
      BY <2>1, <3>1, NoneListed, MembersNone
  <2>2. CASE Evicted # {}
    <3>1. PICK j \in DOMAIN languages : Evicted = {j}
      BY <2>2, EvictedIs
    <3>2. j \in Evicted
      BY <3>1
    <3>3. <<j>> \in Seq(Evicted) /\ Members(<<j>>) = {j}
      BY <3>2, SequencesOf
    <3>4. SetToSeq(Evicted) = <<j>>
      BY <3>1, OneListed
    <3>5. QED
      BY <3>1, <3>3, <3>4
  <2>3. QED
    BY <2>1, <2>2
<1>2. \A k \in Evicted : k \in DOMAIN languages /\ Idle(k)
  BY EvictedIs
<1>3. \A k \in Members(keys) : IsEntry(languages[k]) /\ languages[k].attached \subseteq Members(<<>>)
  BY <1>1, <1>2 DEF RouterTyped, LanguagesTyped, Idle
<1>4. <<>> \in Seq(Conns)
  OBVIOUS
<1>5. TearDownAll(keys, <<>>) \in Seq(Farewells(Evicted))
  BY <1>3, <1>4, TearDownAllIs
<1>6. QED
  BY <1>1, <1>5

LEMMA ClientAttachedStep ==
  ASSUME RouterTyped, TracesAreOfConnections, NEW t \in Threads, NEW c \in Conns, NEW k \in Keys,
         c \notin DOMAIN connectionKey, ClientAttached(t, c, k)
  PROVE  /\ RouterStep(t, {}, {c})
         /\ \/ UNCHANGED languages /\ Emit(t, <<>>)
            \/ /\ ~Known(k)
               /\ languages' = With(Without(languages, Evicted), k, NewEntry("SpawningProcess"))
               /\ \E acts \in Seq(Farewells(Evicted)) : Emit(t, acts \o <<SpawnServer(k)>>)
<1>1. /\ DOMAIN connectionKey' = DOMAIN connectionKey \cup {c} /\ connectionKey'[c] = k
      /\ \A d \in DOMAIN connectionKey : connectionKey'[d] = connectionKey[d]
  BY DEF ClientAttached, With
<1>2. ConnectionsTyped'
  BY <1>1 DEF RouterTyped, ConnectionsTyped
<1>3. CASE Known(k)
  <2>1. Touch(k) /\ Emit(t, <<>>) /\ UNCHANGED languages
    BY <1>3 DEF ClientAttached
  <2>2. LanguagesTyped'
    BY <2>1 DEF RouterTyped, LanguagesTyped
  <2>3. RecencyTyped'
    <3>1. DOMAIN languages \cup {k} = DOMAIN languages
      BY <1>3 DEF Known
    <3>2. recency' \in Seq(Keys) /\ Distinct(recency') /\ Members(recency') = DOMAIN languages \cup {k}
      BY <2>1, RecencyStep DEF RouterTyped
    <3>3. QED
      BY <2>1, <3>1, <3>2 DEF RecencyTyped
  <2>4. TracesAreOfConnections'
    BY <1>1, <2>1 DEF TracesAreOfConnections
  <2>5. Moves(t)
    BY <2>1, EmitIs, SequencesOf DEF RouterTyped
  <2>6. RouterStep(t, {}, {c})
    BY <1>1, <1>2, <2>2, <2>3, <2>4, <2>5 DEF RouterStep, RouterTyped, Moves
  <2>7. QED
    BY <2>1, <2>6
<1>4. CASE ~Known(k)
  <2> DEFINE e == NewEntry("SpawningProcess")
             down == TearDownAll(SetToSeq(Evicted), <<>>)
             acts == down \o <<SpawnServer(k)>>
             w == Without(languages, Evicted)
             r == Removing(recency, Evicted)
  <2>1. /\ languages' = With(w, k, e) /\ recency' = Touched(k, r) /\ Emit(t, acts)
    BY <1>4 DEF ClientAttached
  <2>2. down \in Seq(Farewells(Evicted))
    BY EvictedActions
  <2> HIDE DEF down
  <2>3. acts \in Seq(Actions)
    <3>1. <<SpawnServer(k)>> \in Seq(Actions)
      BY ActionsTyped, SequencesOf
    <3>2. down \in Seq(Actions)
      <4>1. Evicted \in SUBSET Keys
        BY EvictedIs DEF RouterTyped, LanguagesTyped
      <4>2. Seq(Farewells(Evicted)) \subseteq Seq(Actions)
        BY <4>1, WiderQueues, FarewellsAreActions
      <4>3. QED
        BY <2>2, <4>2
    <3>3. QED
      BY <3>1, <3>2, JoinIs
  <2> HIDE DEF acts
  <2>4. Moves(t)
    BY <2>1, <2>3, EmitIs DEF RouterTyped
  <2>5. IsEntry(e) /\ Traces(e) = {}
    <3>1. "SpawningProcess" \in Statuses
      BY DEF Statuses
    <3>2. QED
      BY <3>1, NewEntryIs
  <2> HIDE DEF e
  <2>6. DOMAIN w = DOMAIN languages \ Evicted /\ \A j \in DOMAIN w : w[j] = languages[j]
    BY DEF Without, Restrict
  <2> HIDE DEF w
  <2>7. /\ DOMAIN languages' = DOMAIN w \cup {k} /\ languages'[k] = e
        /\ \A j \in DOMAIN w : j # k => languages'[j] = w[j]
    BY <2>1 DEF With
  <2>8. LanguagesTyped'
    BY <2>5, <2>6, <2>7 DEF RouterTyped, LanguagesTyped
  <2>9. RecencyTyped'
    <3>1. recency \in Seq(Keys) /\ Distinct(recency) /\ Members(recency) = DOMAIN languages
      BY DEF RouterTyped, RecencyTyped
    <3>2. r \in Seq(Keys) /\ Distinct(r) /\ Members(r) = Members(recency) \ Evicted
      BY ONLY <3>1, RemovingIs
    <3> HIDE DEF r
    <3>3. /\ Touched(k, r) \in Seq(Keys) /\ Distinct(Touched(k, r))
          /\ Members(Touched(k, r)) = Members(r) \cup {k}
      BY ONLY <3>2, TouchedIs, k \in Keys
    <3>4. QED
      BY <2>1, <2>6, <2>7, <3>1, <3>2, <3>3 DEF RecencyTyped
  <2>10. ASSUME NEW j \in DOMAIN languages', NEW d \in Traces(languages'[j])
         PROVE  d \in DOMAIN connectionKey' /\ connectionKey'[d] = j
    <3>1. j # k
      BY <2>5, <2>7, <2>10
    <3>2. j \in DOMAIN languages /\ d \in Traces(languages[j])
      BY <2>6, <2>7, <2>10, <3>1
    <3>3. QED
      BY <1>1, <3>2, TracesAre
  <2>11. TracesAreOfConnections'
    BY <2>10 DEF TracesAreOfConnections, Traces
  <2>12. RouterStep(t, {}, {c})
    BY <1>1, <1>2, <2>8, <2>9, <2>11, <2>4 DEF RouterStep, RouterTyped, Moves
  <2>13. QED
    BY <1>4, <2>1, <2>2, <2>12 DEF e, w, acts
<1>5. QED
  BY <1>3, <1>4

LEMMA ClientInitializeStep ==
  ASSUME RouterTyped, TracesAreOfConnections, NEW t \in Threads, NEW c \in DOMAIN connectionKey,
         NEW k, k = connectionKey[c], ClientInitialize(t, c, k), Touch(k), UNCHANGED connectionKey
  PROVE  RouterStep(t, {}, {})
<1> DEFINE e == Entry(k)
           q == [e EXCEPT !.queue = Append(@, c)]
           h == AfterHandshakeStart(q)
<1>1. k \in Keys /\ c \in Conns
  BY DEF RouterTyped, ConnectionsTyped
<1>2. IsEntry(e) /\ \A d \in Traces(e) : d \in DOMAIN connectionKey /\ connectionKey[d] = k
  BY <1>1, EntryOf
<1>3. CASE e.status \in {"Ready", "Failed"}
  <2> DEFINE acts == <<SendToClient(c, InitializeReply)>>
  <2>1. Put(k, e) /\ Emit(t, acts)
    BY <1>3 DEF ClientInitialize
  <2>2. acts \in Seq(Actions)
    BY <1>1, FramesTyped, ActionsTyped, SequencesOf
  <2> HIDE DEF acts, e
  <2>3. QED
    BY <1>1, <1>2, <2>1, <2>2, OneEntryStep
<1>4. CASE e.status \notin {"Ready", "Failed"}
  <2> DEFINE acts == HandshakeStart(k, q)
  <2>1. Put(k, h) /\ Emit(t, acts)
    BY <1>4 DEF ClientInitialize
  <2> HIDE DEF e
  <2>2. IsEntry(q) /\ Traces(q) = Traces(e) \cup {c}
    BY <1>1, <1>2, QueueGrows
  <2> HIDE DEF q
  <2>3. acts \in Seq(Actions)
    <3>1. q.nextId \in Nat
      BY <2>2, EntryFields
    <3>2. SendToServer(k, Initialize(q.nextId)) \in Actions
      BY <1>1, <3>1, FramesTyped, ActionsTyped
    <3>3. QED
      BY <3>2, SequencesOf DEF HandshakeStart
  <2>4. IsEntry(h) /\ Traces(h) = Traces(e) \cup {c}
    BY <2>2, HandshakeEntry
  <2> HIDE DEF acts, h
  <2>5. QED
    BY <1>1, <1>2, <2>1, <2>3, <2>4, OneEntryStep
<1>5. QED
  BY <1>3, <1>4

LEMMA ClientInitializedStep ==
  ASSUME RouterTyped, TracesAreOfConnections, NEW t \in Threads, NEW c \in DOMAIN connectionKey,
         NEW k, k = connectionKey[c], ClientInitialized(t, c, k), Touch(k), UNCHANGED connectionKey
  PROVE  RouterStep(t, {}, {})
<1> DEFINE e == Entry(k)
           q == [e EXCEPT !.attached = @ \cup {c}]
<1>1. k \in Keys /\ c \in Conns
  BY DEF RouterTyped, ConnectionsTyped
<1>2. IsEntry(e) /\ \A d \in Traces(e) : d \in DOMAIN connectionKey /\ connectionKey[d] = k
  BY <1>1, EntryOf
<1>3. PICK g \in {e, q} : Put(k, g) /\ Emit(t, <<>>)
  BY DEF ClientInitialized
<1> HIDE DEF e
<1>4. IsEntry(q) /\ Traces(q) = Traces(e) \cup {c}
  BY <1>1, <1>2, AttachedGrows
<1> HIDE DEF q
<1>5. IsEntry(g) /\ \A d \in Traces(g) : d \in DOMAIN connectionKey /\ connectionKey[d] = k
  BY <1>2, <1>3, <1>4
<1>6. <<>> \in Seq(Actions)
  OBVIOUS
<1>7. QED
  BY <1>1, <1>3, <1>5, <1>6, OneEntryStep

LEMMA ClientTrafficStep ==
  ASSUME RouterTyped, TracesAreOfConnections, NEW t \in Threads, NEW c \in DOMAIN connectionKey,
         NEW k, k = connectionKey[c], NEW f, f.m # "notice" => f.id \in Nat,
         ClientTraffic(t, c, k, f), Touch(k), UNCHANGED connectionKey
  PROVE  RouterStep(t, {}, {})
<1> DEFINE e == Entry(k)
           q == [e EXCEPT !.relayed = @ \cup {[id |-> e.nextId, conn |-> c, orig |-> f.id]},
                          !.nextId  = e.nextId + 1]
<1>1. k \in Keys /\ c \in Conns
  BY DEF RouterTyped, ConnectionsTyped
<1>2. IsEntry(e) /\ \A d \in Traces(e) : d \in DOMAIN connectionKey /\ connectionKey[d] = k
  BY <1>1, EntryOf
<1>3. \/ Put(k, e) /\ Emit(t, <<CloseClient(c)>>)
      \/ Put(k, e) /\ Emit(t, <<SendToServer(k, Notice)>>)
      \/ f.m # "notice" /\ Put(k, q) /\ Emit(t, <<SendToServer(k, Relayed(e.nextId, <<c, f.id>>))>>)
  BY DEF ClientTraffic
<1> HIDE DEF e
<1>4. f.m # "notice" => IsEntry(q) /\ Traces(q) = Traces(e) \cup {c}
  BY <1>1, <1>2, RelayedGrows
<1> HIDE DEF q
<1>5. /\ <<CloseClient(c)>> \in Seq(Actions) /\ <<SendToServer(k, Notice)>> \in Seq(Actions)
      /\ f.m # "notice" => <<SendToServer(k, Relayed(e.nextId, <<c, f.id>>))>> \in Seq(Actions)
  <2>1. CloseClient(c) \in Actions /\ SendToServer(k, Notice) \in Actions
    BY <1>1, FramesTyped, ActionsTyped
  <2>2. ASSUME f.m # "notice" PROVE SendToServer(k, Relayed(e.nextId, <<c, f.id>>)) \in Actions
    <3>1. e.nextId \in Nat
      BY <1>2, EntryFields
    <3>2. <<c, f.id>> \in Origins
      BY <1>1, <2>2 DEF Origins
    <3>3. QED
      BY <1>1, <3>1, <3>2, FramesTyped, ActionsTyped
  <2>3. QED
    BY <2>1, <2>2, SequencesOf
<1>6. PICK g \in {e, q}, acts \in Seq(Actions) :
        /\ IsEntry(g) /\ Put(k, g) /\ Emit(t, acts)
        /\ \A d \in Traces(g) : d \in DOMAIN connectionKey /\ connectionKey[d] = k
  BY <1>2, <1>3, <1>4, <1>5
<1>7. QED
  BY <1>1, <1>6, OneEntryStep

LEMMA ClientFrameStep ==
  ASSUME RouterTyped, TracesAreOfConnections, NEW t \in Threads, NEW c, NEW f,
         f.m \in {"initialize", "initialized", "notice"} \/ f.id \in Nat, ClientFrame(t, c, f)
  PROVE  RouterStep(t, {}, {})
<1>1. CASE c \notin DOMAIN connectionKey
  <2>1. Emit(t, <<>>) /\ UNCHANGED <<languages, recency, connectionKey>>
    BY <1>1 DEF ClientFrame
  <2>2. <<>> \in Seq(Actions)
    OBVIOUS
  <2>3. QED
    BY <2>1, <2>2, NoCall
<1>2. CASE c \in DOMAIN connectionKey
  <2> DEFINE k == connectionKey[c]
  <2>1. /\ Touch(k) /\ UNCHANGED connectionKey
        /\ \/ ClientInitialize(t, c, k)
           \/ ClientInitialized(t, c, k)
           \/ f.m \notin {"initialize", "initialized"} /\ ClientTraffic(t, c, k, f)
    BY <1>2 DEF ClientFrame
  <2>2. CASE ClientInitialize(t, c, k)
    BY <1>2, <2>1, <2>2, ClientInitializeStep
  <2>3. CASE ClientInitialized(t, c, k)
    BY <1>2, <2>1, <2>3, ClientInitializedStep
  <2>4. CASE f.m \notin {"initialize", "initialized"} /\ ClientTraffic(t, c, k, f)
    <3>1. f.m # "notice" => f.id \in Nat
      BY <2>4
    <3>2. QED
      BY <1>2, <2>1, <2>4, <3>1, ClientTrafficStep
  <2>5. QED
    BY <2>1, <2>2, <2>3, <2>4
<1>3. QED
  BY <1>1, <1>2

LEMMA ClientDisconnectedStep ==
  ASSUME RouterTyped, TracesAreOfConnections, NEW t \in Threads, NEW c, ClientDisconnected(t, c)
  PROVE  RouterStep(t, {c}, {}) /\ c \notin DOMAIN connectionKey'
<1>1. Emit(t, <<>>) /\ <<>> \in Seq(Actions)
  BY DEF ClientDisconnected
<1>2. Moves(t)
  BY <1>1, EmitIs DEF RouterTyped
<1>3. CASE c \notin DOMAIN connectionKey
  <2>1. UNCHANGED <<languages, recency, connectionKey>>
    BY <1>3 DEF ClientDisconnected
  <2>2. RouterStep(t, {}, {})
    BY <1>1, <2>1, NoCall
  <2>3. QED
    BY <1>3, <2>1, <2>2 DEF RouterStep
<1>4. CASE c \in DOMAIN connectionKey
  <2> DEFINE k == connectionKey[c]
             e == Left(Entry(k), c)
  <2>1. Appear(k) /\ Put(k, e) /\ connectionKey' = Without(connectionKey, {c})
    BY <1>4 DEF ClientDisconnected
  <2>2. k \in Keys
    BY <1>4 DEF RouterTyped, ConnectionsTyped
  <2>3. /\ IsEntry(Entry(k))
        /\ \A d \in Traces(Entry(k)) : d \in DOMAIN connectionKey /\ connectionKey[d] = k
    BY <2>2, EntryOf
  <2>4. IsEntry(e) /\ Traces(e) = Traces(Entry(k)) \ {c}
    BY <2>3, LeftIs
  <2> HIDE DEF e
  <2>5. /\ DOMAIN connectionKey' = DOMAIN connectionKey \ {c}
        /\ \A d \in DOMAIN connectionKey' : connectionKey'[d] = connectionKey[d]
    BY <2>1 DEF Without, Restrict
  <2>6. ConnectionsTyped'
    BY <2>5 DEF RouterTyped, ConnectionsTyped
  <2>7. \A d \in DOMAIN connectionKey : connectionKey[d] # k =>
          d \in DOMAIN connectionKey' /\ connectionKey'[d] = connectionKey[d]
    BY <2>5
  <2>8. \A d \in Traces(e) : d \in DOMAIN connectionKey' /\ connectionKey'[d] = k
    BY <2>3, <2>4, <2>5
  <2> HIDE DEF k
  <2>9. LanguagesTyped' /\ RecencyTyped' /\ TracesAreOfConnections'
    BY <2>1, <2>2, <2>4, <2>6, <2>7, <2>8, OneEntry
  <2>10. QED
    BY <1>2, <2>5, <2>6, <2>9 DEF RouterStep, RouterTyped, Moves
<1>5. QED
  BY <1>3, <1>4

LEMMA ServerSpawnedStep ==
  ASSUME RouterTyped, TracesAreOfConnections, NEW t \in Threads, NEW k \in Keys, ServerSpawned(t, k)
  PROVE  RouterStep(t, {}, {}) /\ UNCHANGED connectionKey
<1> DEFINE e == Entry(k)
           q == [e EXCEPT !.running = TRUE]
           h == AfterHandshakeStart(q)
           acts == HandshakeStart(k, q)
<1>1. Appear(k) /\ Put(k, h) /\ Emit(t, acts) /\ UNCHANGED connectionKey
  BY DEF ServerSpawned
<1>2. IsEntry(e) /\ \A d \in Traces(e) : d \in DOMAIN connectionKey /\ connectionKey[d] = k
  BY EntryOf
<1> HIDE DEF e
<1>3. IsEntry(q) /\ Traces(q) = Traces(e)
  BY <1>2, RunningEntry
<1> HIDE DEF q
<1>4. acts \in Seq(Actions)
  <2>1. q.nextId \in Nat
    BY <1>3, EntryFields
  <2>2. SendToServer(k, Initialize(q.nextId)) \in Actions
    BY <2>1, FramesTyped, ActionsTyped
  <2>3. QED
    BY <2>2, SequencesOf DEF HandshakeStart
<1>5. IsEntry(h) /\ Traces(h) = Traces(e)
  BY <1>3, HandshakeEntry
<1> HIDE DEF acts, h
<1>6. QED
  BY <1>1, <1>2, <1>4, <1>5, OneEntryStep

\* The same frame for each of a sequence of clients.
LEMMA EachTold ==
  ASSUME NEW q \in Seq(Conns), NEW f \in ClientFrames
  PROVE  LET told == [i \in DOMAIN q |-> SendToClient(q[i], f)] IN
         told \in Seq(Actions) /\ \A i \in 1..Len(told) : told[i].do = "SendToClient" /\ told[i].frame = f
<1> DEFINE n == Len(q)
           told == [i \in DOMAIN q |-> SendToClient(q[i], f)]
<1>1. n \in Nat /\ DOMAIN q = 1..n /\ \A i \in 1..n : q[i] \in Conns
  BY LenProperties, ElementOfSeq
<1>2. \A i \in 1..n : SendToClient(q[i], f) \in Actions
  BY <1>1, ActionsTyped
<1>3. told = [i \in 1..n |-> SendToClient(q[i], f)]
  BY <1>1
<1> HIDE DEF told, n
<1>4. told \in Seq(Actions) /\ Len(told) = n /\ \A i \in 1..n : told[i] = SendToClient(q[i], f)
  BY <1>1, <1>2, <1>3
<1>5. QED
  BY <1>4 DEF SendToClient, told

LEMMA ServerSpawnFailedStep ==
  ASSUME RouterTyped, TracesAreOfConnections, NEW t \in Threads, NEW k \in Keys, ServerSpawnFailed(t, k)
  PROVE  RouterStep(t, {}, {}) /\ UNCHANGED connectionKey
<1> DEFINE e == Entry(k)
           q == [e EXCEPT !.status = "Failed", !.queue = <<>>]
           acts == FlushQueue(e)
<1>1. Appear(k) /\ Put(k, q) /\ Emit(t, acts) /\ UNCHANGED connectionKey
  BY DEF ServerSpawnFailed
<1>2. IsEntry(e) /\ \A d \in Traces(e) : d \in DOMAIN connectionKey /\ connectionKey[d] = k
  BY EntryOf
<1> HIDE DEF e
<1>3. acts \in Seq(Actions)
  <2>1. e.queue \in Seq(Conns)
    BY <1>2, EntryFields
  <2>2. QED
    BY <2>1, EachTold, FramesTyped DEF FlushQueue
<1>4. IsEntry(q) /\ Traces(q) \subseteq Traces(e)
  <2>1. "Failed" \in Statuses
    BY DEF Statuses
  <2>2. QED
    BY <1>2, <2>1, SettledEntry
<1> HIDE DEF acts, q
<1>5. \A d \in Traces(q) : d \in DOMAIN connectionKey /\ connectionKey[d] = k
  BY <1>2, <1>4
<1>6. QED
  BY <1>1, <1>3, <1>4, <1>5, OneEntryStep

LEMMA HandshakeAnsweredStep ==
  ASSUME RouterTyped, TracesAreOfConnections, NEW t \in Threads, NEW k \in DOMAIN languages,
         NEW ok, HandshakeAnswered(t, k, ok), Touch(k), UNCHANGED connectionKey
  PROVE  RouterStep(t, {}, {})
<1> DEFINE e == languages[k]
           status == IF ok THEN "Ready" ELSE "Failed"
           q == [e EXCEPT !.status = status, !.queue = <<>>]
           b == IF ok THEN <<SendToServer(k, Initialized)>> ELSE <<>>
           d == FlushQueue(e)
           acts == b \o d
<1>1. Put(k, q) /\ Emit(t, acts)
  BY DEF HandshakeAnswered
<1>2. k \in Keys /\ IsEntry(e) /\ \A c \in Traces(e) : c \in DOMAIN connectionKey /\ connectionKey[c] = k
  BY TracesAre DEF RouterTyped, LanguagesTyped
<1> HIDE DEF e
<1>3. acts \in Seq(Actions)
  <2>1. e.queue \in Seq(Conns)
    BY <1>2, EntryFields
  <2>2. d \in Seq(Actions)
    BY <2>1, EachTold, FramesTyped DEF FlushQueue
  <2>3. b \in Seq(Actions)
    BY <1>2, FramesTyped, ActionsTyped, SequencesOf
  <2> HIDE DEF b, d
  <2>4. QED
    BY <2>2, <2>3, JoinIs
<1>4. IsEntry(q) /\ Traces(q) \subseteq Traces(e)
  <2>1. status \in Statuses
    BY DEF Statuses
  <2> HIDE DEF status
  <2>2. QED
    BY <1>2, <2>1, SettledEntry
<1> HIDE DEF acts, q
<1>5. \A c \in Traces(q) : c \in DOMAIN connectionKey /\ connectionKey[c] = k
  BY <1>2, <1>4
<1>6. QED
  BY <1>1, <1>2, <1>3, <1>4, <1>5, OneEntryStep

\* An identifier is of one request at most; its answer goes to who asked.
Asked(e, id) == {p \in e.relayed : p.id = id}

AnswersTo(e, id, of) ==
  [i \in 1..Cardinality(Asked(e, id)) |->
     LET p == SetToSeq(Asked(e, id))[i] IN SendToClient(p.conn, Reply(p.orig, of))]

LEMMA AnswerTo ==
  ASSUME NEW e, IsEntry(e), NEW id, NEW of
  PROVE  \/ Asked(e, id) = {} /\ AnswersTo(e, id, of) = <<>>
         \/ \E p \in e.relayed : /\ Asked(e, id) = {p} /\ p.id = id
                                 /\ AnswersTo(e, id, of) = <<SendToClient(p.conn, Reply(p.orig, of))>>
<1> DEFINE A == Asked(e, id)
           acts == [i \in 1..Cardinality(A) |->
                      LET p == SetToSeq(A)[i] IN SendToClient(p.conn, Reply(p.orig, of))]
<1>1. acts = AnswersTo(e, id, of)
  BY DEF AnswersTo
<1>2. CASE A = {}
  <2> HIDE DEF A
  <2>1. Cardinality(A) = 0
    BY <1>2, FS_EmptySet
  <2>2. acts = <<>>
    BY <2>1
  <2>3. QED
    BY <1>1, <1>2, <2>2 DEF A
<1>3. CASE A # {}
  <2>1. PICK p \in e.relayed : p.id = id
    BY <1>3 DEF Asked
  <2>2. A = {p}
    BY <2>1 DEF IsEntry, Numbered, Asked
  <2> HIDE DEF A
  <2>3. Cardinality(A) = 1 /\ SetToSeq(A) = <<p>>
    BY <2>2, OneListed
  <2>4. acts = <<SendToClient(p.conn, Reply(p.orig, of))>>
    BY <2>3
  <2>5. QED
    BY <1>1, <2>1, <2>2, <2>4 DEF A
<1>4. QED
  BY <1>2, <1>3

LEMMA ServerReplyStep ==
  ASSUME RouterTyped, TracesAreOfConnections, NEW t \in Threads, NEW k \in DOMAIN languages,
         NEW f, f.of \in Origins, ServerReply(t, k, f), Touch(k), UNCHANGED connectionKey
  PROVE  RouterStep(t, {}, {})
<1> DEFINE e == languages[k]
           A == Asked(e, f.id)
           q == [e EXCEPT !.relayed = @ \ A]
           acts == AnswersTo(e, f.id, f.of)
<1>1. Put(k, q) /\ Emit(t, acts)
  BY DEF ServerReply, Asked, AnswersTo
<1>2. k \in Keys /\ IsEntry(e) /\ \A c \in Traces(e) : c \in DOMAIN connectionKey /\ connectionKey[c] = k
  BY TracesAre DEF RouterTyped, LanguagesTyped
<1> HIDE DEF e
<1>3. acts \in Seq(Actions)
  <2>1. \/ acts = <<>>
        \/ \E p \in e.relayed : acts = <<SendToClient(p.conn, Reply(p.orig, f.of))>>
    BY <1>2, AnswerTo
  <2> HIDE DEF acts
  <2>2. ASSUME NEW p \in e.relayed PROVE SendToClient(p.conn, Reply(p.orig, f.of)) \in Actions
    <3>1. p.conn \in Conns /\ p.orig \in Nat
      BY <1>2, EntryFields DEF Requests
    <3>2. QED
      BY <3>1, FramesTyped, ActionsTyped
  <2>3. <<>> \in Seq(Actions)
    OBVIOUS
  <2>4. QED
    BY <2>1, <2>2, <2>3, SequencesOf
<1>4. IsEntry(q) /\ Traces(q) \subseteq Traces(e)
  <2> HIDE DEF A
  <2>1. QED
    BY <1>2, AnsweredEntry
<1> HIDE DEF acts, q
<1>5. \A c \in Traces(q) : c \in DOMAIN connectionKey /\ connectionKey[c] = k
  BY <1>2, <1>4
<1>6. QED
  BY <1>1, <1>2, <1>3, <1>4, <1>5, OneEntryStep

LEMMA ServerFrameStep ==
  ASSUME RouterTyped, TracesAreOfConnections, NEW t \in Threads, NEW k, NEW f,
         f.m = "reply" => f.of \in Origins, f.m \in {"reply", "ask", "notice"}, ServerFrame(t, k, f)
  PROVE  RouterStep(t, {}, {}) /\ UNCHANGED connectionKey
<1>1. UNCHANGED connectionKey /\ <<>> \in Seq(Actions)
  BY DEF ServerFrame
<1>2. CASE ~Known(k)
  <2>1. Emit(t, <<>>) /\ UNCHANGED <<languages, recency>>
    BY <1>2 DEF ServerFrame
  <2>2. QED
    BY <1>1, <2>1, NoCall
<1>3. CASE Known(k) /\ AnswersHandshake(k, f)
  <2>1. Touch(k) /\ HandshakeAnswered(t, k, f.m = "reply" /\ f.ok)
    BY <1>3 DEF ServerFrame
  <2>2. QED
    BY <1>1, <1>3, <2>1, HandshakeAnsweredStep DEF Known
<1>4. CASE Known(k) /\ ~AnswersHandshake(k, f) /\ f.m = "reply"
  <2>1. Touch(k) /\ ServerReply(t, k, f)
    BY <1>4 DEF ServerFrame
  <2>2. QED
    BY <1>1, <1>4, <2>1, ServerReplyStep DEF Known
<1>5. CASE Known(k) /\ ~AnswersHandshake(k, f) /\ f.m = "ask"
  <2>1. Touch(k) /\ Emit(t, <<SendToServer(k, Acknowledge)>>) /\ UNCHANGED languages
    BY <1>5 DEF ServerFrame
  <2>2. k \in Keys
    BY <1>5 DEF RouterTyped, LanguagesTyped, Known
  <2>3. <<SendToServer(k, Acknowledge)>> \in Seq(Actions)
    BY <2>2, FramesTyped, ActionsTyped, SequencesOf
  <2>4. QED
    BY <1>1, <1>5, <2>1, <2>3, TouchStep DEF Known
<1>6. CASE Known(k) /\ ~AnswersHandshake(k, f) /\ f.m = "notice"
  <2>1. PICK order \in SetToSeqs(languages[k].attached) :
          Touch(k) /\ Emit(t, Broadcast(order)) /\ UNCHANGED languages
    BY <1>6 DEF ServerFrame
  <2>2. IsFiniteSet(languages[k].attached) /\ languages[k].attached \subseteq Conns
    BY <1>6, EntryFields DEF RouterTyped, LanguagesTyped, Known
  <2>3. order \in Seq(Conns)
    BY <2>2, Listing, WiderQueues
  <2>4. Broadcast(order) \in Seq(Actions)
    BY <2>3, EachTold, FramesTyped DEF Broadcast
  <2>5. QED
    BY <1>1, <1>6, <2>1, <2>4, TouchStep DEF Known
<1>7. QED
  BY <1>2, <1>3, <1>4, <1>5, <1>6

-----------------------------------------------------------------------------
(* What a step of one thread leaves the others *)

LEMMA HeadIs ==
  ASSUME todo \in [Threads -> Seq(Actions)], NEW t \in Threads, todo[t] # <<>>
  PROVE  /\ Head(todo[t]) \in Actions /\ Head(todo[t]) \in Members(todo[t])
         /\ todo[t] \in Seq(Actions)
<1> DEFINE q == todo[t]
<1>1. q \in Seq(Actions) /\ q # <<>>
  OBVIOUS
<1> HIDE DEF q
<1>2. Head(q) \in Actions /\ Head(q) \in Members(q)
  BY <1>1, MembersTail, TailShrinks
<1>3. QED
  BY <1>1, <1>2 DEF q

LEMMA TodoMembers ==
  ASSUME todo \in [Threads -> Seq(Actions)]
  PROVE  \A t \in Threads : Range(todo[t]) = Members(todo[t])
<1> SUFFICES ASSUME NEW t \in Threads PROVE Range(todo[t]) = Members(todo[t])
  OBVIOUS
<1>1. todo[t] \in Seq(Actions)
  OBVIOUS
<1>2. QED
  BY <1>1, RangeIsMembers

LEMMA NobodyIs ==
  ASSUME todo \in [Threads -> Seq(Actions)]
  PROVE  NobodyLeftOpen <=>
           \A c \in clientTransports :
             c \in DOMAIN connectionKey \/ \E t \in Threads : CloseClient(c) \in Members(todo[t])
BY TodoMembers DEF NobodyLeftOpen

LEMMA TodoMembersNext ==
  ASSUME todo' \in [Threads -> Seq(Actions)]
  PROVE  \A t \in Threads : Range(todo'[t]) = Members(todo'[t])
<1> SUFFICES ASSUME NEW t \in Threads PROVE Range(todo'[t]) = Members(todo'[t])
  OBVIOUS
<1>1. todo'[t] \in Seq(Actions)
  OBVIOUS
<1>2. QED
  BY <1>1, RangeIsMembers

LEMMA NobodyKept ==
  ASSUME RouterTyped, NobodyLeftOpen, NEW t \in Threads, NEW gone, NEW come, RouterStep(t, gone, come),
         \A c \in clientTransports' : \/ c \in DOMAIN connectionKey'
                                      \/ /\ c \in clientTransports /\ c \notin gone
                                         /\ todo[t] = <<>> \/ Head(todo[t]) # CloseClient(c)
  PROVE  NobodyLeftOpen'
<1>1. todo \in [Threads -> Seq(Actions)] /\ todo' \in [Threads -> Seq(Actions)]
  BY DEF RouterTyped, RouterStep
<1>2. SUFFICES ASSUME NEW c \in clientTransports', c \notin DOMAIN connectionKey'
               PROVE  \E u \in Threads : CloseClient(c) \in Members(todo'[u])
  BY <1>1, TodoMembersNext DEF NobodyLeftOpen
<1>3. c \in clientTransports /\ c \notin gone /\ (todo[t] = <<>> \/ Head(todo[t]) # CloseClient(c))
  BY <1>2
<1>4. CASE c \in DOMAIN connectionKey
  BY <1>2, <1>3, <1>4 DEF RouterStep
<1>5. CASE c \notin DOMAIN connectionKey
  <2>1. PICK u \in Threads : CloseClient(c) \in Members(todo[u])
    BY <1>1, <1>3, <1>5, NobodyIs
  <2>2. CASE u = t
    <3>1. todo[t] # <<>>
      BY <2>1, <2>2, MembersNone
    <3>2. CloseClient(c) \in Members(todo'[t])
      BY <1>3, <2>1, <2>2, <3>1 DEF RouterStep, Moves
    <3>3. QED
      BY <3>2
  <2>3. CASE u # t
    <3>1. todo'[u] = todo[u]
      BY <2>3 DEF RouterStep, Moves
    <3>2. QED
      BY <2>1, <3>1
  <2>4. QED
    BY <2>2, <2>3
<1>6. QED
  BY <1>4, <1>5

LEMMA HandlersKept ==
  ASSUME HandlersInv, NEW t \in Threads, t \in Conns => handler[t] # "new", NEW gone, RouterStep(t, gone, {}),
         clientTransports' \subseteq clientTransports,
         \A c \in Conns : handler'[c] = "new" => handler[c] = "new"
  PROVE  HandlersInv'
<1> SUFFICES ASSUME NEW c \in Conns, handler'[c] = "new"
             PROVE  todo'[c] = <<>> /\ c \notin DOMAIN connectionKey' /\ c \notin clientTransports'
  BY DEF HandlersInv, Done
<1>1. todo[c] = <<>> /\ c \notin DOMAIN connectionKey /\ c \notin clientTransports /\ c # t
  BY DEF HandlersInv, Done
<1>2. c \in Threads
  BY ThreadsAssumption
<1>3. todo'[c] = todo[c] /\ c \notin DOMAIN connectionKey'
  BY <1>1, <1>2 DEF RouterStep, Moves
<1>4. QED
  BY <1>1, <1>3

\* While no process is being registered, and none is by this step.
LEMMA ReadersKept ==
  ASSUME ReadersInv, NEW t \in Threads, Moves(t), holder = None,
         NEW s \in Servers, \A u \in Servers : u # s => reader'[u] = reader[u] /\ server'[u] = server[u],
         \A u \in Servers : t = u => u = s \/ reader[u] \in {"top", "leaving", "done"},
         reader'[s] \notin {"none", "created"}, server'[s].key \in Keys,
         reader'[s] \in {"reading", "ending"} => todo'[s] = <<>>
  PROVE  ReadersInv'
<1>1. ASSUME NEW u \in Servers, u # s
      PROVE  /\ reader'[u] \in {"none", "created", "reading", "ending"} => todo'[u] = <<>>
             /\ reader'[u] # "none" => server'[u].key \in Keys
             /\ reader'[u] = "none" => server'[u] = NoServer
             /\ reader'[u] # "created"
  <2>1. /\ reader[u] \in {"none", "created", "reading", "ending"} => todo[u] = <<>>
        /\ reader[u] # "none" => server[u].key \in Keys
        /\ reader[u] = "none" => server[u] = NoServer
        /\ reader[u] # "created"
    BY DEF ReadersInv, Done
  <2>2. reader'[u] = reader[u] /\ server'[u] = server[u]
    BY <1>1
  <2>3. reader[u] \in {"none", "created", "reading", "ending"} => u # t
    BY <1>1
  <2>4. u \in Threads
    BY ThreadsAssumption
  <2>5. u # t => todo'[u] = todo[u]
    BY <2>4 DEF Moves
  <2>6. QED
    BY <2>1, <2>2, <2>3, <2>5
<1>2. /\ reader'[s] \in {"none", "created", "reading", "ending"} => todo'[s] = <<>>
      /\ reader'[s] # "none" /\ reader'[s] # "created" /\ server'[s].key \in Keys
  OBVIOUS
<1>3. ASSUME NEW u \in Servers
      PROVE  /\ reader'[u] \in {"none", "created", "reading", "ending"} => todo'[u] = <<>>
             /\ reader'[u] # "none" => server'[u].key \in Keys
             /\ reader'[u] = "none" => server'[u] = NoServer
             /\ reader'[u] # "created"
  BY <1>1, <1>2
<1>4. QED
  BY <1>3 DEF ReadersInv, Done, NoServer

LEMMA ReadersSame ==
  ASSUME ReadersInv, NEW t \in Threads, Moves(t), holder = None, UNCHANGED <<reader, server>>,
         \A u \in Servers : t = u => reader[u] \in {"top", "leaving", "done"}
  PROVE  ReadersInv'
<1>1. ASSUME NEW u \in Servers
      PROVE  /\ reader[u] \in {"none", "created", "reading", "ending"} => todo'[u] = <<>>
             /\ reader[u] # "none" => server[u].key \in Keys
             /\ reader[u] = "none" => server[u] = NoServer
             /\ reader[u] # "created"
  <2>1. /\ reader[u] \in {"none", "created", "reading", "ending"} => todo[u] = <<>>
        /\ reader[u] # "none" => server[u].key \in Keys
        /\ reader[u] = "none" => server[u] = NoServer
        /\ reader[u] # "created"
    BY DEF ReadersInv, Done
  <2>2. u \in Threads
    BY ThreadsAssumption
  <2>3. u # t => todo'[u] = todo[u]
    BY <2>2 DEF Moves
  <2>4. QED
    BY <2>1, <2>3
<1>2. QED
  BY <1>1 DEF ReadersInv, Done, NoServer

-----------------------------------------------------------------------------
(* The steps of the daemon *)

\* Thread t has reached the point where it may call the router.
Active(t) ==
  /\ t \in Conns => handler[t] # "new"
  /\ \A u \in Servers : t = u => reader[u] \in {"top", "leaving", "done"}

LEMMA BusyIsActive ==
  ASSUME BrokerInv, NEW t \in Threads, todo[t] # <<>>
  PROVE  Active(t)
<1>1. HandlersInv /\ ReadersInv
  BY DEF BrokerInv, ThreadsInv
<1>2. t \in Conns => handler[t] # "new"
  BY <1>1 DEF HandlersInv, Done
<1>3. ASSUME NEW u \in Servers, t = u PROVE reader[u] \in {"top", "leaving", "done"}
  <2>1. reader[u] \notin {"none", "created", "reading", "ending"}
    BY <1>1, <1>3 DEF ReadersInv, Done
  <2>2. reader[u] \in {"none", "created", "top", "reading", "ending", "leaving", "done"}
    BY DEF BrokerInv, DaemonTyped
  <2>3. QED
    BY <2>1, <2>2
<1>4. QED
  BY <1>2, <1>3 DEF Active

\* Nothing changes of the daemon, and nobody is closed.
LEMMA QuietStep ==
  ASSUME BrokerInv, NEW t \in Threads, Active(t), RouterStep(t, {}, {}), holder = None,
         UNCHANGED <<clientTransports, serverTransports, handler, reader, holder, server>>,
         sweeping' \in BOOLEAN, ClientsTyped',
         todo[t] = <<>> \/ Head(todo[t]).do # "CloseClient"
  PROVE  BrokerInv'
<1>1. RouterTyped' /\ TracesAreOfConnections' /\ Moves(t)
  BY DEF RouterStep
<1>2. DaemonTyped'
  BY DEF BrokerInv, DaemonTyped
<1>3. HandlersInv'
  BY HandlersKept DEF BrokerInv, ThreadsInv, Active
<1>4. ReadersInv'
  BY <1>1, ReadersSame DEF BrokerInv, ThreadsInv, Active
<1>5. TransportsInv' /\ HolderInv' /\ OneReaderInv'
  BY DEF BrokerInv, ThreadsInv, TransportsInv, HolderInv, OneReaderInv
<1>6. NobodyLeftOpen'
  <2>1. \A c : todo[t] = <<>> \/ Head(todo[t]) # CloseClient(c)
    BY CloseClientIs
  <2>2. \A c \in clientTransports' : c \in clientTransports /\ c \notin {}
    OBVIOUS
  <2>3. QED
    BY <2>1, <2>2, NobodyKept DEF BrokerInv
<1>7. QED
  BY <1>1, <1>2, <1>3, <1>4, <1>5, <1>6 DEF BrokerInv, ThreadsInv

LEMMA AppliedStep ==
  ASSUME BrokerInv, NEW t \in Threads, Applied(t)
  PROVE  RouterStep(t, {}, {})
<1>1. <<>> \in Seq(Actions)
  OBVIOUS
<1>2. QED
  BY <1>1, NoCall DEF BrokerInv, Applied

LEMMA HeadFields ==
  ASSUME BrokerInv, NEW t \in Threads, NEW what, Next1(t, what)
  PROVE  /\ todo[t] # <<>> /\ Head(todo[t]).do = what /\ Active(t) /\ Head(todo[t]) \in Actions
         /\ what \in {"SpawnServer", "CloseServer"} => Head(todo[t]).key \in Keys
         /\ what = "SendToServer" => Head(todo[t]).key \in Keys /\ Head(todo[t]).frame \in ServerFrames
         /\ what = "SendToClient" => Head(todo[t]).conn \in Conns /\ Head(todo[t]).frame \in ClientFrames
<1>1. todo[t] # <<>> /\ Head(todo[t]).do = what
  BY DEF Next1, Done
<1>2. Head(todo[t]) \in Actions
  BY <1>1, HeadIs DEF BrokerInv, RouterTyped
<1>3. QED
  BY <1>1, <1>2, ActionFields, BusyIsActive

LEMMA FailToSpawnInv ==
  ASSUME BrokerInv, NEW t \in Threads, FailToSpawn(t)
  PROVE  BrokerInv'
<1> DEFINE k == Head(todo[t]).key
<1>1. /\ holder = None /\ todo[t] # <<>> /\ Head(todo[t]).do = "SpawnServer" /\ Active(t) /\ k \in Keys
      /\ ServerSpawnFailed(t, k) /\ UNCHANGED <<daemonVars, clientVars, server>>
  BY HeadFields DEF FailToSpawn, Free
<1> HIDE DEF k
<1>2. RouterStep(t, {}, {})
  BY <1>1, ServerSpawnFailedStep DEF BrokerInv
<1>3. ClientsTyped' /\ sweeping' \in BOOLEAN
  BY <1>1 DEF BrokerInv, ClientsTyped, DaemonTyped, daemonVars, clientVars
<1>4. QED
  BY <1>1, <1>2, <1>3, QuietStep DEF daemonVars

LEMMA AnswerablesTyped ==
  ASSUME NEW f \in ServerFrames
  PROVE  Answerable(f) \subseteq Answers
<1>1. <<None, 0>> \in Origins
  BY DEF Origins
<1>2. f.m = "request" => f.id \in Nat /\ f.of \in Origins
  BY DEF ServerFrames
<1>3. f.m \in {"initialize", "shutdown"} => f.id \in Nat
  BY DEF ServerFrames
<1>4. QED
  BY <1>1, <1>2, <1>3 DEF Answerable, Answers

LEMMA ReceivedIs ==
  ASSUME NEW x \in Processes, NEW f \in ServerFrames
  PROVE  /\ Received(x, f) \in Processes /\ Received(x, f).key = x.key
         /\ Received(x, f).open = x.open \cup Answerable(f)
         /\ Received(x, f).inits = x.inits + IF f.m = "initialize" THEN 1 ELSE 0
<1>1. Answerable(f) \subseteq Answers
  BY AnswerablesTyped
<1>2. x.open \cup Answerable(f) \in SUBSET Answers
  BY <1>1 DEF Processes
<1>3. x.inits + (IF f.m = "initialize" THEN 1 ELSE 0) \in Nat
  BY DEF Processes
<1>4. QED
  BY <1>2, <1>3 DEF Received, Processes

\* A step about one process, and its transport.
LEMMA ServerStep ==
  ASSUME BrokerInv, NEW t \in Threads, t \in Conns => handler[t] # "new", RouterStep(t, {}, {}),
         holder = None, UNCHANGED <<holder, handler, sweeping, clientTransports, clientVars>>,
         NEW s \in Servers, reader[s] # "none", reader'[s] \notin {"none", "created"},
         reader' \in [Servers -> {"none", "created", "top", "reading", "ending", "leaving", "done"}],
         server' \in [Servers -> Processes], server'[s].key = server[s].key,
         \A u \in Servers : u # s => reader'[u] = reader[u] /\ server'[u] = server[u],
         \A u \in Servers : t = u => u = s \/ reader[u] \in {"top", "leaving", "done"},
         reader'[s] \in {"reading", "ending"} => todo'[s] = <<>>,
         reader'[s] = "done" \/ reader[s] # "done",
         DOMAIN serverTransports' \subseteq DOMAIN serverTransports,
         serverTransports' \in [DOMAIN serverTransports' -> Servers],
         \A k \in DOMAIN serverTransports' :
           /\ serverTransports'[k] = serverTransports[k]
           /\ serverTransports[k] = s => reader'[s] \in {"top", "reading", "ending"},
         todo[t] = <<>> \/ Head(todo[t]).do # "CloseClient"
  PROVE  BrokerInv'
<1>1. RouterTyped' /\ TracesAreOfConnections' /\ Moves(t)
  BY DEF RouterStep
<1>2. DaemonTyped'
  BY DEF BrokerInv, DaemonTyped
<1>3. ClientsTyped'
  BY DEF BrokerInv, ClientsTyped, clientVars
<1>4. HandlersInv'
  BY HandlersKept DEF BrokerInv, ThreadsInv
<1>5. ReadersInv'
  <2>1. ReadersInv
    BY DEF BrokerInv, ThreadsInv
  <2>2. server'[s].key \in Keys
    BY <2>1 DEF ReadersInv
  <2>3. QED
    BY <1>1, <2>1, <2>2, ReadersKept
<1>6. TransportsInv'
  <2> SUFFICES ASSUME NEW k \in DOMAIN serverTransports'
               PROVE  LET u == serverTransports'[k] IN
                      server'[u].key = k /\ reader'[u] \in {"created", "top", "reading", "ending"}
    BY DEF TransportsInv
  <2> DEFINE u == serverTransports[k]
  <2>1. u \in Servers /\ server[u].key = k /\ reader[u] \in {"created", "top", "reading", "ending"}
    BY DEF BrokerInv, ThreadsInv, TransportsInv, DaemonTyped
  <2>2. serverTransports'[k] = u /\ (u = s => reader'[s] \in {"top", "reading", "ending"})
    OBVIOUS
  <2> HIDE DEF u
  <2>3. QED
    BY <2>1, <2>2
<1>7. HolderInv' /\ OneReaderInv'
  <2>1. HolderInv'
    BY DEF HolderInv
  <2>2. reader[s] \in {"top", "reading", "ending", "leaving", "done"}
    <3>1. /\ reader[s] \in {"none", "created", "top", "reading", "ending", "leaving", "done"}
          /\ reader[s] # "created"
      BY DEF BrokerInv, DaemonTyped, ThreadsInv, ReadersInv
    <3>2. QED
      BY <3>1
  <2>3. \A u \in Servers : server'[u].key = server[u].key
    OBVIOUS
  <2>4. \A u \in Servers : reader'[u] \in {"top", "reading", "ending", "leaving"} =>
                           reader[u] \in {"top", "reading", "ending", "leaving"}
    BY <2>2
  <2>5. OneReaderInv'
    BY <2>3, <2>4 DEF BrokerInv, ThreadsInv, OneReaderInv
  <2>6. QED
    BY <2>1, <2>5
<1>8. NobodyLeftOpen'
  <2>1. \A c : todo[t] = <<>> \/ Head(todo[t]) # CloseClient(c)
    BY CloseClientIs
  <2>2. \A c \in clientTransports' : c \in clientTransports /\ c \notin {}
    OBVIOUS
  <2>3. QED
    BY <2>1, <2>2, NobodyKept DEF BrokerInv
<1>9. QED
  BY <1>1, <1>2, <1>3, <1>4, <1>5, <1>6, <1>7, <1>8 DEF BrokerInv, ThreadsInv

LEMMA WriteToServerInv ==
  ASSUME BrokerInv, NEW t \in Threads, WriteToServer(t)
  PROVE  BrokerInv'
<1> DEFINE k == Head(todo[t]).key
           f == Head(todo[t]).frame
           s == serverTransports[k]
<1>1. /\ holder = None /\ todo[t] # <<>> /\ Head(todo[t]).do = "SendToServer" /\ Active(t)
      /\ k \in Keys /\ f \in ServerFrames
      /\ Applied(t) /\ UNCHANGED <<daemonVars, clientVars>>
  BY HeadFields DEF WriteToServer, Free
<1>2. \/ UNCHANGED server
      \/ k \in DOMAIN serverTransports /\ server' = [server EXCEPT ![s] = Received(@, f)]
  BY DEF WriteToServer
<1>3. RouterStep(t, {}, {})
  BY <1>1, AppliedStep
<1>4. ClientsTyped' /\ sweeping' \in BOOLEAN
  BY <1>1 DEF BrokerInv, ClientsTyped, DaemonTyped, daemonVars, clientVars
<1>5. CASE UNCHANGED server
  BY <1>1, <1>3, <1>4, <1>5, QuietStep DEF daemonVars
<1>6. CASE k \in DOMAIN serverTransports /\ server' = [server EXCEPT ![s] = Received(@, f)]
  <2>1. s \in Servers /\ reader[s] \in {"created", "top", "reading", "ending"} /\ server[s].key = k
    BY <1>6 DEF BrokerInv, ThreadsInv, TransportsInv, DaemonTyped
  <2> HIDE DEF k, f, s
  <2>2. server[s] \in Processes /\ server \in [Servers -> Processes]
    BY <2>1 DEF BrokerInv, DaemonTyped
  <2>3. Received(server[s], f) \in Processes /\ Received(server[s], f).key = k
    BY <1>1, <2>1, <2>2, ReceivedIs
  <2>4. /\ server' \in [Servers -> Processes] /\ server'[s].key = server[s].key
        /\ \A u \in Servers : u # s => server'[u] = server[u]
    BY <1>6, <2>1, <2>2, <2>3
  <2>5. reader' = reader /\ reader[s] # "created" /\ reader[s] # "none"
    BY <1>1, <2>1 DEF BrokerInv, ThreadsInv, ReadersInv, daemonVars
  <2>6. reader[s] \in {"reading", "ending"} => todo'[s] = <<>>
    <3>1. reader[s] \in {"reading", "ending"} => todo[s] = <<>> /\ s # t
      BY <1>1, <2>1 DEF BrokerInv, ThreadsInv, ReadersInv, Done
    <3>2. s \in Threads
      BY <2>1, ThreadsAssumption
    <3>3. QED
      BY <1>3, <3>1, <3>2 DEF RouterStep, Moves
  <2>7. /\ UNCHANGED <<holder, handler, sweeping, clientTransports, serverTransports>>
        /\ UNCHANGED clientVars
    BY <1>1 DEF daemonVars
  <2>8. /\ reader' \in [Servers -> {"none", "created", "top", "reading", "ending", "leaving", "done"}]
        /\ serverTransports' \in [DOMAIN serverTransports' -> Servers]
    BY <2>5, <2>7 DEF BrokerInv, DaemonTyped
  <2>9. QED
    BY <1>1, <1>3, <2>1, <2>4, <2>5, <2>6, <2>7, <2>8, ServerStep DEF Active
<1>7. QED
  BY <1>2, <1>5, <1>6

\* A registered process is being read.
LEMMA Registered ==
  ASSUME BrokerInv, holder = None, NEW k \in DOMAIN serverTransports
  PROVE  LET s == serverTransports[k] IN
         /\ s \in Servers /\ reader[s] \in {"top", "reading", "ending"} /\ server[s].key = k
         /\ reader[s] \in {"reading", "ending"} => todo[s] = <<>>
<1> DEFINE s == serverTransports[k]
<1>1. s \in Servers /\ reader[s] \in {"created", "top", "reading", "ending"} /\ server[s].key = k
  BY DEF BrokerInv, ThreadsInv, TransportsInv, DaemonTyped
<1> HIDE DEF s
<1>2. reader[s] # "created" /\ (reader[s] \in {"reading", "ending"} => todo[s] = <<>>)
  BY <1>1 DEF BrokerInv, ThreadsInv, ReadersInv, Done
<1>3. QED
  BY <1>1, <1>2 DEF s

LEMMA ApplyCloseServerInv ==
  ASSUME BrokerInv, NEW t \in Threads, ApplyCloseServer(t)
  PROVE  BrokerInv'
<1> DEFINE k == Head(todo[t]).key
           s == serverTransports[k]
<1>1. /\ holder = None /\ todo[t] # <<>> /\ Head(todo[t]).do = "CloseServer" /\ Active(t)
      /\ k \in Keys /\ Applied(t) /\ HangUpServer(k)
      /\ UNCHANGED <<clientTransports, handler, reader, sweeping, holder, clientVars>>
  BY HeadFields DEF ApplyCloseServer, Free
<1>2. RouterStep(t, {}, {})
  BY <1>1, AppliedStep
<1> HIDE DEF k
<1>3. CASE k \notin DOMAIN serverTransports
  <2>1. UNCHANGED <<server, serverTransports>>
    BY <1>1, <1>3 DEF HangUpServer
  <2>2. ClientsTyped' /\ sweeping' \in BOOLEAN
    BY <1>1 DEF BrokerInv, ClientsTyped, DaemonTyped, clientVars
  <2>3. QED
    BY <1>1, <1>2, <2>1, <2>2, QuietStep
<1>4. CASE k \in DOMAIN serverTransports
  <2>1. /\ s \in Servers /\ reader[s] \in {"top", "reading", "ending"}
        /\ reader[s] \in {"reading", "ending"} => todo[s] = <<>>
    BY <1>1, <1>4, Registered
  <2>2. /\ server' = [server EXCEPT ![s].closed = TRUE]
        /\ serverTransports' = Without(serverTransports, {k})
    BY <1>1, <1>4 DEF HangUpServer
  <2>3. server[s] \in Processes /\ server \in [Servers -> Processes]
    BY <2>1 DEF BrokerInv, DaemonTyped
  <2> HIDE DEF s
  <2>4. [server[s] EXCEPT !.closed = TRUE] \in Processes
    BY <2>3 DEF Processes
  <2>5. /\ server' \in [Servers -> Processes] /\ server'[s].key = server[s].key
        /\ \A u \in Servers : u # s => server'[u] = server[u]
    <3>1. server' = [server EXCEPT ![s] = [server[s] EXCEPT !.closed = TRUE]]
      BY <2>1, <2>2, <2>3
    <3>2. [server[s] EXCEPT !.closed = TRUE].key = server[s].key
      BY <2>3 DEF Processes
    <3>3. QED
      BY <2>1, <2>3, <2>4, <3>1, <3>2
  <2>6. /\ DOMAIN serverTransports' \subseteq DOMAIN serverTransports
        /\ \A j \in DOMAIN serverTransports' : serverTransports'[j] = serverTransports[j]
        /\ serverTransports' \in [DOMAIN serverTransports' -> Servers]
    BY <2>2 DEF Without, Restrict, BrokerInv, DaemonTyped
  <2>7. reader[s] \in {"reading", "ending"} => todo'[s] = <<>>
    <3>1. reader[s] \in {"reading", "ending"} => s # t
      BY <1>1, <2>1
    <3>2. s \in Threads
      BY <2>1, ThreadsAssumption
    <3>3. QED
      BY <1>2, <2>1, <3>1, <3>2 DEF RouterStep, Moves
  <2>8. reader' \in [Servers -> {"none", "created", "top", "reading", "ending", "leaving", "done"}]
    BY <1>1 DEF BrokerInv, DaemonTyped
  <2>9. QED
    BY <1>1, <1>2, <2>1, <2>5, <2>6, <2>7, <2>8, ServerStep DEF Active
<1>5. QED
  BY <1>3, <1>4

LEMMA WriteToClientInv ==
  ASSUME BrokerInv, NEW t \in Threads, WriteToClient(t)
  PROVE  BrokerInv'
<1> DEFINE c == Head(todo[t]).conn
           f == Head(todo[t]).frame
<1>1. /\ holder = None /\ todo[t] # <<>> /\ Head(todo[t]).do = "SendToClient" /\ Active(t)
      /\ c \in Conns /\ f \in ClientFrames
      /\ Applied(t) /\ UNCHANGED <<daemonVars, asked, server>>
  BY HeadFields DEF WriteToClient, Free
<1>2. RouterStep(t, {}, {})
  BY <1>1, AppliedStep
<1>3. /\ client' = client \/ client' = [client EXCEPT ![c] = "answered"]
      /\ \/ answered' = answered
         \/ f.m = "reply" /\ answered' = [answered EXCEPT ![c] = Append(@, [id |-> f.id, of |-> f.of])]
  BY DEF WriteToClient
<1> HIDE DEF c, f
<1>4. f.m = "reply" => [id |-> f.id, of |-> f.of] \in Answers
  BY <1>1 DEF ClientFrames, Answers
<1>5. answered' \in [Conns -> Seq(Answers)]
  <2>1. answered \in [Conns -> Seq(Answers)] /\ answered[c] \in Seq(Answers)
    BY <1>1 DEF BrokerInv, ClientsTyped
  <2> DEFINE x == [id |-> f.id, of |-> f.of]
  <2>2. f.m = "reply" => Append(answered[c], x) \in Seq(Answers)
    <3> HIDE DEF x
    <3>1. QED
      BY <1>4, <2>1 DEF x
  <2> HIDE DEF x
  <2>3. \/ answered' = answered
        \/ f.m = "reply" /\ answered' = [answered EXCEPT ![c] = Append(answered[c], x)]
    BY <1>3 DEF x
  <2>4. QED
    BY <2>1, <2>2, <2>3
<1>6. ClientsTyped' /\ sweeping' \in BOOLEAN
  BY <1>1, <1>3, <1>5 DEF BrokerInv, ClientsTyped, DaemonTyped, daemonVars
<1>7. QED
  BY <1>1, <1>2, <1>6, QuietStep DEF daemonVars

LEMMA ApplyCloseClientInv ==
  ASSUME BrokerInv, NEW t \in Threads, ApplyCloseClient(t)
  PROVE  BrokerInv'
<1> DEFINE c == Head(todo[t]).conn
<1>1. /\ holder = None /\ todo[t] # <<>> /\ Head(todo[t]).do = "CloseClient" /\ Active(t)
      /\ Head(todo[t]) \in Actions /\ Applied(t) /\ clientTransports' = clientTransports \ {c}
      /\ UNCHANGED <<serverTransports, handler, reader, sweeping, holder, clientVars, server>>
  BY HeadFields DEF ApplyCloseClient, Free
<1>2. RouterStep(t, {}, {})
  BY <1>1, AppliedStep
<1>3. RouterTyped' /\ TracesAreOfConnections' /\ Moves(t)
  BY <1>2 DEF RouterStep
<1>4. DaemonTyped' /\ ClientsTyped'
  BY <1>1 DEF BrokerInv, DaemonTyped, ClientsTyped, clientVars
<1>5. HandlersInv'
  BY <1>1, <1>2, HandlersKept DEF BrokerInv, ThreadsInv, Active
<1>6. ReadersInv'
  BY <1>1, <1>3, ReadersSame DEF BrokerInv, ThreadsInv, Active
<1>7. TransportsInv' /\ HolderInv' /\ OneReaderInv'
  BY <1>1 DEF BrokerInv, ThreadsInv, TransportsInv, HolderInv, OneReaderInv
<1>8. NobodyLeftOpen'
  <2>1. \A d \in clientTransports' : d \in clientTransports /\ d # c
    BY <1>1
  <2> HIDE DEF c
  <2>2. \A d : Head(todo[t]) = CloseClient(d) => d = c
    BY CloseClientIs DEF c
  <2>3. \A d \in clientTransports' : d \in clientTransports /\ d \notin {} /\ Head(todo[t]) # CloseClient(d)
    BY <2>1, <2>2
  <2>4. QED
    BY <1>2, <2>3, NobodyKept DEF BrokerInv
<1>9. QED
  BY <1>3, <1>4, <1>5, <1>6, <1>7, <1>8 DEF BrokerInv, ThreadsInv

\* It may come while another thread registers a process.
LEMMA ApplyShutdownInv ==
  ASSUME BrokerInv, NEW t \in Threads, ApplyShutdown(t)
  PROVE  BrokerInv'
<1>1. /\ todo[t] # <<>> /\ Head(todo[t]).do = "ShutdownProcess" /\ Active(t) /\ Applied(t)
      /\ UNCHANGED <<daemonVars, clientVars, server>>
  BY HeadFields DEF ApplyShutdown
<1>2. RouterStep(t, {}, {})
  BY <1>1, AppliedStep
<1>3. RouterTyped' /\ TracesAreOfConnections' /\ Moves(t)
  BY <1>2 DEF RouterStep
<1>4. DaemonTyped' /\ ClientsTyped'
  BY <1>1 DEF BrokerInv, DaemonTyped, ClientsTyped, daemonVars, clientVars
<1>5. HandlersInv'
  BY <1>1, <1>2, HandlersKept DEF BrokerInv, ThreadsInv, Active, daemonVars
<1>6. holder # None => holder \in Threads /\ holder # t /\ todo'[holder] = todo[holder]
  <2>1. holder # None => Registering(holder)
    BY DEF BrokerInv, ThreadsInv, HolderInv
  <2>2. QED
    BY <1>1, <1>3, <2>1 DEF Registering, Moves
<1>7. ReadersInv'
  <2>1. ASSUME NEW u \in Servers
        PROVE  /\ reader[u] \in {"none", "created", "reading", "ending"} => todo'[u] = <<>>
               /\ reader[u] # "none" => server[u].key \in Keys
               /\ reader[u] = "none" => server[u] = NoServer
               /\ reader[u] = "created" =>
                    /\ server[u].inits = 0 /\ server[u].open = {}
                    /\ holder # None /\ u = serverTransports[Head(todo'[holder]).key]
    <3>1. /\ reader[u] \in {"none", "created", "reading", "ending"} => todo[u] = <<>>
          /\ reader[u] # "none" => server[u].key \in Keys
          /\ reader[u] = "none" => server[u] = NoServer
          /\ reader[u] = "created" =>
               /\ server[u].inits = 0 /\ server[u].open = {}
               /\ holder # None /\ u = serverTransports[Head(todo[holder]).key]
      BY DEF BrokerInv, ThreadsInv, ReadersInv, Done
    <3>2. u \in Threads
      BY ThreadsAssumption
    <3>3. u # t => todo'[u] = todo[u]
      BY <1>3, <3>2 DEF Moves
    <3>4. QED
      BY <1>1, <1>6, <3>1, <3>3
  <2>2. UNCHANGED <<reader, server, holder, serverTransports>>
    BY <1>1 DEF daemonVars
  <2>3. QED
    BY <2>1, <2>2 DEF ReadersInv, Done, NoServer
<1>8. TransportsInv' /\ OneReaderInv'
  BY <1>1 DEF BrokerInv, ThreadsInv, TransportsInv, OneReaderInv, daemonVars
<1>9. HolderInv'
  BY <1>1, <1>6 DEF BrokerInv, ThreadsInv, HolderInv, Registering, daemonVars
<1>10. NobodyLeftOpen'
  <2>1. \A d : Head(todo[t]) # CloseClient(d)
    BY <1>1, CloseClientIs
  <2>2. \A d \in clientTransports' : d \in clientTransports /\ d \notin {}
    BY <1>1 DEF daemonVars
  <2>3. QED
    BY <1>2, <2>1, <2>2, NobodyKept DEF BrokerInv
<1>11. QED
  BY <1>3, <1>4, <1>5, <1>7, <1>8, <1>9, <1>10 DEF BrokerInv, ThreadsInv

LEMMA AttachInv ==
  ASSUME BrokerInv, NEW c \in Conns, NEW k \in Keys, Attach(c, k)
  PROVE  BrokerInv'
<1>1. /\ holder = None /\ handler[c] = "new" /\ handler' = [handler EXCEPT ![c] = "open"]
      /\ client' = [client EXCEPT ![c] = "attached"]
      /\ clientTransports' = clientTransports \cup {c} /\ ClientAttached(c, c, k)
      /\ UNCHANGED <<serverTransports, reader, sweeping, holder, asked, answered, server>>
  BY DEF Attach, Free
<1>2. todo[c] = <<>> /\ c \notin DOMAIN connectionKey /\ c \in Threads
  BY <1>1, ThreadsAssumption DEF BrokerInv, ThreadsInv, HandlersInv, Done
<1>3. RouterStep(c, {}, {c})
  BY <1>1, <1>2, ClientAttachedStep DEF BrokerInv
<1>4. RouterTyped' /\ TracesAreOfConnections' /\ Moves(c)
  BY <1>3 DEF RouterStep
<1>5. c \in DOMAIN connectionKey'
  BY <1>1 DEF ClientAttached, With
<1>6. DaemonTyped' /\ ClientsTyped'
  BY <1>1 DEF BrokerInv, DaemonTyped, ClientsTyped
<1>7. HandlersInv'
  <2> SUFFICES ASSUME NEW d \in Conns, handler'[d] = "new"
               PROVE  todo'[d] = <<>> /\ d \notin DOMAIN connectionKey' /\ d \notin clientTransports'
    BY DEF HandlersInv, Done
  <2>1. handler \in [Conns -> {"new", "open", "done"}]
    BY DEF BrokerInv, DaemonTyped
  <2>2. d # c /\ handler[d] = "new"
    BY <1>1, <2>1
  <2>3. todo[d] = <<>> /\ d \notin DOMAIN connectionKey /\ d \notin clientTransports /\ d \in Threads
    BY <2>2, ThreadsAssumption DEF BrokerInv, ThreadsInv, HandlersInv, Done
  <2>4. QED
    BY <1>1, <1>3, <2>2, <2>3 DEF RouterStep, Moves
<1>8. ReadersInv'
  <2>1. \A u \in Servers : u # c
    BY ThreadsAssumption
  <2>2. QED
    BY <1>1, <1>2, <1>4, <2>1, ReadersSame DEF BrokerInv, ThreadsInv
<1>9. TransportsInv' /\ HolderInv' /\ OneReaderInv'
  BY <1>1 DEF BrokerInv, ThreadsInv, TransportsInv, HolderInv, OneReaderInv
<1>10. NobodyLeftOpen'
  <2>1. \A d \in clientTransports' : d \in DOMAIN connectionKey' \/ (d \in clientTransports /\ d \notin {})
    BY <1>1, <1>5
  <2>2. QED
    BY <1>2, <1>3, <2>1, NobodyKept DEF BrokerInv
<1>11. QED
  BY <1>4, <1>6, <1>7, <1>8, <1>9, <1>10 DEF BrokerInv, ThreadsInv

LEMMA SaysIs ==
  ASSUME BrokerInv, NEW c \in Conns, NEW f \in Says(c)
  PROVE  /\ f.m \in {"initialize", "initialized", "notice"} \/ (f.m = "request" /\ f.id = asked[c] + 1)
         /\ asked[c] \in Nat
         /\ f.m \in {"request", "notice"} => client[c] = "ready"
<1>1. asked[c] \in Nat
  BY DEF BrokerInv, ClientsTyped
<1>2. CASE client[c] = "attached"
  BY <1>1, <1>2 DEF Says
<1>3. CASE client[c] = "answered"
  BY <1>1, <1>3 DEF Says
<1>4. CASE client[c] \notin {"attached", "answered"}
  <2>1. /\ client[c] = "ready"
        /\ f \in {[m |-> "request", id |-> asked[c] + 1], [m |-> "notice"]}
    BY <1>4 DEF Says
  <2>2. QED
    BY <1>1, <2>1
<1>5. QED
  BY <1>2, <1>3, <1>4

LEMMA ReadClientInv ==
  ASSUME BrokerInv, NEW c \in Conns, ReadClient(c)
  PROVE  BrokerInv'
<1>1. /\ holder = None /\ handler[c] = "open" /\ todo[c] = <<>>
      /\ UNCHANGED <<daemonVars, answered, server>>
  BY DEF ReadClient, Free, Done
<1>2. PICK f \in Says(c) :
        /\ client' = [client EXCEPT ![c] = IF f.m = "initialize" THEN "waiting" ELSE "ready"]
        /\ asked'  = [asked EXCEPT ![c] = @ + IF client[c] = "ready" THEN 1 ELSE 0]
        /\ ClientFrame(c, c, f)
  BY DEF ReadClient
<1>3. f.m \in {"initialize", "initialized", "notice"} \/ f.id \in Nat
  BY SaysIs
<1>4. c \in Threads /\ Active(c)
  BY <1>1, ThreadsAssumption DEF Active
<1>5. RouterStep(c, {}, {})
  BY <1>2, <1>3, <1>4, ClientFrameStep DEF BrokerInv
<1>6. ClientsTyped' /\ sweeping' \in BOOLEAN
  <2>1. (IF client[c] = "ready" THEN 1 ELSE 0) \in {0, 1}
    OBVIOUS
  <2>2. asked' \in [Conns -> Nat]
    BY <1>2, <2>1 DEF BrokerInv, ClientsTyped
  <2>3. QED
    BY <1>1, <1>2, <2>2 DEF BrokerInv, ClientsTyped, DaemonTyped, daemonVars
<1>7. QED
  BY <1>1, <1>4, <1>5, <1>6, QuietStep DEF daemonVars

LEMMA ClientEndsInv ==
  ASSUME BrokerInv, NEW c \in Conns, ClientEnds(c)
  PROVE  BrokerInv'
<1>1. /\ holder = None /\ handler[c] = "open" /\ todo[c] = <<>>
      /\ handler' = [handler EXCEPT ![c] = "done"]
      /\ clientTransports' = clientTransports \ {c} /\ ClientDisconnected(c, c)
      /\ UNCHANGED <<serverTransports, reader, sweeping, holder, clientVars, server>>
  BY DEF ClientEnds, Free, Done
<1>2. c \in Threads /\ \A u \in Servers : u # c
  BY ThreadsAssumption
<1>3. RouterStep(c, {c}, {})
  BY <1>1, <1>2, ClientDisconnectedStep DEF BrokerInv
<1>4. RouterTyped' /\ TracesAreOfConnections' /\ Moves(c)
  BY <1>3 DEF RouterStep
<1>5. DaemonTyped' /\ ClientsTyped'
  BY <1>1 DEF BrokerInv, DaemonTyped, ClientsTyped, clientVars
<1>6. HandlersInv'
  <2>1. handler \in [Conns -> {"new", "open", "done"}]
    BY DEF BrokerInv, DaemonTyped
  <2>2. \A d \in Conns : handler'[d] = "new" => handler[d] = "new"
    BY <1>1, <2>1
  <2>3. clientTransports' \subseteq clientTransports /\ handler[c] # "new"
    BY <1>1
  <2>4. QED
    BY <1>2, <1>3, <2>2, <2>3, HandlersKept DEF BrokerInv, ThreadsInv
<1>7. ReadersInv'
  BY <1>1, <1>2, <1>4, ReadersSame DEF BrokerInv, ThreadsInv
<1>8. TransportsInv' /\ HolderInv' /\ OneReaderInv'
  BY <1>1 DEF BrokerInv, ThreadsInv, TransportsInv, HolderInv, OneReaderInv
<1>9. NobodyLeftOpen'
  <2>1. \A d \in clientTransports' : d \in clientTransports /\ d \notin {c}
    BY <1>1
  <2>2. QED
    BY <1>1, <1>2, <1>3, <2>1, NobodyKept DEF BrokerInv
<1>10. QED
  BY <1>4, <1>5, <1>6, <1>7, <1>8, <1>9 DEF BrokerInv, ThreadsInv

LEMMA RouterSame ==
  ASSUME BrokerInv, UNCHANGED routerVars
  PROVE  RouterTyped' /\ TracesAreOfConnections' /\ \A t \in Threads : Moves(t) /\ RouterStep(t, {}, {})
<1>1. RouterTyped' /\ TracesAreOfConnections'
  BY DEF BrokerInv, RouterTyped, LanguagesTyped, RecencyTyped, ConnectionsTyped, TracesAreOfConnections,
         routerVars
<1>2. \A t \in Threads : Moves(t)
  BY DEF BrokerInv, RouterTyped, Moves, routerVars
<1>3. QED
  BY <1>1, <1>2 DEF RouterStep, routerVars

\* A step of the router that leaves one process, and perhaps a transport.
LEMMA ReaderStep ==
  ASSUME BrokerInv, NEW s \in Servers, RouterStep(s, {}, {}), holder = None, todo[s] = <<>>,
         UNCHANGED <<holder, handler, sweeping, clientTransports, clientVars>>,
         NEW r \in {"top", "reading", "ending", "leaving", "done"},
         reader[s] \notin {"none", "created", "done"},
         reader' = [reader EXCEPT ![s] = r], r \in {"reading", "ending"} => todo'[s] = <<>>,
         NEW x \in Processes, x.key = server[s].key, server' = [server EXCEPT ![s] = x],
         DOMAIN serverTransports' \subseteq DOMAIN serverTransports,
         \A k \in DOMAIN serverTransports' :
           /\ serverTransports'[k] = serverTransports[k]
           /\ serverTransports[k] = s => r \in {"top", "reading", "ending"},
         serverTransports' \in [DOMAIN serverTransports' -> Servers]
  PROVE  BrokerInv'
<1>1. s \in Threads /\ s \notin Conns
  BY ThreadsAssumption
<1>2. /\ reader \in [Servers -> {"none", "created", "top", "reading", "ending", "leaving", "done"}]
      /\ server \in [Servers -> Processes]
  BY DEF BrokerInv, DaemonTyped
<1>3. /\ reader' \in [Servers -> {"none", "created", "top", "reading", "ending", "leaving", "done"}]
      /\ server' \in [Servers -> Processes] /\ reader'[s] = r /\ server'[s] = x
      /\ \A u \in Servers : u # s => reader'[u] = reader[u] /\ server'[u] = server[u]
  BY <1>2
<1>4. reader'[s] \notin {"none", "created"} /\ (reader'[s] \in {"reading", "ending"} => todo'[s] = <<>>)
  BY <1>3
<1>5. \A k \in DOMAIN serverTransports' :
        /\ serverTransports'[k] = serverTransports[k]
        /\ serverTransports[k] = s => reader'[s] \in {"top", "reading", "ending"}
  BY <1>3
<1>6. /\ reader[s] # "none" /\ reader[s] # "done" /\ server'[s].key = server[s].key
      /\ \A u \in Servers : s = u => u = s \/ reader[u] \in {"top", "leaving", "done"}
  BY <1>3
<1>7. QED
  BY <1>1, <1>3, <1>4, <1>5, <1>6, ServerStep

LEMMA SameTransports ==
  ASSUME BrokerInv, UNCHANGED serverTransports
  PROVE  /\ DOMAIN serverTransports' \subseteq DOMAIN serverTransports
         /\ serverTransports' \in [DOMAIN serverTransports' -> Servers]
         /\ \A k \in DOMAIN serverTransports' : serverTransports'[k] = serverTransports[k]
BY DEF BrokerInv, DaemonTyped

LEMMA ReaderTopInv ==
  ASSUME BrokerInv, NEW s \in Servers, ReaderTop(s)
  PROVE  BrokerInv'
<1> DEFINE r == IF server[s].key \in DOMAIN serverTransports THEN "reading" ELSE "ending"
           x == server[s]
<1>1. /\ holder = None /\ reader[s] = "top" /\ todo[s] = <<>> /\ reader' = [reader EXCEPT ![s] = r]
      /\ UNCHANGED routerVars /\ UNCHANGED serverTransports /\ UNCHANGED server
      /\ UNCHANGED <<holder, handler, sweeping, clientTransports, clientVars>>
  BY DEF ReaderTop, Free, Done
<1>2. s \in Threads /\ RouterStep(s, {}, {}) /\ todo' = todo
  BY <1>1, RouterSame, ThreadsAssumption DEF routerVars
<1>3. r \in {"reading", "ending"}
  OBVIOUS
<1>4. x \in Processes /\ server' = [server EXCEPT ![s] = x]
  BY <1>1 DEF BrokerInv, DaemonTyped
<1> HIDE DEF r
<1>5. /\ DOMAIN serverTransports' \subseteq DOMAIN serverTransports
      /\ serverTransports' \in [DOMAIN serverTransports' -> Servers]
      /\ \A k \in DOMAIN serverTransports' : serverTransports'[k] = serverTransports[k]
  BY <1>1, SameTransports
<1>6. /\ r \in {"top", "reading", "ending", "leaving", "done"} /\ reader[s] \notin {"none", "created", "done"}
      /\ todo'[s] = <<>> /\ x.key = server[s].key
      /\ \A k \in DOMAIN serverTransports' :
           /\ serverTransports'[k] = serverTransports[k]
           /\ serverTransports[k] = s => r \in {"top", "reading", "ending"}
  BY <1>1, <1>2, <1>3, <1>5
<1> HIDE DEF x
<1>7. UNCHANGED <<holder, handler, sweeping, clientTransports, clientVars>> /\ holder = None /\ todo[s] = <<>>
  BY <1>1
<1>8. reader' = [reader EXCEPT ![s] = r] /\ RouterStep(s, {}, {})
  BY <1>1, <1>2
<1>9. QED
  BY <1>4, <1>5, <1>6, <1>7, <1>8, ReaderStep

LEMMA ServerSaysIs ==
  ASSUME NEW s \in Servers, server[s] \in Processes, NEW f \in ServerSays(s)
  PROVE  /\ f.m \in {"reply", "ask", "notice"}
         /\ f.m = "reply" => f.of \in Origins /\ \E q \in server[s].open : f.id = q.id /\ f.of = q.of
<1>1. server[s].open \subseteq Answers
  BY DEF Processes
<1>2. CASE \E q \in server[s].open, ok \in BOOLEAN : f = [m |-> "reply", id |-> q.id, of |-> q.of, ok |-> ok]
  <2>1. PICK q \in server[s].open, ok \in BOOLEAN : f = [m |-> "reply", id |-> q.id, of |-> q.of, ok |-> ok]
    BY <1>2
  <2>2. f.m = "reply" /\ f.id = q.id /\ f.of = q.of
    BY <2>1
  <2>3. q.of \in Origins
    BY <1>1 DEF Answers
  <2>4. QED
    BY <2>2, <2>3
<1>3. CASE f \in {[m |-> "ask", id |-> id] : id \in {0, 1}} \cup {[m |-> "notice"]}
  BY <1>3
<1>4. QED
  BY <1>2, <1>3 DEF ServerSays

LEMMA ReadServerInv ==
  ASSUME BrokerInv, NEW s \in Servers, ReadServer(s)
  PROVE  BrokerInv'
<1>1. /\ holder = None /\ reader[s] = "reading" /\ reader' = [reader EXCEPT ![s] = "top"]
      /\ UNCHANGED <<clientTransports, serverTransports, handler, sweeping, holder, clientVars>>
  BY DEF ReadServer, Free
<1>2. PICK f \in ServerSays(s) :
        /\ server' = [server EXCEPT ![s].open = {q \in @ : f.m # "reply" \/ q.id # f.id \/ q.of # f.of}]
        /\ ServerFrame(s, server[s].key, f)
  BY DEF ReadServer
<1>3. s \in Threads /\ todo[s] = <<>> /\ server[s] \in Processes /\ server \in [Servers -> Processes]
  BY <1>1, ThreadsAssumption DEF BrokerInv, ThreadsInv, ReadersInv, DaemonTyped, Done
<1>4. RouterStep(s, {}, {})
  BY <1>2, <1>3, ServerSaysIs, ServerFrameStep DEF BrokerInv
<1> DEFINE o == {q \in server[s].open : f.m # "reply" \/ q.id # f.id \/ q.of # f.of}
           x == [server[s] EXCEPT !.open = o]
<1>5. server' = [server EXCEPT ![s] = x]
  BY <1>2, <1>3
<1>6. o \in SUBSET Answers
  BY <1>3 DEF Processes
<1> HIDE DEF o
<1>7. x \in Processes /\ x.key = server[s].key
  BY <1>3, <1>6 DEF Processes
<1> HIDE DEF x
<1>8. /\ DOMAIN serverTransports' \subseteq DOMAIN serverTransports
      /\ serverTransports' \in [DOMAIN serverTransports' -> Servers]
      /\ \A k \in DOMAIN serverTransports' : serverTransports'[k] = serverTransports[k]
  BY <1>1, SameTransports
<1>9. QED
  BY <1>1, <1>3, <1>4, <1>5, <1>7, <1>8, ReaderStep

LEMMA HangUpIs ==
  ASSUME BrokerInv, holder = None, NEW s \in Servers, HangUpServer(server[s].key),
         reader[s] \in {"reading", "ending"}
  PROVE  /\ DOMAIN serverTransports' \subseteq DOMAIN serverTransports
         /\ serverTransports' \in [DOMAIN serverTransports' -> Servers]
         /\ \A k \in DOMAIN serverTransports' :
              serverTransports'[k] = serverTransports[k] /\ serverTransports[k] # s
         /\ \E x \in Processes : /\ x.key = server[s].key /\ x.inits = server[s].inits
                                 /\ x.open = server[s].open
                                 /\ server' = [server EXCEPT ![s] = x]
<1> DEFINE k == server[s].key
           y == [server[s] EXCEPT !.closed = TRUE]
<1>1. \A j \in DOMAIN serverTransports : serverTransports[j] = s => j = k
  BY Registered
<1>2. serverTransports \in [DOMAIN serverTransports -> Servers] /\ server \in [Servers -> Processes]
  BY DEF BrokerInv, DaemonTyped
<1>3. k \in DOMAIN serverTransports => serverTransports[k] = s
  <2> SUFFICES ASSUME k \in DOMAIN serverTransports PROVE serverTransports[k] = s
    OBVIOUS
  <2> DEFINE u == serverTransports[k]
  <2>1. u \in Servers /\ reader[u] \in {"top", "reading", "ending"} /\ server[u].key = k
    BY Registered
  <2> HIDE DEF u
  <2>2. u = s
    BY <2>1 DEF BrokerInv, ThreadsInv, OneReaderInv
  <2>3. QED
    BY <2>2 DEF u
<1>4. \/ /\ k \notin DOMAIN serverTransports /\ serverTransports' = serverTransports
         /\ server' = server
      \/ /\ k \in DOMAIN serverTransports /\ serverTransports' = Without(serverTransports, {k})
         /\ server' = [server EXCEPT ![serverTransports[k]].closed = TRUE]
  BY DEF HangUpServer
<1>5. \/ server' = [server EXCEPT ![s] = server[s]]
      \/ server' = [server EXCEPT ![s] = y]
  BY <1>2, <1>3, <1>4
<1>6. /\ y \in Processes /\ y.key = server[s].key /\ y.inits = server[s].inits /\ y.open = server[s].open
      /\ server[s] \in Processes
  BY <1>2 DEF Processes
<1> HIDE DEF k, y
<1>7. \E x \in Processes : /\ x.key = server[s].key /\ x.inits = server[s].inits
                           /\ x.open = server[s].open /\ server' = [server EXCEPT ![s] = x]
  BY <1>5, <1>6
<1>8. /\ DOMAIN serverTransports' \subseteq DOMAIN serverTransports /\ k \notin DOMAIN serverTransports'
      /\ \A j \in DOMAIN serverTransports' : serverTransports'[j] = serverTransports[j]
  BY <1>4 DEF Without, Restrict
<1>9. serverTransports' \in [DOMAIN serverTransports' -> Servers]
  BY <1>2, <1>4 DEF Without, Restrict
<1>10. QED
  BY <1>1, <1>7, <1>8, <1>9

LEMMA ForgetServerInv ==
  ASSUME BrokerInv, NEW s \in Servers, ForgetServer(s)
  PROVE  BrokerInv'
<1>1. /\ holder = None /\ reader[s] \in {"reading", "ending"}
      /\ reader' = [reader EXCEPT ![s] = "leaving"] /\ HangUpServer(server[s].key)
      /\ TearDownEntries(s, {server[s].key} \cap DOMAIN languages, <<>>)
      /\ UNCHANGED <<clientTransports, handler, sweeping, holder, clientVars>>
  BY DEF ForgetServer, Free, ServerDisconnected
<1>2. s \in Threads /\ todo[s] = <<>>
  BY <1>1, ThreadsAssumption DEF BrokerInv, ThreadsInv, ReadersInv, Done
<1>3. RouterStep(s, {}, {})
  <2> DEFINE ks == {server[s].key} \cap DOMAIN languages
  <2>1. ks \in SUBSET DOMAIN languages /\ <<>> \in Seq(Farewells(ks))
    OBVIOUS
  <2>2. TearDownEntries(s, ks, <<>>)
    BY <1>1
  <2> HIDE DEF ks
  <2>3. QED
    BY <1>2, <2>1, <2>2, TornDown DEF BrokerInv
<1>4. PICK x \in Processes : x.key = server[s].key /\ server' = [server EXCEPT ![s] = x]
  BY <1>1, HangUpIs
<1>5. /\ DOMAIN serverTransports' \subseteq DOMAIN serverTransports
      /\ serverTransports' \in [DOMAIN serverTransports' -> Servers]
      /\ \A k \in DOMAIN serverTransports' :
           serverTransports'[k] = serverTransports[k] /\ serverTransports[k] # s
  BY <1>1, HangUpIs
<1>6. QED
  BY <1>1, <1>2, <1>3, <1>4, <1>5, ReaderStep

LEMMA ServerReaderFinishedInv ==
  ASSUME BrokerInv, NEW s \in Servers, ServerReaderFinished(s)
  PROVE  BrokerInv'
<1> DEFINE x == [server[s] EXCEPT !.alive = FALSE, !.open = {}]
<1>1. /\ holder = None /\ reader[s] = "leaving" /\ todo[s] = <<>>
      /\ reader' = [reader EXCEPT ![s] = "done"]
      /\ server' = [server EXCEPT ![s].alive = FALSE, ![s].open = {}]
      /\ UNCHANGED routerVars /\ UNCHANGED serverTransports
      /\ UNCHANGED <<clientTransports, handler, sweeping, holder, clientVars>>
  BY DEF ServerReaderFinished, Free, Done
<1>2. s \in Threads /\ RouterStep(s, {}, {}) /\ todo' = todo
  BY <1>1, RouterSame, ThreadsAssumption DEF routerVars
<1>3. server[s] \in Processes /\ server \in [Servers -> Processes]
  BY DEF BrokerInv, DaemonTyped
<1>4. x \in Processes /\ x.key = server[s].key /\ server' = [server EXCEPT ![s] = x]
  <2>1. {} \in SUBSET Answers
    OBVIOUS
  <2>2. x \in Processes /\ x.key = server[s].key
    BY <1>3, <2>1 DEF Processes
  <2>3. QED
    BY <1>1, <1>3, <2>2
<1> HIDE DEF x
<1>5. /\ DOMAIN serverTransports' \subseteq DOMAIN serverTransports
      /\ serverTransports' \in [DOMAIN serverTransports' -> Servers]
      /\ \A k \in DOMAIN serverTransports' : serverTransports'[k] = serverTransports[k]
  BY <1>1, SameTransports
<1>6. \A k \in DOMAIN serverTransports : serverTransports[k] # s
  <2>1. \A k \in DOMAIN serverTransports : reader[serverTransports[k]] \in {"top", "reading", "ending"}
    BY <1>1, Registered
  <2>2. reader[s] \notin {"top", "reading", "ending"}
    BY <1>1
  <2>3. \A k \in DOMAIN serverTransports : serverTransports[k] = s => reader[s] = reader[serverTransports[k]]
    OBVIOUS
  <2>4. QED
    BY ONLY <2>1, <2>2, <2>3
<1>7. \A k \in DOMAIN serverTransports' :
        serverTransports'[k] = serverTransports[k]
        /\ (serverTransports[k] = s => "done" \in {"top", "reading", "ending"})
  BY <1>5, <1>6
<1>8. "done" \in {"top", "reading", "ending", "leaving", "done"} /\ "done" \notin {"reading", "ending"}
  OBVIOUS
<1>9. reader[s] \notin {"none", "created", "done"}
  BY <1>1
<1>10. UNCHANGED <<holder, handler, sweeping, clientTransports, clientVars>>
  BY <1>1
<1>11. QED
  BY ONLY BrokerInv, s \in Servers, <1>1, <1>2, <1>4, <1>5, <1>7, <1>8, <1>9, <1>10, ReaderStep

LEMMA ServerExitsInv ==
  ASSUME BrokerInv, NEW s \in Servers, ServerExits(s)
  PROVE  BrokerInv'
<1> DEFINE x == [server[s] EXCEPT !.alive = FALSE]
<1>1. /\ server[s].alive /\ server' = [server EXCEPT ![s].alive = FALSE]
      /\ UNCHANGED routerVars /\ UNCHANGED daemonVars /\ UNCHANGED clientVars
  BY DEF ServerExits
<1>2. server[s] \in Processes /\ server \in [Servers -> Processes]
  BY DEF BrokerInv, DaemonTyped
<1>3. /\ x \in Processes /\ x.key = server[s].key /\ x.inits = server[s].inits
      /\ x.open = server[s].open /\ server' = [server EXCEPT ![s] = x]
  BY <1>1, <1>2 DEF Processes
<1>4. reader[s] # "none"
  <2>1. NoServer.alive = FALSE
    BY DEF NoServer
  <2>2. QED
    BY <1>1, <2>1 DEF BrokerInv, ThreadsInv, ReadersInv
<1> HIDE DEF x
<1>5. /\ server' \in [Servers -> Processes]
      /\ \A u \in Servers : /\ server'[u].key = server[u].key /\ server'[u].inits = server[u].inits
                            /\ server'[u].open = server[u].open
                            /\ u # s => server'[u] = server[u]
  BY <1>2, <1>3
<1>6. /\ RouterTyped' /\ TracesAreOfConnections' /\ todo' = todo /\ connectionKey' = connectionKey
  BY <1>1, RouterSame DEF routerVars
<1>7. DaemonTyped' /\ ClientsTyped'
  BY <1>1, <1>5 DEF BrokerInv, DaemonTyped, ClientsTyped, daemonVars, clientVars
<1>8. HandlersInv' /\ HolderInv'
  BY <1>1, <1>6 DEF BrokerInv, ThreadsInv, HandlersInv, HolderInv, Registering, Done, daemonVars
<1>9. ReadersInv'
  <2>1. UNCHANGED <<reader, holder, serverTransports, todo>>
    BY <1>1, <1>6 DEF daemonVars
  <2>2. QED
    BY <1>4, <1>5, <2>1 DEF BrokerInv, ThreadsInv, ReadersInv, Done, NoServer
<1>10. TransportsInv' /\ OneReaderInv'
  <2>1. UNCHANGED <<reader, serverTransports>>
    BY <1>1 DEF daemonVars
  <2>2. OneReaderInv'
    BY <1>5, <2>1 DEF BrokerInv, ThreadsInv, OneReaderInv
  <2>3. \A k \in DOMAIN serverTransports : serverTransports[k] \in Servers
    BY DEF BrokerInv, DaemonTyped
  <2>4. TransportsInv'
    BY <1>5, <2>1, <2>3 DEF BrokerInv, ThreadsInv, TransportsInv
  <2>5. QED
    BY <2>2, <2>4
<1>11. NobodyLeftOpen'
  BY <1>1, <1>6 DEF BrokerInv, NobodyLeftOpen, daemonVars
<1>12. QED
  BY <1>6, <1>7, <1>8, <1>9, <1>10, <1>11 DEF BrokerInv, ThreadsInv

LEMMA ClientGoesInv ==
  ASSUME BrokerInv, NEW c \in Conns, ClientGoes(c)
  PROVE  BrokerInv'
<1>1. /\ client' = [client EXCEPT ![c] = "gone"] /\ UNCHANGED <<asked, answered, server>>
      /\ UNCHANGED routerVars /\ UNCHANGED daemonVars
  BY DEF ClientGoes
<1>2. /\ RouterTyped' /\ TracesAreOfConnections' /\ todo' = todo /\ connectionKey' = connectionKey
  BY <1>1, RouterSame DEF routerVars
<1>3. DaemonTyped' /\ ClientsTyped'
  BY <1>1 DEF BrokerInv, DaemonTyped, ClientsTyped, daemonVars
<1>4. ThreadsInv'
  <2>1. UNCHANGED <<handler, connectionKey, clientTransports, todo, reader, server, serverTransports, holder>>
    BY <1>1, <1>2 DEF daemonVars
  <2>2. HandlersInv' /\ HolderInv'
    BY <2>1 DEF BrokerInv, ThreadsInv, HandlersInv, HolderInv, Registering, Done
  <2>3. ReadersInv'
    BY <2>1 DEF BrokerInv, ThreadsInv, ReadersInv, Done, NoServer
  <2>4. TransportsInv' /\ OneReaderInv'
    BY <2>1 DEF BrokerInv, ThreadsInv, TransportsInv, OneReaderInv
  <2>5. QED
    BY <2>2, <2>3, <2>4 DEF ThreadsInv
<1>5. NobodyLeftOpen'
  BY <1>1, <1>2 DEF BrokerInv, NobodyLeftOpen, daemonVars
<1>6. QED
  BY <1>2, <1>3, <1>4, <1>5 DEF BrokerInv

LEMMA TearDownInv ==
  ASSUME BrokerInv, holder = None, NEW ks \in SUBSET DOMAIN languages, NEW more \in Seq(Farewells(ks)),
         TearDownEntries(Sweeper, ks, more), todo[Sweeper] = <<>>, sweeping' \in BOOLEAN,
         UNCHANGED <<clientTransports, serverTransports, handler, reader, holder, clientVars, server>>
  PROVE  BrokerInv'
<1>1. Sweeper \in Threads /\ Active(Sweeper)
  BY ThreadsAssumption DEF Active
<1>2. RouterStep(Sweeper, {}, {})
  BY <1>1, TornDown DEF BrokerInv
<1>3. ClientsTyped'
  BY DEF BrokerInv, ClientsTyped, clientVars
<1>4. QED
  BY <1>1, <1>2, <1>3, QuietStep

\* The keys with an entry that the sweep picks.
LEMMA SweptAre ==
  ASSUME BrokerInv, NEW n \in 1..Len(recency)
  PROVE  {recency[i] : i \in {j \in 1..n : Idle(recency[j])}} \subseteq DOMAIN languages
<1>1. Len(recency) \in Nat /\ \A i \in 1..Len(recency) : recency[i] \in DOMAIN languages
  BY LenProperties DEF BrokerInv, RouterTyped, RecencyTyped, Members
<1>2. \A i \in 1..n : i \in 1..Len(recency)
  BY <1>1
<1>3. QED
  BY <1>1, <1>2

LEMMA SweepInv ==
  ASSUME BrokerInv, Sweep
  PROVE  BrokerInv'
<1>1. PICK n \in 1..Len(recency) : IdleSweep(Sweeper, n)
  BY DEF Sweep
<1> DEFINE ks == {recency[i] : i \in {j \in 1..n : Idle(recency[j])}}
<1>2. ks \subseteq DOMAIN languages
  BY SweptAre
<1>3. TearDownEntries(Sweeper, ks, <<>>)
  BY <1>1 DEF IdleSweep
<1> HIDE DEF ks
<1>4. <<>> \in Seq(Farewells(ks))
  OBVIOUS
<1>5. /\ holder = None /\ todo[Sweeper] = <<>>
      /\ UNCHANGED <<clientTransports, serverTransports, handler, reader, holder, clientVars, server>>
      /\ sweeping' = sweeping
  BY DEF Sweep, Free, Done, daemonVars
<1>6. sweeping' \in BOOLEAN
  BY <1>5 DEF BrokerInv, DaemonTyped
<1>7. QED
  BY <1>2, <1>3, <1>4, <1>5, <1>6, TearDownInv

LEMMA StopDaemonInv ==
  ASSUME BrokerInv, StopDaemon
  PROVE  BrokerInv'
<1> DEFINE ks == DOMAIN languages
<1>1. TearDownEntries(Sweeper, ks, <<ShutdownProcess>>)
  BY DEF StopDaemon, Shutdown
<1>2. ks \in SUBSET DOMAIN languages
  OBVIOUS
<1> HIDE DEF ks
<1>3. <<ShutdownProcess>> \in Seq(Farewells(ks))
  BY FarewellsTyped, SequencesOf
<1>4. /\ holder = None /\ todo[Sweeper] = <<>> /\ sweeping' \in BOOLEAN
      /\ UNCHANGED <<clientTransports, serverTransports, handler, reader, holder, clientVars, server>>
  BY DEF StopDaemon, Free, Done
<1>5. QED
  BY <1>1, <1>2, <1>3, <1>4, TearDownInv

LEMMA RegisterServerInv ==
  ASSUME BrokerInv, NEW t \in Threads, RegisterServer(t)
  PROVE  BrokerInv'
<1> DEFINE k == Head(todo[t]).key
           x(s) == [NoServer EXCEPT !.key = k, !.alive = TRUE]
<1>1. /\ holder = None /\ todo[t] # <<>> /\ Head(todo[t]).do = "SpawnServer" /\ k \in Keys
      /\ holder' = t /\ UNCHANGED routerVars
      /\ UNCHANGED <<clientTransports, handler, sweeping, clientVars>>
  BY HeadFields DEF RegisterServer, Free
<1>2. PICK s \in Servers :
        /\ reader[s] = "none" /\ server' = [server EXCEPT ![s] = x(s)]
        /\ serverTransports' = With(serverTransports, k, s)
        /\ reader' = [reader EXCEPT ![s] = "created"]
  BY DEF RegisterServer
<1>3. /\ x(s) \in Processes /\ x(s).key = k /\ x(s).inits = 0 /\ x(s).open = {}
  BY <1>1 DEF NoServer, Processes
<1>4. /\ server \in [Servers -> Processes]
      /\ reader \in [Servers -> {"none", "created", "top", "reading", "ending", "leaving", "done"}]
      /\ serverTransports \in [DOMAIN serverTransports -> Servers] /\ DOMAIN serverTransports \subseteq Keys
  BY DEF BrokerInv, DaemonTyped
<1> DEFINE y == x(s)
<1> HIDE DEF x
<1>5. /\ server' \in [Servers -> Processes]
      /\ reader' \in [Servers -> {"none", "created", "top", "reading", "ending", "leaving", "done"}]
      /\ server'[s] = x(s) /\ reader'[s] = "created"
      /\ \A u \in Servers : u # s => server'[u] = server[u] /\ reader'[u] = reader[u]
  BY <1>2, <1>3, <1>4
<1>6. /\ DOMAIN serverTransports' = DOMAIN serverTransports \cup {k} /\ serverTransports'[k] = s
      /\ \A j \in DOMAIN serverTransports : j # k => serverTransports'[j] = serverTransports[j]
      /\ serverTransports' \in [DOMAIN serverTransports' -> Servers]
  BY <1>2, <1>4 DEF With
<1>7. /\ RouterTyped' /\ TracesAreOfConnections' /\ todo' = todo /\ connectionKey' = connectionKey
  BY <1>1, RouterSame DEF routerVars
<1>8. DaemonTyped' /\ ClientsTyped'
  BY <1>1, <1>4, <1>5, <1>6 DEF BrokerInv, DaemonTyped, ClientsTyped, clientVars
<1>9. HandlersInv'
  BY <1>1, <1>7 DEF BrokerInv, ThreadsInv, HandlersInv, Done
<1>10. todo'[holder'] = todo[t] /\ holder' # None
  BY <1>1, <1>7, ThreadsAssumption
<1>11. ReadersInv'
  <2>1. ASSUME NEW u \in Servers
        PROVE  /\ reader'[u] \in {"none", "created", "reading", "ending"} => todo'[u] = <<>>
               /\ reader'[u] # "none" => server'[u].key \in Keys
               /\ reader'[u] = "none" => server'[u] = NoServer
               /\ reader'[u] = "created" =>
                    /\ server'[u].inits = 0 /\ server'[u].open = {}
                    /\ holder' # None /\ u = serverTransports'[Head(todo'[holder']).key]
    <3>1. /\ reader[u] \in {"none", "created", "reading", "ending"} => todo[u] = <<>>
          /\ reader[u] # "none" => server[u].key \in Keys
          /\ reader[u] = "none" => server[u] = NoServer
          /\ reader[u] # "created"
      BY <1>1 DEF BrokerInv, ThreadsInv, ReadersInv, Done
    <3>2. CASE u = s
      BY <1>1, <1>2, <1>3, <1>5, <1>6, <1>7, <1>10, <3>1, <3>2
    <3>3. CASE u # s
      BY <1>5, <1>7, <3>1, <3>3
    <3>4. QED
      BY <3>2, <3>3
  <2>2. QED
    BY <2>1 DEF ReadersInv, Done, NoServer
<1>12. TransportsInv'
  <2> SUFFICES ASSUME NEW j \in DOMAIN serverTransports'
               PROVE  LET u == serverTransports'[j] IN
                      server'[u].key = j /\ reader'[u] \in {"created", "top", "reading", "ending"}
    BY DEF TransportsInv
  <2>1. CASE j = k
    BY <1>3, <1>5, <1>6, <2>1
  <2>2. CASE j # k
    <3>1. j \in DOMAIN serverTransports /\ serverTransports'[j] = serverTransports[j]
      BY <1>6, <2>2
    <3> DEFINE u == serverTransports[j]
    <3>2. u \in Servers /\ server[u].key = j /\ reader[u] \in {"created", "top", "reading", "ending"}
      BY <1>4, <3>1 DEF BrokerInv, ThreadsInv, TransportsInv
    <3>3. u # s
      BY <1>2, <3>2
    <3> HIDE DEF u
    <3>4. server'[u].key = j /\ reader'[u] \in {"created", "top", "reading", "ending"}
      BY <1>5, <3>2, <3>3
    <3>5. QED
      BY <3>1, <3>4 DEF u
  <2>3. QED
    BY <2>1, <2>2
<1>13. HolderInv'
  BY <1>1, <1>5, <1>6, <1>7, <1>10 DEF HolderInv, Registering
<1>14. OneReaderInv'
  BY <1>5 DEF BrokerInv, ThreadsInv, OneReaderInv
<1>15. NobodyLeftOpen'
  BY <1>1, <1>7 DEF BrokerInv, NobodyLeftOpen
<1>16. QED
  BY <1>7, <1>8, <1>9, <1>11, <1>12, <1>13, <1>14, <1>15 DEF BrokerInv, ThreadsInv

LEMMA StartReaderInv ==
  ASSUME BrokerInv, NEW t \in Threads, StartReader(t)
  PROVE  BrokerInv'
<1> DEFINE k == Head(todo[t]).key
           s == serverTransports[k]
<1>1. /\ holder = t /\ Earlier(k) = {} /\ reader' = [reader EXCEPT ![s] = "top"]
      /\ ServerSpawned(t, k) /\ holder' = None
      /\ UNCHANGED <<clientTransports, serverTransports, handler, sweeping, clientVars, server>>
  BY DEF StartReader
<1>2. Registering(t) /\ t # None
  BY <1>1, ThreadsAssumption DEF BrokerInv, ThreadsInv, HolderInv
<1>3. /\ todo[t] # <<>> /\ Head(todo[t]).do = "SpawnServer" /\ k \in DOMAIN serverTransports
      /\ reader[s] = "created" /\ k \in Keys /\ s \in Servers /\ server[s].key = k /\ Active(t)
  BY <1>2, BusyIsActive DEF Registering, BrokerInv, DaemonTyped, ThreadsInv, TransportsInv
<1>4. RouterStep(t, {}, {})
  BY <1>1, <1>3, ServerSpawnedStep DEF BrokerInv
<1>5. RouterTyped' /\ TracesAreOfConnections' /\ Moves(t)
  BY <1>4 DEF RouterStep
<1>6. reader \in [Servers -> {"none", "created", "top", "reading", "ending", "leaving", "done"}]
  BY DEF BrokerInv, DaemonTyped
<1>7. \A u \in Servers : reader[u] = "created" => u = s
  BY <1>1 DEF BrokerInv, ThreadsInv, ReadersInv
<1>8. \A u \in Servers : server[u].key = k => reader[u] \in {"none", "created", "done"}
  BY <1>1 DEF Earlier
<1> HIDE DEF k, s
<1>9. /\ reader' \in [Servers -> {"none", "created", "top", "reading", "ending", "leaving", "done"}]
      /\ reader'[s] = "top" /\ \A u \in Servers : u # s => reader'[u] = reader[u]
  BY <1>1, <1>3, <1>6
<1>10. DaemonTyped' /\ ClientsTyped'
  BY <1>1, <1>9 DEF BrokerInv, DaemonTyped, ClientsTyped, clientVars
<1>11. HandlersInv'
  BY <1>1, <1>3, <1>4, HandlersKept DEF BrokerInv, ThreadsInv, Active
<1>12. ReadersInv'
  <2>1. ASSUME NEW u \in Servers
        PROVE  /\ reader'[u] \in {"none", "created", "reading", "ending"} => todo'[u] = <<>>
               /\ reader'[u] # "none" => server'[u].key \in Keys
               /\ reader'[u] = "none" => server'[u] = NoServer
               /\ reader'[u] # "created"
    <3>1. /\ reader[u] \in {"none", "created", "reading", "ending"} => todo[u] = <<>>
          /\ reader[u] # "none" => server[u].key \in Keys
          /\ reader[u] = "none" => server[u] = NoServer
      BY DEF BrokerInv, ThreadsInv, ReadersInv, Done
    <3>2. u \in Threads /\ (u # t => todo'[u] = todo[u])
      BY <1>5, ThreadsAssumption DEF Moves
    <3>3. CASE u = s
      BY <1>1, <1>3, <1>9, <3>1, <3>3
    <3>4. CASE u # s
      <4>1. reader'[u] = reader[u] /\ reader[u] # "created"
        BY <1>7, <1>9, <3>4
      <4>2. reader[u] \in {"none", "reading", "ending"} => u # t
        BY <1>3, <3>1
      <4>3. QED
        BY <1>1, <3>1, <3>2, <4>1, <4>2
    <3>5. QED
      BY <3>3, <3>4
  <2>2. QED
    BY <2>1 DEF ReadersInv, Done, NoServer
<1>13. TransportsInv'
  <2> SUFFICES ASSUME NEW j \in DOMAIN serverTransports
               PROVE  LET u == serverTransports[j] IN
                      server[u].key = j /\ reader'[u] \in {"created", "top", "reading", "ending"}
    BY <1>1 DEF TransportsInv
  <2> DEFINE u == serverTransports[j]
  <2>1. u \in Servers /\ server[u].key = j /\ reader[u] \in {"created", "top", "reading", "ending"}
    BY DEF BrokerInv, ThreadsInv, TransportsInv, DaemonTyped
  <2> HIDE DEF u
  <2>2. server[u].key = j /\ reader'[u] \in {"created", "top", "reading", "ending"}
    BY <1>9, <2>1
  <2>3. QED
    BY <2>2 DEF u
<1>14. HolderInv'
  BY <1>1 DEF HolderInv
<1>15. OneReaderInv'
  <2> SUFFICES ASSUME NEW u \in Servers, NEW v \in Servers,
                      reader'[u] \in {"top", "reading", "ending", "leaving"},
                      reader'[v] \in {"top", "reading", "ending", "leaving"},
                      server[u].key = server[v].key
               PROVE  u = v
    BY <1>1 DEF OneReaderInv
  <2>1. CASE u # s /\ v # s
    BY <1>9, <2>1 DEF BrokerInv, ThreadsInv, OneReaderInv
  <2>2. CASE u = s /\ v # s
    BY <1>3, <1>8, <1>9, <2>2
  <2>3. CASE u # s /\ v = s
    BY <1>3, <1>8, <1>9, <2>3
  <2>4. QED
    BY <2>1, <2>2, <2>3
<1>16. NobodyLeftOpen'
  <2>1. \A d : Head(todo[t]) # CloseClient(d)
    BY <1>3, CloseClientIs
  <2>2. \A d \in clientTransports' : d \in clientTransports /\ d \notin {}
    BY <1>1
  <2>3. QED
    BY <1>4, <2>1, <2>2, NobodyKept DEF BrokerInv
<1>17. QED
  BY <1>5, <1>10, <1>11, <1>12, <1>13, <1>14, <1>15, <1>16 DEF BrokerInv, ThreadsInv

LEMMA BrokerInit ==
  ASSUME Init
  PROVE  BrokerInv
<1>1. /\ DOMAIN languages = {} /\ DOMAIN connectionKey = {} /\ DOMAIN serverTransports = {}
      /\ recency = <<>> /\ \A t \in Threads : todo[t] = <<>>
  BY DEF Init
<1>2. RouterTyped
  <2>1. LanguagesTyped /\ ConnectionsTyped
    BY <1>1 DEF LanguagesTyped, ConnectionsTyped
  <2>2. RecencyTyped
    BY <1>1, MembersNone DEF RecencyTyped, Distinct
  <2>3. todo \in [Threads -> Seq(Actions)]
    BY DEF Init
  <2>4. QED
    BY <2>1, <2>2, <2>3 DEF RouterTyped
<1>3. DaemonTyped
  <2>1. NoServer \in Processes
    BY DEF NoServer, Processes
  <2>2. serverTransports \in [{} -> Servers]
    BY DEF Init
  <2>3. QED
    BY <1>1, <2>1, <2>2 DEF Init, DaemonTyped
<1>4. ClientsTyped
  BY DEF Init, ClientsTyped
<1>5. ThreadsInv
  <2>1. \A c \in Conns : c \in Threads
    BY ThreadsAssumption
  <2>2. \A s \in Servers : s \in Threads
    BY ThreadsAssumption
  <2>3. HandlersInv
    BY <1>1, <2>1 DEF HandlersInv, Done, Init
  <2>4. ReadersInv
    BY <1>1, <2>2 DEF ReadersInv, Done, Init
  <2>5. TransportsInv /\ HolderInv /\ OneReaderInv
    BY <1>1 DEF TransportsInv, HolderInv, OneReaderInv, Init
  <2>6. QED
    BY <2>3, <2>4, <2>5 DEF ThreadsInv
<1>6. TracesAreOfConnections /\ NobodyLeftOpen
  BY <1>1 DEF TracesAreOfConnections, NobodyLeftOpen, Init
<1>7. QED
  BY <1>2, <1>3, <1>4, <1>5, <1>6 DEF BrokerInv

LEMMA BrokerStep ==
  ASSUME BrokerInv, [Step]_stepVars
  PROVE  BrokerInv'
<1>1. ASSUME NEW t \in Threads, Apply(t) PROVE BrokerInv'
  BY <1>1, RegisterServerInv, StartReaderInv, FailToSpawnInv, WriteToServerInv, WriteToClientInv,
     ApplyCloseClientInv, ApplyCloseServerInv, ApplyShutdownInv DEF Apply
<1>2. ASSUME NEW c \in Conns, (\E k \in Keys : Attach(c, k)) \/ Handler(c) \/ ClientGoes(c)
      PROVE  BrokerInv'
  BY <1>2, AttachInv, ReadClientInv, ClientEndsInv, ClientGoesInv DEF Handler
<1>3. ASSUME NEW s \in Servers, ServerReader(s) \/ ServerExits(s)
      PROVE  BrokerInv'
  BY <1>3, ReaderTopInv, ReadServerInv, ForgetServerInv, ServerReaderFinishedInv, ServerExitsInv
     DEF ServerReader
<1>4. CASE Sweep \/ StopDaemon
  BY <1>4, SweepInv, StopDaemonInv
<1>5. CASE UNCHANGED stepVars
  <2>1. UNCHANGED routerVars /\ UNCHANGED daemonVars /\ UNCHANGED clientVars /\ UNCHANGED server
    BY <1>5 DEF stepVars
  <2>2. RouterTyped' /\ TracesAreOfConnections' /\ todo' = todo /\ connectionKey' = connectionKey
    BY <2>1, RouterSame DEF routerVars
  <2>3. DaemonTyped' /\ ClientsTyped'
    BY <2>1 DEF BrokerInv, DaemonTyped, ClientsTyped, daemonVars, clientVars
  <2>4. ThreadsInv'
    BY <2>1, <2>2 DEF BrokerInv, ThreadsInv, HandlersInv, ReadersInv, TransportsInv, HolderInv,
                      OneReaderInv, Registering, Done, NoServer, daemonVars
  <2>5. NobodyLeftOpen'
    BY <2>1, <2>2 DEF BrokerInv, NobodyLeftOpen, daemonVars
  <2>6. QED
    BY <2>2, <2>3, <2>4, <2>5 DEF BrokerInv
<1>6. QED
  BY <1>1, <1>2, <1>3, <1>4, <1>5 DEF Step

\* What a step does to the history: once mixed, always so.
LEMMA Steps ==
  ASSUME [Next]_vars
  PROVE  /\ [Step]_stepVars
         /\ mixed \in BOOLEAN => mixed' \in BOOLEAN
         /\ mixed => mixed'
         /\ Step /\ ~UNCHANGED stepVars /\ ~mixed' => Unmixed'
<1>1. CASE Step /\ mixed' = (mixed \/ ~Unmixed')
  <2>1. [Step]_stepVars /\ (mixed => mixed') /\ (~mixed' => Unmixed')
    BY <1>1
  <2>2. PICK holds \in BOOLEAN : holds = (mixed \/ ~Unmixed')
    OBVIOUS
  <2>3. mixed' \in BOOLEAN
    BY <1>1, <2>2
  <2>4. QED
    BY <2>1, <2>3
<1>2. CASE UNCHANGED vars
  <2>1. UNCHANGED stepVars /\ mixed' = mixed
    BY <1>2 DEF vars
  <2>2. QED
    BY <2>1
<1>3. QED
  BY <1>1, <1>2 DEF Next

\* The invariant holds of the daemon, whatever its threads do to one another.
LEMMA BrokerInvariant == Spec => [](BrokerInv /\ mixed \in BOOLEAN)
<1>1. Init => BrokerInv /\ mixed \in BOOLEAN
  BY BrokerInit DEF Init
<1>2. (BrokerInv /\ mixed \in BOOLEAN) /\ [Next]_vars => (BrokerInv /\ mixed \in BOOLEAN)'
  BY BrokerStep, Steps
<1>3. QED
  BY <1>1, <1>2, PTL DEF Spec

LEMMA BrokerTypes ==
  ASSUME BrokerInv, mixed \in BOOLEAN
  PROVE  TypeOK
<1>1. /\ DOMAIN languages \subseteq Keys /\ Members(recency) = DOMAIN languages
      /\ recency \in Seq(Keys) /\ Distinct(recency)
  BY DEF BrokerInv, RouterTyped, RecencyTyped, LanguagesTyped
<1>2. Range(recency) = Members(recency) /\ DOMAIN recency = 1..Len(recency) /\ Len(recency) \in Nat
  BY <1>1, RangeIsMembers
<1>3. Cardinality(Members(recency)) = Len(recency)
  <2> DEFINE n == Len(recency)
             M == Members(recency)
  <2>1. recency \in [1..n -> M]
    BY <1>1, <1>2, SeqDef DEF Members
  <2>2. recency \in Bijection(1..n, M)
    BY <1>1, <2>1 DEF Bijection, Injection, Surjection, IsInjective, Distinct, Members
  <2>3. ExistsBijection(1..n, M)
    BY <2>2 DEF ExistsBijection
  <2> HIDE DEF n, M
  <2>4. n \in Nat
    BY <1>2 DEF n
  <2>5. Cardinality(M) = n
    BY <2>3, <2>4, FS_CountingElements
  <2>6. QED
    BY <2>5 DEF n, M
<1>4. ASSUME NEW k \in DOMAIN languages
      PROVE  /\ languages[k].status \in Statuses /\ languages[k].attached \subseteq Conns
             /\ Range(languages[k].queue) \subseteq Conns
  <2>1. IsEntry(languages[k])
    BY DEF BrokerInv, RouterTyped, LanguagesTyped
  <2>2. QED
    BY <2>1, EntryFields DEF Clients
<1>5. DOMAIN connectionKey \subseteq Conns /\ Range(connectionKey) \subseteq Keys
  BY DEF BrokerInv, RouterTyped, ConnectionsTyped, Range
<1>6. /\ clientTransports \subseteq Conns /\ DOMAIN serverTransports \subseteq Keys
      /\ Range(serverTransports) \subseteq Servers
      /\ holder \in Threads \cup {None} /\ sweeping \in BOOLEAN
  BY DEF BrokerInv, DaemonTyped, Range
<1>7. QED
  BY <1>1, <1>2, <1>3, <1>4, <1>5, <1>6 DEF TypeOK

\* The router's maps, the daemon's threads and its transports have their types.
THEOREM BrokerIsTyped == Spec => []TypeOK
<1>1. BrokerInv /\ mixed \in BOOLEAN => TypeOK
  BY BrokerTypes
<1>2. QED
  BY <1>1, BrokerInvariant, PTL

\* An entry refers only to connections attached to it: whoever disconnects, or
\* is torn down with another entry, is forgotten everywhere.
THEOREM TracesAlwaysOfConnections == Spec => []TracesAreOfConnections
<1>1. BrokerInv => TracesAreOfConnections
  BY DEF BrokerInv
<1>2. QED
  BY <1>1, BrokerInvariant, PTL

\* No client is left connected to a broker that has forgotten it, however the
\* threads that tear entries down interleave with those that read.
THEOREM NobodyEverLeftOpen == Spec => []NobodyLeftOpen
<1>1. BrokerInv => NobodyLeftOpen
  BY DEF BrokerInv
<1>2. QED
  BY <1>1, BrokerInvariant, PTL

-----------------------------------------------------------------------------
(* What holds when no frame reaches a successor *)

IsHandshake(a) == a.do = "SendToServer" /\ a.frame.m = "initialize"
IsReply(a)     == a.do = "SendToClient" /\ a.frame.m = "reply"

\* Two handshakes with one process, or two answers to one request.
Twins(a, b) ==
  \/ IsHandshake(a) /\ IsHandshake(b) /\ a.key = b.key
  \/ IsReply(a) /\ IsReply(b) /\ a.conn = b.conn /\ a.frame.id = b.frame.id

NoTwins ==
  \A t, u \in Threads : \A i \in 1..Len(todo[t]), j \in 1..Len(todo[u]) :
    Twins(todo[t][i], todo[u][j]) => t = u /\ i = j

\* Some thread has still to apply the action.
Pending(a) == \E t \in Threads : a \in Members(todo[t])

\* The entry has a process, and nobody who says initialize.
Starting(k) == Known(k) /\ languages[k].running /\ languages[k].status = "SpawningProcess"

\* Nobody has said initialize to the process of k.
Unheard(k) == k \in DOMAIN serverTransports => server[serverTransports[k]].inits = 0

HandshakeInv ==
  /\ OneHandshake
  /\ \A k \in Keys : Starting(k) => Unheard(k)
  /\ \A a \in Actions : Pending(a) /\ IsHandshake(a) => ~Starting(a.key) /\ Unheard(a.key)

\* An answer to q would be taken for one to the request it is for.
Matches(q, e) ==
  q.id < e.nextId /\ \A p \in e.relayed : p.id = q.id => q.of = <<p.conn, p.orig>>

Listening(s) == reader[s] \in {"top", "reading"}

RelayInv ==
  \A k \in DOMAIN languages :
    LET e == languages[k] IN
    /\ e.status \in {"AwaitingRealHandshake", "Ready"} => e.running
    /\ e.relayed # {} => e.running
    /\ \A p, q \in e.relayed : p.conn = q.conn /\ p.orig = q.orig => p = q
    /\ e.running =>
         /\ \A a \in Actions : Pending(a) /\ a.do = "SendToServer" /\ a.key = k =>
              \A q \in Answerable(a.frame) : Matches(q, e)
         /\ \A s \in Servers : server[s].key = k /\ Listening(s) =>
              \A q \in server[s].open : Matches(q, e)

\* An answer to request o of client c has come.
Answered(c, o) == \E i \in 1..Len(answered[c]) : answered[c][i].id = o

\* A request is relayed, or its answer is on its way, or has come.
ReplyInv ==
  /\ \A k \in DOMAIN languages : \A p \in languages[k].relayed :
       /\ p.orig <= asked[p.conn] /\ ~Answered(p.conn, p.orig)
       /\ \A a \in Actions : Pending(a) /\ IsReply(a) => a.conn # p.conn \/ a.frame.id # p.orig
  /\ \A a \in Actions : Pending(a) /\ IsReply(a) =>
       /\ a.frame.id <= asked[a.conn] /\ ~Answered(a.conn, a.frame.id)
       /\ a.frame.of = <<a.conn, a.frame.id>>
  /\ \A c \in Conns :
       /\ \A i \in 1..Len(answered[c]) :
            answered[c][i].of = <<c, answered[c][i].id>> /\ answered[c][i].id <= asked[c]
       /\ \A i, j \in 1..Len(answered[c]) : answered[c][i].id = answered[c][j].id => i = j

OrderedInv == Unmixed /\ NoTwins /\ HandshakeInv /\ RelayInv /\ ReplyInv

-----------------------------------------------------------------------------
(* What a step leaves pending *)

LEMMA PendingIs ==
  ASSUME todo \in [Threads -> Seq(Actions)], NEW t \in Threads, NEW acts \in Seq(Actions), Emit(t, acts)
  PROVE  /\ \A a : Pending(a)' => Pending(a) \/ a \in Members(acts)
         /\ \A a : Pending(a) => a \in Actions
         /\ \A a : Pending(a)' => a \in Actions
<1>1. /\ todo' \in [Threads -> Seq(Actions)] /\ \A u \in Threads : u # t => todo'[u] = todo[u]
      /\ todo[t] = <<>> => todo'[t] = acts
      /\ todo[t] # <<>> => todo'[t] = acts \o Tail(todo[t])
  BY EmitIs DEF Moves
<1>2. Members(todo'[t]) \subseteq Members(acts) \cup Members(todo[t])
  <2>1. CASE todo[t] = <<>>
    BY <1>1, <2>1
  <2>2. CASE todo[t] # <<>>
    <3> DEFINE q == todo[t]
    <3>1. q \in Seq(Actions) /\ q # <<>>
      BY <2>2
    <3> HIDE DEF q
    <3> DEFINE r == Tail(q)
    <3>2. r \in Seq(Actions) /\ Members(r) \subseteq Members(q)
      BY <3>1, MembersTail, TailShrinks
    <3>3. todo'[t] = acts \o r
      BY <1>1, <2>2 DEF q
    <3> HIDE DEF r
    <3>4. Members(acts \o r) = Members(acts) \cup Members(r)
      BY <3>2, JoinIs
    <3>5. QED
      BY <3>2, <3>3, <3>4 DEF q
  <2>3. QED
    BY <2>1, <2>2
<1>3. ASSUME NEW a, Pending(a)' PROVE Pending(a) \/ a \in Members(acts)
  <2>1. PICK u \in Threads : a \in Members(todo'[u])
    BY <1>3 DEF Pending
  <2>2. QED
    BY <1>1, <1>2, <2>1 DEF Pending
<1>4. \A a : Pending(a) => a \in Actions
  BY MembersTyped DEF Pending
<1>5. \A a : Pending(a)' => a \in Actions
  BY <1>1, MembersTyped DEF Pending
<1>6. QED
  BY <1>3, <1>4, <1>5

\* The places of a thread after a step are those of what it was left to do,
\* and after these the places it had, but for the first.
LEMMA PlacesAre ==
  ASSUME todo \in [Threads -> Seq(Actions)], NEW t \in Threads, NEW acts \in Seq(Actions), Emit(t, acts)
  PROVE  /\ Len(acts) \in Nat /\ \A u \in Threads : Len(todo[u]) \in Nat /\ Len(todo'[u]) \in Nat
         /\ \A u \in Threads : u # t => todo'[u] = todo[u]
         /\ \A i \in 1..Len(todo'[t]) :
              \/ i \in 1..Len(acts) /\ todo'[t][i] = acts[i]
              \/ /\ i > Len(acts) /\ todo[t] # <<>>
                 /\ i - Len(acts) + 1 \in 2..Len(todo[t])
                 /\ todo'[t][i] = todo[t][i - Len(acts) + 1]
<1> DEFINE q == todo[t]
           n == Len(acts)
           r == Tail(q)
<1>1. /\ todo' \in [Threads -> Seq(Actions)] /\ \A u \in Threads : u # t => todo'[u] = todo[u]
      /\ q = <<>> => todo'[t] = acts
      /\ q # <<>> => todo'[t] = acts \o r
  BY EmitIs DEF Moves
<1>2. n \in Nat /\ q \in Seq(Actions) /\ \A u \in Threads : Len(todo[u]) \in Nat /\ Len(todo'[u]) \in Nat
  BY <1>1
<1>3. ASSUME q # <<>>, NEW i \in 1..Len(todo'[t])
      PROVE  \/ i \in 1..n /\ todo'[t][i] = acts[i]
             \/ /\ i > n /\ i - n + 1 \in 2..Len(q) /\ todo'[t][i] = q[i - n + 1]
  <2> HIDE DEF q
  <2>1. /\ r \in Seq(Actions) /\ Len(r) = Len(q) - 1 /\ Len(q) \in Nat
        /\ \A j \in 1..Len(r) : r[j] = q[j + 1]
    BY <1>2, <1>3, MembersShrink, TailShrinks
  <2> HIDE DEF r
  <2>2. \A j \in 1..Len(acts \o r) :
          \/ j \in 1..Len(acts) /\ (acts \o r)[j] = acts[j]
          \/ j > Len(acts) /\ j - Len(acts) \in 1..Len(r) /\ (acts \o r)[j] = r[j - Len(acts)]
    BY <2>1, MembersJoin
  <2>3. todo'[t] = acts \o r
    BY <1>1, <1>3
  <2>4. \/ i \in 1..n /\ todo'[t][i] = acts[i]
        \/ i > n /\ i - n \in 1..Len(r) /\ todo'[t][i] = r[i - n]
    BY <2>2, <2>3
  <2> HIDE DEF n
  <2>5. ASSUME i > n, i - n \in 1..Len(r)
        PROVE  i - n + 1 \in 2..Len(q) /\ r[i - n] = q[i - n + 1]
    BY <1>2, <2>1, <2>5
  <2>6. QED
    BY <2>4, <2>5
<1>4. QED
  BY <1>1, <1>2, <1>3

\* What is left pending has no twin, if what is added has none.
LEMMA TwinsKept ==
  ASSUME todo \in [Threads -> Seq(Actions)], NoTwins, NEW t \in Threads,
         NEW acts \in Seq(Actions), Emit(t, acts),
         \A i, j \in 1..Len(acts) : Twins(acts[i], acts[j]) => i = j,
         \A a \in Members(acts), b \in Actions : Pending(b) => ~Twins(a, b)
  PROVE  /\ NoTwins'
         /\ todo[t] # <<>> =>
              \A a \in Actions : Pending(a)' /\ a \notin Members(acts) => ~Twins(a, Head(todo[t]))
<1> DEFINE n == Len(acts)
           Old(u, i) == IF u = t THEN i - n + 1 ELSE i
<1>1. /\ n \in Nat /\ \A u \in Threads : Len(todo[u]) \in Nat /\ Len(todo'[u]) \in Nat
      /\ \A u \in Threads : u # t => todo'[u] = todo[u]
      /\ \A i \in 1..Len(todo'[t]) :
           \/ i \in 1..n /\ todo'[t][i] = acts[i]
           \/ /\ i > n /\ todo[t] # <<>>
              /\ i - n + 1 \in 2..Len(todo[t])
              /\ todo'[t][i] = todo[t][i - n + 1]
  BY PlacesAre
<1> HIDE DEF n
<1>2. \A a, b : Twins(a, b) => Twins(b, a)
  BY DEF Twins
\* A place is a new one, or an old one.
<1>3. ASSUME NEW u \in Threads, NEW i \in 1..Len(todo'[u])
      PROVE  \/ u = t /\ i \in 1..n /\ todo'[u][i] = acts[i] /\ todo'[u][i] \in Members(acts)
             \/ /\ Old(u, i) \in 1..Len(todo[u]) /\ todo'[u][i] = todo[u][Old(u, i)]
                /\ todo'[u][i] \in Actions /\ Pending(todo'[u][i])
                /\ u = t => todo[t] # <<>> /\ Old(u, i) # 1 /\ i > n
  <2>1. CASE u # t
    <3>1. todo'[u] = todo[u] /\ Old(u, i) = i
      BY <1>1, <2>1
    <3>2. todo[u] \in Seq(Actions)
      OBVIOUS
    <3>3. todo[u][i] \in Actions /\ todo[u][i] \in Members(todo[u])
      BY <3>1, <3>2, ElementOfSeq DEF Members
    <3>4. QED
      BY <2>1, <3>1, <3>3 DEF Pending
  <2>2. CASE u = t /\ i \in 1..n /\ todo'[t][i] = acts[i]
    BY <2>2 DEF Members, n
  <2>3. CASE /\ u = t /\ i > n /\ todo[t] # <<>> /\ i - n + 1 \in 2..Len(todo[t])
             /\ todo'[t][i] = todo[t][i - n + 1]
    <3> DEFINE j == i - n + 1
               q == todo[t]
    <3>1. Old(u, i) = j /\ j \in 2..Len(q) /\ j \in 1..Len(q) /\ q \in Seq(Actions) /\ todo'[u][i] = q[j]
      BY <1>1, <2>3
    <3> HIDE DEF j, q
    <3>2. q[j] \in Actions /\ q[j] \in Members(q) /\ j # 1
      BY <3>1, ElementOfSeq DEF Members
    <3>3. QED
      BY <2>3, <3>1, <3>2 DEF Pending, q
  <2>4. QED
    BY <1>1, <2>1, <2>2, <2>3
<1>4. ASSUME NEW u \in Threads, NEW v \in Threads, NEW i \in 1..Len(todo'[u]), NEW j \in 1..Len(todo'[v]),
             Twins(todo'[u][i], todo'[v][j])
      PROVE  u = v /\ i = j
  <2>1. CASE u = t /\ i \in 1..n /\ todo'[u][i] = acts[i] /\ v = t /\ j \in 1..n /\ todo'[v][j] = acts[j]
    BY <1>4, <2>1 DEF n
  <2>2. CASE /\ Old(u, i) \in 1..Len(todo[u]) /\ todo'[u][i] = todo[u][Old(u, i)]
             /\ Old(v, j) \in 1..Len(todo[v]) /\ todo'[v][j] = todo[v][Old(v, j)]
    <3>1. u = v /\ Old(u, i) = Old(v, j)
      <4> HIDE DEF Old
      <4>1. QED
        BY <1>4, <2>2 DEF NoTwins
    <3>2. i \in Int /\ j \in Int /\ n \in Int
      BY <1>1
    <3>3. i = j
      BY <3>1, <3>2
    <3>4. QED
      BY <3>1, <3>3
  <2>3. QED
    <3> HIDE DEF Old
    <3>1. QED
      BY <1>2, <1>3, <1>4, <2>1, <2>2
<1>5. NoTwins'
  BY <1>4 DEF NoTwins
<1>6. ASSUME todo[t] # <<>>, NEW a \in Actions, Pending(a)', a \notin Members(acts), Twins(a, Head(todo[t]))
      PROVE  FALSE
  <2>0. PICK u \in Threads : a \in Members(todo'[u])
    BY <1>6 DEF Pending
  <2>1. PICK i \in 1..Len(todo'[u]) : a = todo'[u][i]
    BY <2>0 DEF Members
  <2>2. /\ Old(u, i) \in 1..Len(todo[u]) /\ a = todo[u][Old(u, i)]
        /\ u = t => Old(u, i) # 1
    BY <1>3, <1>6, <2>1
  <2>3. Head(todo[t]) = todo[t][1] /\ 1 \in 1..Len(todo[t])
    <3> DEFINE q == todo[t]
    <3>1. q \in Seq(Actions) /\ q # <<>>
      BY <1>6
    <3> HIDE DEF q
    <3>2. Head(q) = q[1] /\ 1 \in 1..Len(q)
      BY <3>1, TailShrinks
    <3>3. QED
      BY <3>2 DEF q
  <2> HIDE DEF Old
  <2>4. QED
    BY <1>6, <2>2, <2>3 DEF NoTwins
<1>7. QED
  BY <1>5, <1>6

-----------------------------------------------------------------------------
(* Steps that ask nothing new of anybody *)

\* Neither a handshake nor an answer; a request only to what is torn down.
Harmless(a, K) ==
  /\ ~IsHandshake(a) /\ ~IsReply(a)
  /\ a.do = "SendToServer" => Answerable(a.frame) = {} \/ a.key \in K

\* An entry nobody relays to.
Fresh(e) ==
  ~e.running /\ e.relayed = {} /\ e.status \notin {"AwaitingRealHandshake", "Ready"}

\* An entry as it may go on without a handshake or a request.
Calmer(e, f) ==
  /\ f.running <=> e.running
  /\ e.nextId <= f.nextId /\ f.relayed \subseteq e.relayed
  /\ f.status = "SpawningProcess" => e.status = "SpawningProcess"
  /\ f.status \in {"AwaitingRealHandshake", "Ready"} => e.status \in {"AwaitingRealHandshake", "Ready"}

\* The entries K are gone, even if there are new ones of these keys.
CalmEntries(K) ==
  \A k \in DOMAIN languages' :
    \/ Fresh(languages'[k])
    \/ k \in DOMAIN languages \ K /\ Calmer(languages[k], languages'[k])

CalmTodo(K) == NoTwins' /\ \A a \in Actions : Pending(a)' => Pending(a) \/ Harmless(a, K)

CalmProcesses ==
  /\ \A s \in Servers :
       /\ server'[s].key = server[s].key /\ server'[s].inits = server[s].inits
       /\ server'[s].open \subseteq server[s].open
       /\ Listening(s)' => Listening(s)
  /\ DOMAIN serverTransports' \subseteq DOMAIN serverTransports
  /\ \A k \in DOMAIN serverTransports' : serverTransports'[k] = serverTransports[k]

CalmEditors == answered' = answered /\ \A c \in Conns : asked[c] <= asked'[c]

LEMMA ReplyFields ==
  ASSUME NEW a \in Actions, IsReply(a)
  PROVE  a.conn \in Conns /\ a.frame.id \in Nat /\ a.frame.of \in Origins
<1>1. a.conn \in Conns /\ a.frame \in ClientFrames /\ a.frame.m = "reply"
  BY ActionFields DEF IsReply
<1>2. QED
  BY <1>1 DEF ClientFrames

LEMMA HandshakeFields ==
  ASSUME NEW a \in Actions, a.do = "SendToServer"
  PROVE  a.key \in Keys /\ a.frame \in ServerFrames
BY ActionFields

LEMMA CalmStarting ==
  ASSUME NEW K, CalmEntries(K), NEW k, Starting(k)'
  PROVE  Starting(k) /\ k \notin K
<1>1. /\ k \in DOMAIN languages' /\ languages'[k].running /\ languages'[k].status = "SpawningProcess"
  BY DEF Starting, Known
<1>2. k \in DOMAIN languages \ K /\ Calmer(languages[k], languages'[k])
  BY <1>1 DEF CalmEntries, Fresh
<1>3. QED
  BY <1>1, <1>2 DEF Calmer, Starting, Known

LEMMA HandshakesKept ==
  ASSUME HandshakeInv, \A k \in Keys : Starting(k)' => Starting(k),
         \A a \in Actions : Pending(a)' /\ IsHandshake(a) => Pending(a),
         BrokerInv, CalmProcesses
  PROVE  HandshakeInv'
<1>1. ASSUME NEW k, Unheard(k) PROVE Unheard(k)'
  <2> SUFFICES ASSUME k \in DOMAIN serverTransports' PROVE server'[serverTransports'[k]].inits = 0
    BY DEF Unheard
  <2>1. k \in DOMAIN serverTransports /\ serverTransports'[k] = serverTransports[k]
    BY DEF CalmProcesses
  <2>2. serverTransports[k] \in Servers /\ server[serverTransports[k]].inits = 0
    BY <1>1, <2>1 DEF Unheard, BrokerInv, DaemonTyped
  <2>3. QED
    BY <2>1, <2>2 DEF CalmProcesses
<1>2. OneHandshake'
  BY DEF HandshakeInv, OneHandshake, CalmProcesses
<1>3. \A k \in Keys : Starting(k)' => Unheard(k)'
  BY <1>1 DEF HandshakeInv
<1>4. ASSUME NEW a \in Actions, Pending(a)', IsHandshake(a)
      PROVE  ~Starting(a.key)' /\ Unheard(a.key)'
  <2>1. a.key \in Keys
    BY <1>4, HandshakeFields DEF IsHandshake
  <2>2. ~Starting(a.key) /\ Unheard(a.key)
    BY <1>4 DEF HandshakeInv
  <2>3. QED
    BY <1>1, <2>1, <2>2
<1>5. QED
  BY <1>2, <1>3, <1>4 DEF HandshakeInv

LEMMA CalmMatches ==
  ASSUME NEW q, q.id \in Nat, NEW e, NEW f, e.nextId \in Nat, f.nextId \in Nat, Calmer(e, f), Matches(q, e)
  PROVE  Matches(q, f)
<1>1. q.id < f.nextId
  BY DEF Matches, Calmer
<1>2. \A p \in f.relayed : p.id = q.id => q.of = <<p.conn, p.orig>>
  BY DEF Matches, Calmer
<1>3. QED
  BY <1>1, <1>2 DEF Matches

LEMMA EntryIs ==
  ASSUME BrokerInv, NEW k \in DOMAIN languages
  PROVE  /\ IsEntry(languages[k]) /\ k \in Keys /\ languages[k].nextId \in Nat
         /\ languages[k].relayed \subseteq Requests /\ languages[k].status \in Statuses
<1>1. IsEntry(languages[k]) /\ k \in Keys
  BY DEF BrokerInv, RouterTyped, LanguagesTyped
<1>2. QED
  BY <1>1, EntryFields

LEMMA EntryIsNext ==
  ASSUME BrokerInv', NEW k \in DOMAIN languages'
  PROVE  /\ IsEntry(languages'[k]) /\ k \in Keys /\ languages'[k].nextId \in Nat
         /\ languages'[k].relayed \subseteq Requests /\ languages'[k].status \in Statuses
<1>1. IsEntry(languages'[k]) /\ k \in Keys
  BY DEF BrokerInv, RouterTyped, LanguagesTyped
<1>2. QED
  BY <1>1, EntryFields

LEMMA OpenIs ==
  ASSUME BrokerInv, NEW s \in Servers
  PROVE  server[s] \in Processes /\ \A q \in server[s].open : q.id \in Nat
<1>1. server[s] \in Processes
  BY DEF BrokerInv, DaemonTyped
<1>2. QED
  BY <1>1 DEF Processes, Answers

LEMMA AnswerableIds ==
  ASSUME NEW a \in Actions, a.do = "SendToServer"
  PROVE  \A q \in Answerable(a.frame) : q.id \in Nat
<1>1. a.frame \in ServerFrames
  BY HandshakeFields
<1>2. Answerable(a.frame) \subseteq Answers
  BY <1>1, AnswerablesTyped
<1>3. QED
  BY <1>2 DEF Answers

LEMMA RelayKept ==
  ASSUME BrokerInv, BrokerInv', RelayInv, NEW K, CalmEntries(K), CalmProcesses,
         \A a \in Actions : Pending(a)' /\ a.do = "SendToServer" =>
           Pending(a) \/ Answerable(a.frame) = {} \/ a.key \in K
  PROVE  RelayInv'
<1>1. ASSUME NEW k \in DOMAIN languages'
      PROVE  LET e == languages'[k] IN
             /\ e.status \in {"AwaitingRealHandshake", "Ready"} => e.running
             /\ e.relayed # {} => e.running
             /\ \A p, q \in e.relayed : p.conn = q.conn /\ p.orig = q.orig => p = q
             /\ e.running =>
                  /\ \A a \in Actions : Pending(a)' /\ a.do = "SendToServer" /\ a.key = k =>
                       \A q \in Answerable(a.frame) : Matches(q, e)
                  /\ \A s \in Servers : server'[s].key = k /\ Listening(s)' =>
                       \A q \in server'[s].open : Matches(q, e)
  <2> DEFINE f == languages'[k]
             e == languages[k]
  <2>1. CASE Fresh(f)
    BY <2>1 DEF Fresh
  <2>2. CASE k \in DOMAIN languages \ K /\ Calmer(e, f)
    <3>1. /\ e.status \in {"AwaitingRealHandshake", "Ready"} => e.running
          /\ e.relayed # {} => e.running
          /\ \A p, q \in e.relayed : p.conn = q.conn /\ p.orig = q.orig => p = q
          /\ e.running =>
               /\ \A a \in Actions : Pending(a) /\ a.do = "SendToServer" /\ a.key = k =>
                    \A q \in Answerable(a.frame) : Matches(q, e)
               /\ \A s \in Servers : server[s].key = k /\ Listening(s) =>
                    \A q \in server[s].open : Matches(q, e)
      BY <2>2 DEF RelayInv
    <3>2. e.nextId \in Nat /\ f.nextId \in Nat
      BY <2>2, EntryIs, EntryIsNext
    <3> HIDE DEF e, f
    <3>3. (f.running => e.running) /\ (e.running => f.running)
      BY <2>2 DEF Calmer
    <3>4. /\ f.status \in {"AwaitingRealHandshake", "Ready"} => f.running
          /\ f.relayed # {} => f.running
          /\ \A p, q \in f.relayed : p.conn = q.conn /\ p.orig = q.orig => p = q
      BY <2>2, <3>1, <3>3 DEF Calmer
    <3>5. ASSUME f.running, NEW a \in Actions, Pending(a)', a.do = "SendToServer", a.key = k,
                 NEW q \in Answerable(a.frame)
          PROVE  Matches(q, f)
      <4>1. Pending(a)
        BY <2>2, <3>5
      <4>2. Matches(q, e)
        BY <3>1, <3>3, <3>5, <4>1
      <4>3. q.id \in Nat
        BY <3>5, AnswerableIds
      <4>4. QED
        BY <2>2, <3>2, <4>2, <4>3, CalmMatches
    <3>6. ASSUME f.running, NEW s \in Servers, server'[s].key = k, Listening(s)', NEW q \in server'[s].open
          PROVE  Matches(q, f)
      <4>1. server[s].key = k /\ Listening(s) /\ q \in server[s].open
        BY <3>6 DEF CalmProcesses
      <4>2. Matches(q, e)
        BY <3>1, <3>3, <3>6, <4>1
      <4>3. q.id \in Nat
        BY <4>1, OpenIs
      <4>4. QED
        BY <2>2, <3>2, <4>2, <4>3, CalmMatches
    <3>7. QED
      BY <3>4, <3>5, <3>6 DEF f
  <2>3. QED
    BY <2>1, <2>2 DEF CalmEntries
<1>2. QED
  BY <1>1 DEF RelayInv

LEMMA AnsweredIds ==
  ASSUME BrokerInv, NEW c \in Conns
  PROVE  Len(answered[c]) \in Nat /\ \A i \in 1..Len(answered[c]) : answered[c][i].id \in Nat
<1> DEFINE q == answered[c]
<1>1. q \in Seq(Answers)
  BY DEF BrokerInv, ClientsTyped
<1> HIDE DEF q
<1>2. Len(q) \in Nat /\ \A i \in 1..Len(q) : q[i] \in Answers
  BY <1>1, ElementOfSeq
<1>3. QED
  BY <1>2 DEF q, Answers

\* No request is relayed but old ones, and new ones of who has just made them.
LEMMA RepliesGrow ==
  ASSUME BrokerInv, BrokerInv', ReplyInv, CalmEditors,
         \A k \in DOMAIN languages' : \A p \in languages'[k].relayed :
           \/ k \in DOMAIN languages /\ p \in languages[k].relayed
           \/ asked[p.conn] < p.orig /\ p.orig <= asked'[p.conn],
         \A a \in Actions : Pending(a)' /\ IsReply(a) => Pending(a)
  PROVE  ReplyInv'
<1>1. \A c \in Conns : asked[c] \in Nat /\ asked'[c] \in Nat /\ asked[c] <= asked'[c]
  BY DEF BrokerInv, ClientsTyped, CalmEditors
<1>2. \A c, o : Answered(c, o)' <=> Answered(c, o)
  BY DEF Answered, CalmEditors
<1>3. ASSUME NEW k \in DOMAIN languages', NEW p \in languages'[k].relayed
      PROVE  /\ p.orig <= asked'[p.conn] /\ ~Answered(p.conn, p.orig)'
             /\ \A a \in Actions : Pending(a)' /\ IsReply(a) => a.conn # p.conn \/ a.frame.id # p.orig
  <2>1. p.conn \in Conns /\ p.orig \in Nat
    BY EntryIsNext DEF Requests
  <2>2. CASE k \in DOMAIN languages /\ p \in languages[k].relayed
    <3>1. /\ p.orig <= asked[p.conn] /\ ~Answered(p.conn, p.orig)
          /\ \A a \in Actions : Pending(a) /\ IsReply(a) => a.conn # p.conn \/ a.frame.id # p.orig
      BY <2>2 DEF ReplyInv
    <3>2. QED
      BY <1>1, <1>2, <2>1, <3>1
  <2>3. CASE asked[p.conn] < p.orig /\ p.orig <= asked'[p.conn]
    <3>1. ~Answered(p.conn, p.orig)
      BY <1>1, <2>1, <2>3 DEF ReplyInv, Answered
    <3>2. \A a \in Actions : Pending(a)' /\ IsReply(a) => a.conn # p.conn \/ a.frame.id # p.orig
      BY <1>1, <2>1, <2>3 DEF ReplyInv
    <3>3. QED
      BY <1>2, <2>3, <3>1, <3>2
  <2>4. QED
    BY <2>2, <2>3
<1>4. ASSUME NEW a \in Actions, Pending(a)', IsReply(a)
      PROVE  /\ a.frame.id <= asked'[a.conn] /\ ~Answered(a.conn, a.frame.id)'
             /\ a.frame.of = <<a.conn, a.frame.id>>
  <2>1. /\ a.frame.id <= asked[a.conn] /\ ~Answered(a.conn, a.frame.id)
        /\ a.frame.of = <<a.conn, a.frame.id>>
    BY <1>4 DEF ReplyInv
  <2>2. a.conn \in Conns /\ a.frame.id \in Nat
    BY <1>4, ReplyFields
  <2>3. QED
    BY <1>1, <1>2, <2>1, <2>2
<1>5. ASSUME NEW c \in Conns
      PROVE  /\ \A i \in 1..Len(answered'[c]) :
                  answered'[c][i].of = <<c, answered'[c][i].id>> /\ answered'[c][i].id <= asked'[c]
             /\ \A i, j \in 1..Len(answered'[c]) : answered'[c][i].id = answered'[c][j].id => i = j
  <2>1. answered'[c] = answered[c]
    BY DEF CalmEditors
  <2>2. \A i \in 1..Len(answered[c]) : answered[c][i].id \in Nat
    BY AnsweredIds
  <2>3. /\ \A i \in 1..Len(answered[c]) :
             answered[c][i].of = <<c, answered[c][i].id>> /\ answered[c][i].id <= asked[c]
        /\ \A i, j \in 1..Len(answered[c]) : answered[c][i].id = answered[c][j].id => i = j
    BY DEF ReplyInv
  <2>4. QED
    BY <1>1, <2>1, <2>2, <2>3
<1>6. QED
  BY <1>3, <1>4, <1>5 DEF ReplyInv

LEMMA RepliesKept ==
  ASSUME BrokerInv, BrokerInv', ReplyInv, CalmEditors,
         \A k \in DOMAIN languages' : \A p \in languages'[k].relayed :
           k \in DOMAIN languages /\ p \in languages[k].relayed,
         \A a \in Actions : Pending(a)' /\ IsReply(a) => Pending(a)
  PROVE  ReplyInv'
BY RepliesGrow

LEMMA CalmStep ==
  ASSUME BrokerInv, BrokerInv', OrderedInv, Unmixed', NEW K, CalmEntries(K), CalmTodo(K),
         CalmProcesses, CalmEditors
  PROVE  OrderedInv'
<1>1. HandshakeInv'
  <2>1. \A k \in Keys : Starting(k)' => Starting(k)
    BY CalmStarting
  <2>2. \A a \in Actions : Pending(a)' /\ IsHandshake(a) => Pending(a)
    BY DEF CalmTodo, Harmless
  <2>3. QED
    BY <2>1, <2>2, HandshakesKept DEF OrderedInv
<1>2. RelayInv'
  <2>1. \A a \in Actions : Pending(a)' /\ a.do = "SendToServer" =>
          Pending(a) \/ Answerable(a.frame) = {} \/ a.key \in K
    BY DEF CalmTodo, Harmless
  <2>2. QED
    BY <2>1, RelayKept DEF OrderedInv
<1>3. ReplyInv'
  <2>1. \A k \in DOMAIN languages' : \A p \in languages'[k].relayed :
          k \in DOMAIN languages /\ p \in languages[k].relayed
    BY DEF CalmEntries, Fresh, Calmer
  <2>2. \A a \in Actions : Pending(a)' /\ IsReply(a) => Pending(a)
    BY DEF CalmTodo, Harmless
  <2>3. QED
    BY <2>1, <2>2, RepliesKept DEF OrderedInv
<1>4. QED
  BY <1>1, <1>2, <1>3 DEF OrderedInv, CalmTodo

\* What is left to do is harmless.
LEMMA CalmEmission ==
  ASSUME BrokerInv, NoTwins, NEW t \in Threads, NEW acts \in Seq(Actions), Emit(t, acts),
         NEW K, \A a \in Members(acts) : Harmless(a, K)
  PROVE  CalmTodo(K)
<1>1. todo \in [Threads -> Seq(Actions)]
  BY DEF BrokerInv, RouterTyped
<1>2. \A a \in Members(acts) : \A b : ~Twins(a, b)
  BY DEF Harmless, Twins
<1>3. \A i, j \in 1..Len(acts) : Twins(acts[i], acts[j]) => i = j
  BY <1>2 DEF Members
<1>4. NoTwins'
  BY <1>1, <1>2, <1>3, TwinsKept
<1>5. \A a \in Actions : Pending(a)' => Pending(a) \/ Harmless(a, K)
  BY <1>1, PendingIs
<1>6. QED
  BY <1>4, <1>5 DEF CalmTodo

LEMMA CalmSame ==
  ASSUME BrokerInv, UNCHANGED languages
  PROVE  CalmEntries({})
<1>1. \A k \in DOMAIN languages : Calmer(languages[k], languages[k])
  BY EntryIs DEF Calmer
<1>2. QED
  BY <1>1 DEF CalmEntries

LEMMA CalmPut ==
  ASSUME BrokerInv, NEW k, NEW e, Put(k, e),
         Known(k) => Calmer(languages[k], e), ~Known(k) => Fresh(e)
  PROVE  CalmEntries({})
<1>1. /\ DOMAIN languages' = DOMAIN languages \cup {k} /\ languages'[k] = e
      /\ \A j \in DOMAIN languages : j # k => languages'[j] = languages[j]
  BY DEF Put, With
<1>2. \A j \in DOMAIN languages : Calmer(languages[j], languages[j])
  BY EntryIs DEF Calmer
<1>3. QED
  BY <1>1, <1>2 DEF CalmEntries, Known

LEMMA CalmTorn ==
  ASSUME BrokerInv, NEW ks, languages' = Without(languages, ks)
  PROVE  CalmEntries(ks)
<1>1. /\ DOMAIN languages' = DOMAIN languages \ ks
      /\ \A j \in DOMAIN languages \ ks : languages'[j] = languages[j]
  BY WithoutIs
<1>2. \A j \in DOMAIN languages : Calmer(languages[j], languages[j])
  BY EntryIs DEF Calmer
<1>3. QED
  BY <1>1, <1>2 DEF CalmEntries

LEMMA CalmReplaced ==
  ASSUME BrokerInv, NEW ks, NEW k,
         languages' = With(Without(languages, ks), k, NewEntry("SpawningProcess"))
  PROVE  CalmEntries(ks)
<1> DEFINE rest == Without(languages, ks)
           e == NewEntry("SpawningProcess")
<1>1. /\ DOMAIN rest = DOMAIN languages \ ks
      /\ \A j \in DOMAIN languages \ ks : rest[j] = languages[j]
  BY WithoutIs
<1>2. Fresh(e)
  BY DEF Fresh, NewEntry
<1>3. languages' = With(rest, k, e)
  OBVIOUS
<1> HIDE DEF rest, e
<1>4. /\ DOMAIN languages' = DOMAIN rest \cup {k} /\ languages'[k] = e
      /\ \A j \in DOMAIN rest : j # k => languages'[j] = rest[j]
  BY <1>3 DEF With
<1>5. \A j \in DOMAIN languages : Calmer(languages[j], languages[j])
  BY EntryIs DEF Calmer
<1>6. QED
  BY <1>1, <1>2, <1>4, <1>5 DEF CalmEntries

LEMMA FarewellsHarmless ==
  ASSUME NEW K, NEW a \in Farewells(K)
  PROVE  Harmless(a, K)
<1>1. CASE a.do # "SendToServer" /\ a.do # "SendToClient"
  BY <1>1 DEF Harmless, IsHandshake, IsReply
<1>2. CASE a \in [do : {"SendToServer"}, key : K, frame : [m : {"shutdown"}, id : Nat] \cup [m : {"exit"}]]
  <2>1. a.do = "SendToServer" /\ a.key \in K /\ a.frame.m \in {"shutdown", "exit"}
    BY <1>2
  <2>2. QED
    BY <2>1 DEF Harmless, IsHandshake, IsReply
<1>3. QED
  BY <1>1, <1>2 DEF Farewells, ShutdownProcess

LEMMA HarmlessAre ==
  ASSUME NEW K
  PROVE  /\ \A k : Harmless(SpawnServer(k), K)
         /\ \A k : Harmless(SendToServer(k, Initialized), K) /\ Harmless(SendToServer(k, Notice), K)
         /\ \A k : Harmless(SendToServer(k, Acknowledge), K)
         /\ \A c : Harmless(SendToClient(c, InitializeReply), K)
         /\ \A c : Harmless(SendToClient(c, Notice), K) /\ Harmless(CloseClient(c), K)
<1>1. /\ Initialized.m = "initialized" /\ Notice.m = "notice" /\ Acknowledge.m = "ack"
      /\ InitializeReply.m = "initialized"
  BY DEF Initialized, Notice, Acknowledge, InitializeReply
<1>2. Answerable(Initialized) = {} /\ Answerable(Notice) = {} /\ Answerable(Acknowledge) = {}
  BY <1>1 DEF Answerable
<1>3. \A k, f : SendToServer(k, f).do = "SendToServer" /\ SendToServer(k, f).frame = f
  BY DEF SendToServer
<1>4. \A k, f : SendToClient(k, f).do = "SendToClient" /\ SendToClient(k, f).frame = f
  BY DEF SendToClient
<1>5. \A k : Harmless(SpawnServer(k), K) /\ Harmless(CloseClient(k), K)
  BY DEF SpawnServer, CloseClient, Harmless, IsHandshake, IsReply
<1> HIDE DEF Initialized, Notice, Acknowledge, InitializeReply
<1>6. QED
  BY <1>1, <1>2, <1>3, <1>4, <1>5 DEF Harmless, IsHandshake, IsReply

\* A client is told what is no answer to a request.
LEMMA ToldHarmless ==
  ASSUME NEW q \in Seq(Conns), NEW f \in ClientFrames, f.m # "reply",
         NEW told, told = [i \in DOMAIN q |-> SendToClient(q[i], f)]
  PROVE  told \in Seq(Actions) /\ \A K : \A a \in Members(told) : Harmless(a, K)
<1>1. told \in Seq(Actions) /\ \A i \in 1..Len(told) : told[i].do = "SendToClient" /\ told[i].frame = f
  BY EachTold
<1>2. ASSUME NEW a \in Members(told) PROVE a.do = "SendToClient" /\ a.frame = f
  BY <1>1 DEF Members
<1>3. QED
  BY <1>1, <1>2 DEF Harmless, IsHandshake, IsReply

LEMMA CalmUntouched ==
  ASSUME BrokerInv, UNCHANGED <<server, serverTransports>>,
         \A s \in Servers : reader'[s] # reader[s] =>
           reader[s] \in {"top", "reading"} \/ reader'[s] \notin {"top", "reading"}
  PROVE  CalmProcesses
BY DEF CalmProcesses, Listening

\* A step of one process: no more is open, and nobody begins to listen.
LEMMA CalmProcess ==
  ASSUME BrokerInv, NEW s \in Servers, NEW x, x.key = server[s].key, x.inits = server[s].inits,
         x.open \subseteq server[s].open, server' = [server EXCEPT ![s] = x],
         reader' = reader \/ \E r : /\ reader' = [reader EXCEPT ![s] = r]
                                    /\ r \in {"top", "reading"} => reader[s] \in {"top", "reading"},
         DOMAIN serverTransports' \subseteq DOMAIN serverTransports,
         \A k \in DOMAIN serverTransports' : serverTransports'[k] = serverTransports[k]
  PROVE  CalmProcesses
<1>1. DOMAIN server = Servers /\ DOMAIN reader = Servers
  BY DEF BrokerInv, DaemonTyped
<1>2. \A u \in Servers : server'[u] = IF u = s THEN x ELSE server[u]
  BY <1>1
<1>3. \A u \in Servers : Listening(u)' => Listening(u)
  BY <1>1 DEF Listening
<1>4. \A u \in Servers : /\ server'[u].key = server[u].key /\ server'[u].inits = server[u].inits
                         /\ server'[u].open \subseteq server[u].open
  BY <1>2
<1>5. QED
  BY <1>3, <1>4 DEF CalmProcesses

LEMMA CalmAsks ==
  ASSUME BrokerInv, UNCHANGED <<asked, answered>>
  PROVE  CalmEditors
BY DEF CalmEditors, BrokerInv, ClientsTyped

\* A step that leaves nobody anything to do.
LEMMA CalmSilence ==
  ASSUME BrokerInv, NoTwins, UNCHANGED todo
  PROVE  CalmTodo({})
BY DEF CalmTodo, NoTwins, Pending

\* A step that leaves its thread only harmless things to do.
LEMMA CalmCall ==
  ASSUME BrokerInv, BrokerInv', OrderedInv, Unmixed', NEW t \in Threads, NEW acts \in Seq(Actions),
         Emit(t, acts), NEW K, \A a \in Members(acts) : Harmless(a, K), CalmEntries(K),
         CalmProcesses, CalmEditors
  PROVE  OrderedInv'
<1>1. CalmTodo(K)
  BY CalmEmission DEF OrderedInv
<1>2. QED
  BY <1>1, CalmStep

LEMMA CalmNothing ==
  ASSUME BrokerInv, BrokerInv', OrderedInv, Unmixed', NEW t \in Threads, Emit(t, <<>>), CalmEntries({}),
         CalmProcesses, CalmEditors
  PROVE  OrderedInv'
<1>1. <<>> \in Seq(Actions) /\ \A a \in Members(<<>>) : Harmless(a, {})
  BY DEF Members
<1>2. QED
  BY ONLY BrokerInv, BrokerInv', OrderedInv, Unmixed', t \in Threads, Emit(t, <<>>), CalmEntries({}),
          CalmProcesses, CalmEditors, <1>1, CalmCall

\* A step that calls nobody.
LEMMA CalmAlone ==
  ASSUME BrokerInv, BrokerInv', OrderedInv, Unmixed', UNCHANGED <<todo, languages>>,
         CalmProcesses, CalmEditors
  PROVE  OrderedInv'
<1>1. CalmTodo({})
  BY CalmSilence DEF OrderedInv
<1>2. CalmEntries({})
  BY CalmSame
<1>3. QED
  BY ONLY BrokerInv, BrokerInv', OrderedInv, Unmixed', CalmProcesses, CalmEditors, <1>1, <1>2, CalmStep

LEMMA CalmHangUp ==
  ASSUME BrokerInv, NEW k, HangUpServer(k), NEW s \in Servers,
         reader' = reader \/ reader' = [reader EXCEPT ![s] = "leaving"]
  PROVE  CalmProcesses
<1>1. server \in [Servers -> Processes] /\ DOMAIN reader = Servers
  BY DEF BrokerInv, DaemonTyped
<1>2. server' = server \/ server' = [server EXCEPT ![serverTransports[k]].closed = TRUE]
  BY DEF HangUpServer
<1>3. \A u \in Servers : /\ server'[u].key = server[u].key /\ server'[u].inits = server[u].inits
                         /\ server'[u].open = server[u].open
  <2> SUFFICES ASSUME NEW u \in Servers
               PROVE  /\ server'[u].key = server[u].key /\ server'[u].inits = server[u].inits
                      /\ server'[u].open = server[u].open
    OBVIOUS
  <2> DEFINE x == server[u]
  <2>1. x \in Processes
    BY <1>1
  <2>2. server'[u] = x \/ server'[u] = [x EXCEPT !.closed = TRUE]
    BY <1>1, <1>2
  <2> HIDE DEF x
  <2>3. server'[u].key = x.key /\ server'[u].inits = x.inits /\ server'[u].open = x.open
    BY <2>1, <2>2 DEF Processes
  <2>4. QED
    BY <2>3 DEF x
<1>4. \A u \in Servers : Listening(u)' => Listening(u)
  BY <1>1 DEF Listening
<1>5. /\ DOMAIN serverTransports' \subseteq DOMAIN serverTransports
      /\ \A j \in DOMAIN serverTransports' : serverTransports'[j] = serverTransports[j]
  BY DEF HangUpServer, Without, Restrict
<1>6. QED
  BY <1>3, <1>4, <1>5 DEF CalmProcesses

LEMMA ApplyCloseClientOrdered ==
  ASSUME BrokerInv, BrokerInv', OrderedInv, Unmixed', NEW t \in Threads, ApplyCloseClient(t)
  PROVE  OrderedInv'
<1>1. /\ Emit(t, <<>>) /\ UNCHANGED languages /\ UNCHANGED <<server, serverTransports>> /\ UNCHANGED reader
      /\ UNCHANGED <<asked, answered>>
  BY DEF ApplyCloseClient, Applied, clientVars
<1>2. QED
  BY <1>1, CalmNothing, CalmSame, CalmUntouched, CalmAsks

LEMMA ApplyShutdownOrdered ==
  ASSUME BrokerInv, BrokerInv', OrderedInv, Unmixed', NEW t \in Threads, ApplyShutdown(t)
  PROVE  OrderedInv'
<1>1. /\ Emit(t, <<>>) /\ UNCHANGED languages /\ UNCHANGED <<server, serverTransports>> /\ UNCHANGED reader
      /\ UNCHANGED <<asked, answered>>
  BY DEF ApplyShutdown, Applied, clientVars, daemonVars
<1>2. QED
  BY <1>1, CalmNothing, CalmSame, CalmUntouched, CalmAsks

LEMMA ApplyCloseServerOrdered ==
  ASSUME BrokerInv, BrokerInv', OrderedInv, Unmixed', NEW t \in Threads, ApplyCloseServer(t)
  PROVE  OrderedInv'
<1> DEFINE k == Head(todo[t]).key
<1>1. /\ Emit(t, <<>>) /\ UNCHANGED languages /\ HangUpServer(k) /\ UNCHANGED reader
      /\ UNCHANGED <<asked, answered>>
  BY DEF ApplyCloseServer, Applied, clientVars
<1> HIDE DEF k
<1>2. CalmProcesses
  <2>1. CASE k \in DOMAIN serverTransports
    <3>1. serverTransports[k] \in Servers
      BY <2>1 DEF BrokerInv, DaemonTyped
    <3>2. QED
      BY <1>1, <3>1, CalmHangUp
  <2>2. CASE k \notin DOMAIN serverTransports
    <3>1. UNCHANGED <<server, serverTransports>>
      BY <1>1, <2>2 DEF HangUpServer
    <3>2. QED
      BY <1>1, <3>1, CalmUntouched
  <2>3. QED
    BY <2>1, <2>2
<1>3. QED
  BY <1>1, <1>2, CalmNothing, CalmSame, CalmAsks

LEMMA FailToSpawnOrdered ==
  ASSUME BrokerInv, BrokerInv', OrderedInv, Unmixed', NEW t \in Threads, FailToSpawn(t)
  PROVE  OrderedInv'
<1> DEFINE k == Head(todo[t]).key
           e == Entry(k)
           f == [e EXCEPT !.status = "Failed", !.queue = <<>>]
           acts == FlushQueue(e)
<1>1. /\ Emit(t, acts) /\ Put(k, f) /\ UNCHANGED <<server, serverTransports>> /\ UNCHANGED reader
      /\ UNCHANGED <<asked, answered>> /\ Next1(t, "SpawnServer")
  BY DEF FailToSpawn, ServerSpawnFailed, clientVars, daemonVars
<1>2. k \in Keys
  BY <1>1, HeadFields
<1> HIDE DEF k
<1>3. IsEntry(e) /\ e.queue \in Seq(Conns) /\ e.nextId \in Nat
  <2>1. IsEntry(e)
    BY <1>2, EntryOf DEF BrokerInv
  <2> HIDE DEF e
  <2>2. QED
    BY <2>1, EntryFields
<1>4. acts \in Seq(Actions) /\ \A K : \A a \in Members(acts) : Harmless(a, K)
  <2>1. InitializeReply \in ClientFrames /\ InitializeReply.m # "reply"
    BY FramesTyped DEF InitializeReply
  <2>2. acts = [i \in DOMAIN e.queue |-> SendToClient(e.queue[i], InitializeReply)]
    BY DEF FlushQueue
  <2> HIDE DEF e, acts, f
  <2>3. QED
    BY <1>3, <2>1, <2>2, ToldHarmless
<1>5. CalmEntries({})
  <2>1. /\ f.running = e.running /\ f.nextId = e.nextId /\ f.relayed = e.relayed /\ f.status = "Failed"
    BY <1>3 DEF IsEntry, Entries
  <2>2. Known(k) => e = languages[k]
    BY DEF Entry
  <2>3. ~Known(k) => ~e.running /\ e.relayed = {}
    BY DEF Entry, NewEntry
  <2> HIDE DEF e, f
  <2>4. Known(k) => Calmer(languages[k], f)
    BY <1>3, <2>1, <2>2 DEF Calmer
  <2>5. ~Known(k) => Fresh(f)
    BY <2>1, <2>3 DEF Fresh
  <2>6. QED
    BY <1>1, <2>4, <2>5, CalmPut
<1> HIDE DEF acts, f, e
<1>6. CalmProcesses /\ CalmEditors
  BY <1>1, CalmUntouched, CalmAsks
<1>7. QED
  BY <1>1, <1>4, <1>5, <1>6, CalmCall

LEMMA AttachOrdered ==
  ASSUME BrokerInv, BrokerInv', OrderedInv, Unmixed', NEW c \in Conns, NEW k \in Keys, Attach(c, k)
  PROVE  OrderedInv'
<1>1. /\ handler[c] = "new" /\ ClientAttached(c, c, k) /\ UNCHANGED <<server, serverTransports>>
      /\ UNCHANGED reader /\ UNCHANGED <<asked, answered>>
  BY DEF Attach
<1>2. c \notin DOMAIN connectionKey /\ c \in Threads
  BY <1>1, ThreadsAssumption DEF BrokerInv, ThreadsInv, HandlersInv
<1>3. \/ UNCHANGED languages /\ Emit(c, <<>>)
      \/ /\ ~Known(k)
         /\ languages' = With(Without(languages, Evicted), k, NewEntry("SpawningProcess"))
         /\ \E acts \in Seq(Farewells(Evicted)) : Emit(c, acts \o <<SpawnServer(k)>>)
  BY <1>1, <1>2, ClientAttachedStep DEF BrokerInv
<1>4. CalmProcesses /\ CalmEditors
  BY <1>1, CalmUntouched, CalmAsks
<1>5. CASE UNCHANGED languages /\ Emit(c, <<>>)
  BY <1>2, <1>4, <1>5, CalmNothing, CalmSame
<1>6. CASE /\ languages' = With(Without(languages, Evicted), k, NewEntry("SpawningProcess"))
           /\ \E acts \in Seq(Farewells(Evicted)) : Emit(c, acts \o <<SpawnServer(k)>>)
  <2> DEFINE K == Evicted
  <2>1. K \subseteq Keys
    BY EvictedIs DEF BrokerInv, RouterTyped, LanguagesTyped
  <2>2. PICK acts \in Seq(Farewells(K)) : Emit(c, acts \o <<SpawnServer(k)>>)
    BY <1>6
  <2>3. CalmEntries(K)
    BY <1>6, CalmReplaced
  <2> HIDE DEF K
  <2> DEFINE one == <<SpawnServer(k)>>
             all == acts \o one
  <2>4. one \in Seq(Actions) /\ Members(one) = {SpawnServer(k)}
    BY ActionsTyped, SequencesOf
  <2>5. acts \in Seq(Actions) /\ \A a \in Members(acts) : Harmless(a, K)
    <3>1. Farewells(K) \subseteq Actions
      BY <2>1, FarewellsAreActions
    <3>2. Members(acts) \subseteq Farewells(K)
      BY MembersTyped
    <3>3. QED
      BY <3>1, <3>2, FarewellsHarmless
  <2>6. Harmless(SpawnServer(k), K)
    BY HarmlessAre
  <2> HIDE DEF one
  <2>7. all \in Seq(Actions) /\ Members(all) = Members(acts) \cup Members(one)
    BY <2>4, <2>5, JoinIs
  <2>8. Emit(c, all) /\ \A a \in Members(all) : Harmless(a, K)
    BY <2>2, <2>4, <2>5, <2>6, <2>7 DEF one
  <2> HIDE DEF all
  <2>9. QED
    BY <1>2, <1>4, <2>3, <2>7, <2>8, CalmCall
<1>7. QED
  BY <1>3, <1>5, <1>6

LEMMA ClientEndsOrdered ==
  ASSUME BrokerInv, BrokerInv', OrderedInv, Unmixed', NEW c \in Conns, ClientEnds(c)
  PROVE  OrderedInv'
<1>1. /\ ClientDisconnected(c, c) /\ Emit(c, <<>>) /\ UNCHANGED <<server, serverTransports>>
      /\ UNCHANGED reader /\ UNCHANGED <<asked, answered>>
  BY DEF ClientEnds, ClientDisconnected, clientVars
<1>2. c \in Threads
  BY ThreadsAssumption
<1>3. CASE c \notin DOMAIN connectionKey
  <2>1. UNCHANGED languages
    BY <1>1, <1>3 DEF ClientDisconnected
  <2>2. QED
    BY <1>1, <1>2, <2>1, CalmNothing, CalmSame, CalmUntouched, CalmAsks
<1>4. CASE c \in DOMAIN connectionKey
  <2> DEFINE k == connectionKey[c]
             e == Entry(k)
             f == Left(e, c)
  <2>1. Put(k, f) /\ k \in Keys
    BY <1>1, <1>4 DEF ClientDisconnected, BrokerInv, RouterTyped, ConnectionsTyped
  <2> HIDE DEF k
  <2>2. IsEntry(e) /\ e.nextId \in Nat
    <3>1. IsEntry(e)
      BY <2>1, EntryOf DEF BrokerInv
    <3> HIDE DEF e
    <3>2. QED
      BY <3>1, EntryFields
  <2>3. (Known(k) => e = languages[k]) /\ (~Known(k) => Fresh(e))
    BY DEF Entry, NewEntry, Fresh
  <2> HIDE DEF e
  <2>4. f.running = e.running /\ f.nextId = e.nextId /\ f.relayed \subseteq e.relayed /\ f.status = e.status
    BY <2>2 DEF IsEntry, Entries, Left
  <2> HIDE DEF f
  <2>5. Known(k) => Calmer(languages[k], f)
    BY <2>2, <2>3, <2>4 DEF Calmer
  <2>6. ~Known(k) => Fresh(f)
    BY <2>3, <2>4 DEF Fresh
  <2>7. CalmEntries({})
    BY <2>1, <2>5, <2>6, CalmPut
  <2>8. QED
    BY <1>1, <1>2, <2>7, CalmNothing, CalmUntouched, CalmAsks
<1>5. QED
  BY <1>3, <1>4

LEMMA ReaderTopOrdered ==
  ASSUME BrokerInv, BrokerInv', OrderedInv, Unmixed', NEW s \in Servers, ReaderTop(s)
  PROVE  OrderedInv'
<1>1. /\ UNCHANGED <<todo, languages>> /\ UNCHANGED <<asked, answered>>
      /\ UNCHANGED <<server, serverTransports>>
      /\ \E r : reader' = [reader EXCEPT ![s] = r]
      /\ reader[s] = "top" /\ reader \in [Servers -> {"none", "created", "top", "reading", "ending", "leaving", "done"}]
  BY DEF ReaderTop, routerVars, clientVars, BrokerInv, DaemonTyped
<1>2. \A u \in Servers : reader'[u] # reader[u] =>
        reader[u] \in {"top", "reading"} \/ reader'[u] \notin {"top", "reading"}
  BY <1>1
<1>3. QED
  BY <1>1, <1>2, CalmAlone, CalmUntouched, CalmAsks

LEMMA ServerReaderFinishedOrdered ==
  ASSUME BrokerInv, BrokerInv', OrderedInv, Unmixed', NEW s \in Servers, ServerReaderFinished(s)
  PROVE  OrderedInv'
<1> DEFINE x == [server[s] EXCEPT !.alive = FALSE, !.open = {}]
<1>1. /\ UNCHANGED <<todo, languages>> /\ UNCHANGED <<asked, answered>> /\ UNCHANGED serverTransports
      /\ reader' = [reader EXCEPT ![s] = "done"]
      /\ server' = [server EXCEPT ![s].alive = FALSE, ![s].open = {}]
  BY DEF ServerReaderFinished, routerVars, clientVars
<1>2. server[s] \in Processes /\ server \in [Servers -> Processes]
  BY DEF BrokerInv, DaemonTyped
<1>3. /\ x.key = server[s].key /\ x.inits = server[s].inits /\ x.open = {}
      /\ server' = [server EXCEPT ![s] = x]
  BY <1>1, <1>2 DEF Processes
<1> HIDE DEF x
<1>4. \E r : /\ reader' = [reader EXCEPT ![s] = r]
             /\ r \in {"top", "reading"} => reader[s] \in {"top", "reading"}
  <2>1. "done" \notin {"top", "reading"}
    OBVIOUS
  <2> WITNESS "done"
  <2>2. QED
    BY <1>1, <2>1
<1>5. CalmProcesses
  BY <1>1, <1>3, <1>4, CalmProcess
<1>6. QED
  BY <1>1, <1>5, CalmAlone, CalmAsks

LEMMA ServerExitsOrdered ==
  ASSUME BrokerInv, BrokerInv', OrderedInv, Unmixed', NEW s \in Servers, ServerExits(s)
  PROVE  OrderedInv'
<1> DEFINE x == [server[s] EXCEPT !.alive = FALSE]
<1>1. /\ UNCHANGED <<todo, languages>> /\ UNCHANGED <<asked, answered>> /\ UNCHANGED serverTransports
      /\ UNCHANGED reader /\ server' = [server EXCEPT ![s].alive = FALSE]
  BY DEF ServerExits, routerVars, daemonVars, clientVars
<1>2. server[s] \in Processes /\ server \in [Servers -> Processes]
  BY DEF BrokerInv, DaemonTyped
<1>3. /\ x.key = server[s].key /\ x.inits = server[s].inits /\ x.open = server[s].open
      /\ server' = [server EXCEPT ![s] = x]
  BY <1>1, <1>2 DEF Processes
<1> HIDE DEF x
<1>4. CalmProcesses
  BY <1>1, <1>3, CalmProcess
<1>5. QED
  BY <1>1, <1>4, CalmAlone, CalmAsks

LEMMA ClientGoesOrdered ==
  ASSUME BrokerInv, BrokerInv', OrderedInv, Unmixed', NEW c \in Conns, ClientGoes(c)
  PROVE  OrderedInv'
<1>1. /\ UNCHANGED <<todo, languages>> /\ UNCHANGED <<asked, answered>>
      /\ UNCHANGED <<server, serverTransports>> /\ UNCHANGED reader
  BY DEF ClientGoes, routerVars, daemonVars
<1>2. QED
  BY <1>1, CalmAlone, CalmUntouched, CalmAsks

\* Entries torn down are called for no more.
LEMMA TearDownOrdered ==
  ASSUME BrokerInv, BrokerInv', OrderedInv, Unmixed', NEW t \in Threads,
         NEW ks \in SUBSET DOMAIN languages, NEW more \in Seq(Farewells(ks)),
         TearDownEntries(t, ks, more), CalmProcesses, CalmEditors
  PROVE  OrderedInv'
<1>1. languages' = Without(languages, ks) /\ \E acts \in Seq(Farewells(ks)) : Emit(t, acts)
  BY TornDown DEF BrokerInv
<1>2. PICK acts \in Seq(Farewells(ks)) : Emit(t, acts)
  BY <1>1
<1>3. acts \in Seq(Actions) /\ \A a \in Members(acts) : Harmless(a, ks)
  <2>1. ks \in SUBSET Keys
    BY DEF BrokerInv, RouterTyped, LanguagesTyped
  <2>2. Farewells(ks) \subseteq Actions
    BY <2>1, FarewellsAreActions
  <2>3. Members(acts) \subseteq Farewells(ks)
    BY MembersTyped
  <2>4. QED
    BY <2>2, <2>3, FarewellsHarmless
<1>4. CalmEntries(ks)
  BY <1>1, CalmTorn
<1>5. QED
  BY <1>2, <1>3, <1>4, CalmCall

LEMMA SweepOrdered ==
  ASSUME BrokerInv, BrokerInv', OrderedInv, Unmixed', Sweep
  PROVE  OrderedInv'
<1>1. PICK n \in 1..Len(recency) : IdleSweep(Sweeper, n)
  BY DEF Sweep
<1> DEFINE ks == {recency[i] : i \in {j \in 1..n : Idle(recency[j])}}
<1>2. ks \in SUBSET DOMAIN languages /\ <<>> \in Seq(Farewells(ks)) /\ Sweeper \in Threads
  BY SweptAre, ThreadsAssumption
<1>3. TearDownEntries(Sweeper, ks, <<>>)
  BY <1>1 DEF IdleSweep
<1> HIDE DEF ks
<1>4. UNCHANGED <<server, serverTransports>> /\ UNCHANGED reader /\ UNCHANGED <<asked, answered>>
  BY DEF Sweep, daemonVars, clientVars
<1>5. CalmProcesses /\ CalmEditors
  BY <1>4, CalmUntouched, CalmAsks
<1>6. QED
  BY <1>2, <1>3, <1>5, TearDownOrdered

LEMMA StopDaemonOrdered ==
  ASSUME BrokerInv, BrokerInv', OrderedInv, Unmixed', StopDaemon
  PROVE  OrderedInv'
<1> DEFINE ks == DOMAIN languages
           more == <<ShutdownProcess>>
<1>1. TearDownEntries(Sweeper, ks, more)
  BY DEF StopDaemon, Shutdown
<1>2. ks \in SUBSET DOMAIN languages /\ Sweeper \in Threads
  BY ThreadsAssumption
<1> HIDE DEF ks
<1>3. more \in Seq(Farewells(ks))
  BY FarewellsTyped, SequencesOf
<1>4. UNCHANGED <<server, serverTransports>> /\ UNCHANGED reader /\ UNCHANGED <<asked, answered>>
  BY DEF StopDaemon, clientVars
<1>5. CalmProcesses /\ CalmEditors
  BY <1>4, CalmUntouched, CalmAsks
<1> HIDE DEF more
<1>6. QED
  BY <1>1, <1>2, <1>3, <1>5, TearDownOrdered

LEMMA ForgetServerOrdered ==
  ASSUME BrokerInv, BrokerInv', OrderedInv, Unmixed', NEW s \in Servers, ForgetServer(s)
  PROVE  OrderedInv'
<1> DEFINE ks == {server[s].key} \cap DOMAIN languages
           k == server[s].key
<1>1. /\ reader' = [reader EXCEPT ![s] = "leaving"] /\ HangUpServer(k)
      /\ TearDownEntries(s, ks, <<>>) /\ UNCHANGED <<asked, answered>>
  BY DEF ForgetServer, ServerDisconnected, clientVars
<1>2. ks \in SUBSET DOMAIN languages /\ <<>> \in Seq(Farewells(ks)) /\ s \in Threads
  BY ThreadsAssumption
<1> HIDE DEF ks, k
<1>3. CalmProcesses /\ CalmEditors
  BY <1>1, CalmHangUp, CalmAsks
<1>4. QED
  BY <1>1, <1>2, <1>3, TearDownOrdered

-----------------------------------------------------------------------------
(* Handshakes *)

\* The entry k goes on as f, and only to the process of k is anything new written.
LEMMA EntryRelay ==
  ASSUME BrokerInv, BrokerInv', RelayInv, NEW k \in Keys, NEW f, Put(k, f), UNCHANGED server,
         \A a \in Actions : Pending(a)' /\ a.do = "SendToServer" => Pending(a) \/ a.key = k,
         \A s \in Servers : Listening(s)' => Listening(s) \/ server[s].key = k,
         f.running, \A p, q \in f.relayed : p.conn = q.conn /\ p.orig = q.orig => p = q,
         \A a \in Actions : Pending(a)' /\ a.do = "SendToServer" /\ a.key = k =>
           \A q \in Answerable(a.frame) : Matches(q, f),
         \A s \in Servers : server[s].key = k /\ Listening(s)' =>
           \A q \in server[s].open : Matches(q, f)
  PROVE  RelayInv'
<1>1. /\ DOMAIN languages' = DOMAIN languages \cup {k} /\ languages'[k] = f
      /\ \A j \in DOMAIN languages : j # k => languages'[j] = languages[j]
  BY DEF Put, With
<1>2. ASSUME NEW j \in DOMAIN languages'
      PROVE  LET e == languages'[j] IN
             /\ e.status \in {"AwaitingRealHandshake", "Ready"} => e.running
             /\ e.relayed # {} => e.running
             /\ \A p, q \in e.relayed : p.conn = q.conn /\ p.orig = q.orig => p = q
             /\ e.running =>
                  /\ \A a \in Actions : Pending(a)' /\ a.do = "SendToServer" /\ a.key = j =>
                       \A q \in Answerable(a.frame) : Matches(q, e)
                  /\ \A s \in Servers : server'[s].key = j /\ Listening(s)' =>
                       \A q \in server'[s].open : Matches(q, e)
  <2>1. CASE j = k
    <3> DEFINE e == languages'[j]
    <3>1. e = f
      BY <1>1, <2>1
    <3> HIDE DEF e
    <3>2. QED
      BY <2>1, <3>1 DEF e
  <2>2. CASE j # k
    <3> DEFINE e == languages[j]
    <3>1. j \in DOMAIN languages /\ languages'[j] = e
      BY <1>1, <2>2
    <3>2. /\ e.status \in {"AwaitingRealHandshake", "Ready"} => e.running
          /\ e.relayed # {} => e.running
          /\ \A p, q \in e.relayed : p.conn = q.conn /\ p.orig = q.orig => p = q
          /\ e.running =>
               /\ \A a \in Actions : Pending(a) /\ a.do = "SendToServer" /\ a.key = j =>
                    \A q \in Answerable(a.frame) : Matches(q, e)
               /\ \A s \in Servers : server[s].key = j /\ Listening(s) =>
                    \A q \in server[s].open : Matches(q, e)
      BY <3>1 DEF RelayInv
    <3> HIDE DEF e
    <3>3. QED
      BY <2>2, <3>1, <3>2
  <2>3. QED
    BY <2>1, <2>2
<1>3. QED
  BY <1>2 DEF RelayInv

\* What is answered stays as it is, if no new request is relayed.
LEMMA EntryReplies ==
  ASSUME BrokerInv, BrokerInv', ReplyInv, CalmEditors, NEW k, NEW f, Put(k, f),
         f.relayed \subseteq Entry(k).relayed,
         \A a \in Actions : Pending(a)' /\ IsReply(a) => Pending(a)
  PROVE  ReplyInv'
<1>1. /\ DOMAIN languages' = DOMAIN languages \cup {k} /\ languages'[k] = f
      /\ \A j \in DOMAIN languages : j # k => languages'[j] = languages[j]
  BY DEF Put, With
<1>2. Known(k) \/ f.relayed = {}
  BY DEF Entry, NewEntry
<1>3. \A j \in DOMAIN languages' : \A p \in languages'[j].relayed :
        j \in DOMAIN languages /\ p \in languages[j].relayed
  BY <1>1, <1>2 DEF Entry, Known
<1>4. QED
  BY <1>3, RepliesKept

\* The one handshake: none is pending, and the process has not had any.
LEMMA HandshakeStep ==
  ASSUME BrokerInv, OrderedInv, NEW t \in Threads, NEW k \in Keys, NEW e, IsEntry(e),
         Put(k, AfterHandshakeStart(e)), StartsHandshake(e), Emit(t, HandshakeStart(k, e)),
         UNCHANGED <<server, serverTransports>>, Unheard(k),
         \A a \in Actions : Pending(a) /\ IsHandshake(a) => a.key # k
  PROVE  /\ NoTwins' /\ HandshakeInv'
         /\ \A a \in Actions : Pending(a)' => Pending(a) \/ a = SendToServer(k, Initialize(e.nextId))
<1> DEFINE say == SendToServer(k, Initialize(e.nextId))
           acts == <<say>>
           f == AfterHandshakeStart(e)
<1>1. e.nextId \in Nat
  BY EntryFields
<1>2. /\ say \in Actions /\ say.do = "SendToServer" /\ say.key = k
      /\ say.frame = Initialize(e.nextId) /\ say.frame.m = "initialize"
  <2>1. say \in Actions
    BY <1>1, FramesTyped, ActionsTyped
  <2>2. QED
    BY <2>1 DEF SendToServer, Initialize
<1>3. f.status = "AwaitingRealHandshake"
  BY DEF AfterHandshakeStart, IsEntry, Entries
<1>4. Emit(t, acts) /\ Put(k, f)
  BY DEF HandshakeStart
<1> HIDE DEF say, f
<1>5. acts \in Seq(Actions) /\ Members(acts) = {say} /\ Len(acts) = 1
  BY <1>2, SequencesOf
<1> HIDE DEF acts
<1>6. todo \in [Threads -> Seq(Actions)]
  BY DEF BrokerInv, RouterTyped
<1>7. \A b \in Actions : Pending(b) => ~Twins(say, b)
  BY <1>2 DEF Twins, IsHandshake, IsReply
<1>8. NoTwins'
  <2>1. \A i, j \in 1..Len(acts) : Twins(acts[i], acts[j]) => i = j
    BY <1>5
  <2>2. QED
    BY <1>4, <1>5, <1>6, <1>7, <2>1, TwinsKept DEF OrderedInv
<1>9. \A a \in Actions : Pending(a)' => Pending(a) \/ a = say
  BY <1>4, <1>5, <1>6, PendingIs
<1>10. \A j : Unheard(j)' <=> Unheard(j)
  BY DEF Unheard
<1>11. ASSUME NEW j, Starting(j)' PROVE Starting(j) /\ j # k
  <2>1. /\ languages'[k] = f /\ \A i \in DOMAIN languages' : i # k => languages'[i] = languages[i]
        /\ DOMAIN languages' = DOMAIN languages \cup {k}
    BY <1>4 DEF Put, With
  <2>2. QED
    BY <1>3, <1>11, <2>1 DEF Starting, Known
<1>12. HandshakeInv'
  <2>1. OneHandshake'
    BY DEF OrderedInv, HandshakeInv, OneHandshake
  <2>2. \A j \in Keys : Starting(j)' => Unheard(j)'
    BY <1>10, <1>11 DEF OrderedInv, HandshakeInv
  <2>3. ASSUME NEW a \in Actions, Pending(a)', IsHandshake(a) PROVE ~Starting(a.key)' /\ Unheard(a.key)'
    <3>1. CASE Pending(a)
      BY <1>10, <1>11, <2>3, <3>1 DEF OrderedInv, HandshakeInv
    <3>2. CASE a = say
      BY <1>2, <1>10, <1>11, <3>2
    <3>3. QED
      BY <1>9, <2>3, <3>1, <3>2
  <2>4. QED
    BY <2>1, <2>2, <2>3 DEF HandshakeInv
<1>13. QED
  BY <1>8, <1>9, <1>12 DEF say

\* Its identifier is new: what is open, or to be written, still matches.
LEMMA HandshakeMatches ==
  ASSUME NEW e, IsEntry(e), StartsHandshake(e)
  PROVE  LET f == AfterHandshakeStart(e) IN
         /\ \A q \in Answerable(Initialize(e.nextId)) : Matches(q, f)
         /\ \A q : q.id \in Nat /\ Matches(q, e) => Matches(q, f)
         /\ f.running /\ f.relayed = e.relayed
<1> DEFINE f == AfterHandshakeStart(e)
<1>1. e.nextId \in Nat /\ e.relayed \subseteq Requests /\ e.running
  BY EntryFields DEF StartsHandshake
<1>2. f.nextId = e.nextId + 1 /\ f.relayed = e.relayed /\ (f.running <=> e.running)
  BY DEF AfterHandshakeStart, IsEntry, Entries
<1>3. \A p \in e.relayed : p.id < e.nextId
  BY DEF IsEntry, Numbered
<1> HIDE DEF f
<1>4. ASSUME NEW q \in Answerable(Initialize(e.nextId)) PROVE Matches(q, f)
  <2>1. q.id = e.nextId
    BY <1>4 DEF Answerable, Initialize
  <2>2. \A p \in f.relayed : p.id # q.id
    BY <1>1, <1>2, <1>3, <2>1 DEF Requests
  <2>3. QED
    BY <1>1, <1>2, <2>1, <2>2 DEF Matches
<1>5. ASSUME NEW q, q.id \in Nat, Matches(q, e) PROVE Matches(q, f)
  BY <1>1, <1>2, <1>5 DEF Matches
<1>6. QED
  BY <1>1, <1>2, <1>4, <1>5 DEF f

LEMMA ClientInitializeOrdered ==
  ASSUME BrokerInv, BrokerInv', OrderedInv, Unmixed', NEW t \in Threads, NEW c \in Conns, NEW k \in Keys,
         ClientInitialize(t, c, k), UNCHANGED <<server, serverTransports>>, UNCHANGED reader, CalmEditors
  PROVE  OrderedInv'
<1> DEFINE e == Entry(k)
           q == [e EXCEPT !.queue = Append(@, c)]
           f == AfterHandshakeStart(q)
<1>1. IsEntry(e) /\ e.nextId \in Nat
  <2>1. IsEntry(e)
    BY EntryOf DEF BrokerInv
  <2> HIDE DEF e
  <2>2. QED
    BY <2>1, EntryFields
<1>2. (Known(k) => e = languages[k]) /\ (~Known(k) => Fresh(e))
  BY DEF Entry, NewEntry, Fresh
<1>3. CASE e.status \in {"Ready", "Failed"}
  <2> DEFINE acts == <<SendToClient(c, InitializeReply)>>
  <2>1. Put(k, e) /\ Emit(t, acts)
    BY <1>3 DEF ClientInitialize
  <2>2. acts \in Seq(Actions) /\ Members(acts) = {SendToClient(c, InitializeReply)}
    BY FramesTyped, ActionsTyped, SequencesOf
  <2>3. \A a \in Members(acts) : Harmless(a, {})
    BY <2>2, HarmlessAre
  <2> HIDE DEF acts, e
  <2>4. CalmEntries({})
    <3>1. Calmer(e, e)
      BY <1>1 DEF Calmer
    <3>2. QED
      BY <1>2, <2>1, <3>1, CalmPut
  <2>5. CalmProcesses
    BY CalmUntouched
  <2>6. QED
    BY <2>1, <2>2, <2>3, <2>4, <2>5, CalmCall
<1>4. CASE e.status \notin {"Ready", "Failed"}
  <2>1. Put(k, f) /\ Emit(t, HandshakeStart(k, q))
    BY <1>4 DEF ClientInitialize
  <2> HIDE DEF e
  <2>2. IsEntry(q)
    BY <1>1, QueueGrows
  <2>3. /\ q.nextId = e.nextId /\ q.relayed = e.relayed /\ q.status = e.status
        /\ q.running <=> e.running
    BY <1>1 DEF IsEntry, Entries
  <2> HIDE DEF q
  <2>4. CASE ~StartsHandshake(q)
    <3>1. f = q /\ Put(k, q) /\ Emit(t, <<>>)
      BY <2>1, <2>4 DEF AfterHandshakeStart, HandshakeStart
    <3>2. CalmEntries({})
      <4>1. Known(k) => Calmer(languages[k], q)
        BY <1>1, <1>2, <2>3 DEF Calmer
      <4>2. ~Known(k) => Fresh(q)
        BY <1>2, <2>3 DEF Fresh
      <4>3. QED
        BY <3>1, <4>1, <4>2, CalmPut
    <3>3. QED
      BY <3>1, <3>2, CalmNothing, CalmUntouched
  <2>5. CASE StartsHandshake(q)
    <3>1. q.status = "SpawningProcess" /\ e.running /\ e.status = "SpawningProcess"
      BY <2>3, <2>5 DEF StartsHandshake
    <3>2. Known(k) /\ Starting(k)
      BY <1>2, <3>1 DEF Fresh, Starting
    <3>3. Unheard(k) /\ \A a \in Actions : Pending(a) /\ IsHandshake(a) => a.key # k
      BY <3>2 DEF OrderedInv, HandshakeInv
    <3>4. /\ NoTwins' /\ HandshakeInv'
          /\ \A a \in Actions : Pending(a)' => Pending(a) \/ a = SendToServer(k, Initialize(q.nextId))
      BY <2>1, <2>2, <2>5, <3>3, HandshakeStep
    <3>5. /\ \A p \in Answerable(Initialize(q.nextId)) : Matches(p, f)
          /\ \A p : p.id \in Nat /\ Matches(p, q) => Matches(p, f)
          /\ f.running /\ f.relayed = q.relayed
      BY <2>2, <2>5, HandshakeMatches
    <3>6. SendToServer(k, Initialize(q.nextId)).key = k
          /\ SendToServer(k, Initialize(q.nextId)).frame = Initialize(q.nextId)
      BY DEF SendToServer
    <3>7. \A p : Matches(p, e) => Matches(p, q)
      BY <2>3 DEF Matches
    <3>8. /\ \A p, r \in e.relayed : p.conn = r.conn /\ p.orig = r.orig => p = r
          /\ \A a \in Actions : Pending(a) /\ a.do = "SendToServer" /\ a.key = k =>
               \A p \in Answerable(a.frame) : Matches(p, e)
          /\ \A s \in Servers : server[s].key = k /\ Listening(s) => \A p \in server[s].open : Matches(p, e)
      BY <1>2, <3>1, <3>2 DEF OrderedInv, RelayInv, Known
    <3> HIDE DEF f
    <3>9. RelayInv'
      <4>1. ASSUME NEW a \in Actions, Pending(a)', a.do = "SendToServer", a.key = k,
                   NEW p \in Answerable(a.frame)
            PROVE  Matches(p, f)
        <5>1. CASE Pending(a)
          <6>1. Matches(p, e) /\ p.id \in Nat
            BY <3>8, <4>1, <5>1, AnswerableIds
          <6>2. QED
            BY <3>5, <3>7, <6>1
        <5>2. CASE a = SendToServer(k, Initialize(q.nextId))
          BY <3>5, <3>6, <4>1, <5>2
        <5>3. QED
          BY <3>4, <4>1, <5>1, <5>2
      <4>2. ASSUME NEW s \in Servers, server[s].key = k, Listening(s)', NEW p \in server[s].open
            PROVE  Matches(p, f)
        <5>1. Listening(s)
          BY <4>2 DEF Listening
        <5>2. Matches(p, e) /\ p.id \in Nat
          BY <3>8, <4>2, <5>1, OpenIs
        <5>3. QED
          BY <3>5, <3>7, <5>2
      <4>3. \A a \in Actions : Pending(a)' /\ a.do = "SendToServer" => Pending(a) \/ a.key = k
        BY <3>4, <3>6
      <4>4. \A s \in Servers : Listening(s)' => Listening(s) \/ server[s].key = k
        BY DEF Listening
      <4>5. \A p, r \in f.relayed : p.conn = r.conn /\ p.orig = r.orig => p = r
        BY <2>3, <3>5, <3>8
      <4>6. UNCHANGED server /\ RelayInv
        BY DEF OrderedInv
      <4>7. QED
        BY <2>1, <3>5, <4>1, <4>2, <4>3, <4>4, <4>5, <4>6, EntryRelay
    <3>10. ReplyInv'
      <4>1. \A a \in Actions : Pending(a)' /\ IsReply(a) => Pending(a)
        BY <3>4 DEF IsReply, SendToServer
      <4>2. f.relayed \subseteq Entry(k).relayed
        BY <2>3, <3>5 DEF e
      <4>3. QED
        BY <2>1, <4>1, <4>2, EntryReplies DEF OrderedInv
    <3>11. QED
      BY <3>4, <3>9, <3>10 DEF OrderedInv
  <2>6. QED
    BY <2>4, <2>5
<1>5. QED
  BY <1>3, <1>4

LEMMA StartReaderOrdered ==
  ASSUME BrokerInv, BrokerInv', OrderedInv, Unmixed', NEW t \in Threads, StartReader(t)
  PROVE  OrderedInv'
<1> DEFINE k == Head(todo[t]).key
           s == serverTransports[k]
           old == Entry(k)
           e == [old EXCEPT !.running = TRUE]
           f == AfterHandshakeStart(e)
<1>1. /\ holder = t /\ Earlier(k) = {} /\ reader' = [reader EXCEPT ![s] = "top"]
      /\ Put(k, f) /\ Emit(t, HandshakeStart(k, e))
      /\ UNCHANGED <<server, serverTransports>> /\ UNCHANGED <<asked, answered>>
  BY DEF StartReader, ServerSpawned, clientVars
<1>2. Registering(t) /\ t # None
  BY <1>1, ThreadsAssumption DEF BrokerInv, ThreadsInv, HolderInv
<1>3. /\ k \in DOMAIN serverTransports /\ k \in Keys /\ s \in Servers /\ reader[s] = "created"
  BY <1>2 DEF Registering, BrokerInv, DaemonTyped
<1>4. server[s].inits = 0 /\ server[s].open = {}
  BY <1>3 DEF BrokerInv, ThreadsInv, ReadersInv
\* Nobody has still to write to a predecessor.
<1>5. \A a \in Actions : Pending(a) /\ a.do = "SendToServer" => a.key # k
  BY <1>1, <1>2, TodoMembers DEF OrderedInv, Unmixed, Pending, BrokerInv, RouterTyped
<1>6. Unheard(k)
  BY <1>4 DEF Unheard
<1>7. \A a \in Actions : Pending(a) /\ IsHandshake(a) => a.key # k
  BY <1>5 DEF IsHandshake
<1>8. \A u \in Servers : Listening(u)' => Listening(u) \/ u = s
  BY <1>1 DEF Listening, BrokerInv, DaemonTyped
<1>9. \A u \in Servers : server[u].key = k /\ Listening(u)' => u = s
  <2>1. \A u \in Servers : server[u].key = k => ~Listening(u)
    BY <1>1 DEF Earlier, Listening
  <2>2. QED
    BY <1>8, <2>1
<1>10. server[s].key = k
  BY <1>3 DEF BrokerInv, ThreadsInv, TransportsInv
<1>11. CalmEditors
  BY <1>1, CalmAsks
<1> HIDE DEF k, s
<1>12. IsEntry(old) /\ IsEntry(e)
  <2>1. IsEntry(old)
    BY <1>3, EntryOf DEF BrokerInv
  <2> HIDE DEF old
  <2>2. QED
    BY <2>1, RunningEntry
<1>13. e.running /\ e.relayed = old.relayed
  <2> HIDE DEF old
  <2>1. QED
    BY <1>12 DEF IsEntry, Entries
<1>14. \A p, r \in old.relayed : p.conn = r.conn /\ p.orig = r.orig => p = r
  BY DEF OrderedInv, RelayInv, Entry, NewEntry, Known
<1>15. old.relayed = Entry(k).relayed
  OBVIOUS
<1> HIDE DEF old, e
<1>16. CASE StartsHandshake(e)
  <2>1. /\ NoTwins' /\ HandshakeInv'
        /\ \A a \in Actions : Pending(a)' => Pending(a) \/ a = SendToServer(k, Initialize(e.nextId))
    BY <1>1, <1>3, <1>6, <1>7, <1>12, <1>16, HandshakeStep
  <2>2. /\ \A p \in Answerable(Initialize(e.nextId)) : Matches(p, f)
        /\ f.running /\ f.relayed = e.relayed
    BY <1>12, <1>16, HandshakeMatches
  <2>3. SendToServer(k, Initialize(e.nextId)).key = k
        /\ SendToServer(k, Initialize(e.nextId)).frame = Initialize(e.nextId)
    BY DEF SendToServer
  <2> HIDE DEF f
  <2>4. RelayInv'
    <3>1. \A a \in Actions : Pending(a)' /\ a.do = "SendToServer" => Pending(a) \/ a.key = k
      BY <2>1, <2>3
    <3>2. \A u \in Servers : Listening(u)' => Listening(u) \/ server[u].key = k
      BY <1>8, <1>10
    <3>3. \A a \in Actions : Pending(a)' /\ a.do = "SendToServer" /\ a.key = k =>
            \A p \in Answerable(a.frame) : Matches(p, f)
      BY <1>5, <2>1, <2>2, <2>3
    <3>4. \A u \in Servers : server[u].key = k /\ Listening(u)' => \A p \in server[u].open : Matches(p, f)
      BY <1>4, <1>9
    <3>5. \A p, r \in f.relayed : p.conn = r.conn /\ p.orig = r.orig => p = r
      BY <1>13, <1>14, <2>2
    <3>6. UNCHANGED server /\ RelayInv
      BY <1>1 DEF OrderedInv
    <3>7. QED
      BY <1>1, <1>3, <2>2, <3>1, <3>2, <3>3, <3>4, <3>5, <3>6, EntryRelay
  <2>5. ReplyInv'
    <3>1. \A a \in Actions : Pending(a)' /\ IsReply(a) => Pending(a)
      BY <2>1 DEF IsReply, SendToServer
    <3>2. f.relayed \subseteq Entry(k).relayed
      BY <1>13, <1>15, <2>2
    <3>3. QED
      BY <1>1, <1>11, <3>1, <3>2, EntryReplies DEF OrderedInv
  <2>6. QED
    BY <2>1, <2>4, <2>5 DEF OrderedInv
<1>17. CASE ~StartsHandshake(e)
  <2>1. f = e /\ Put(k, e) /\ Emit(t, <<>>)
    BY <1>1, <1>17 DEF AfterHandshakeStart, HandshakeStart
  <2>2. CalmTodo({})
    <3>1. <<>> \in Seq(Actions) /\ \A a \in Members(<<>>) : Harmless(a, {})
      BY DEF Members
    <3>2. NoTwins
      BY DEF OrderedInv
    <3>3. QED
      BY ONLY BrokerInv, t \in Threads, <2>1, <3>1, <3>2, CalmEmission
  <2>3. \A a \in Actions : Pending(a)' /\ a.do = "SendToServer" => Answerable(a.frame) = {} \/ Pending(a)
    BY <2>2 DEF CalmTodo, Harmless
  <2>4. \A a \in Actions : Pending(a)' /\ IsHandshake(a) => Pending(a)
    BY <2>2 DEF CalmTodo, Harmless
  <2>5. \A a \in Actions : Pending(a)' /\ IsReply(a) => Pending(a)
    BY <2>2 DEF CalmTodo, Harmless
  <2>6. \A j : Unheard(j)' <=> Unheard(j)
    BY <1>1 DEF Unheard
  <2>7. \A j : Starting(j)' => Starting(j) \/ j = k
    <3>1. DOMAIN languages' = DOMAIN languages \cup {k}
          /\ \A j \in DOMAIN languages : j # k => languages'[j] = languages[j]
      BY <2>1 DEF Put, With
    <3>2. QED
      BY <3>1 DEF Starting, Known
  <2>8. HandshakeInv'
    <3>1. OneHandshake'
      BY <1>1 DEF OrderedInv, HandshakeInv, OneHandshake
    <3>2. \A j \in Keys : Starting(j)' => Unheard(j)'
      BY <1>6, <2>6, <2>7 DEF OrderedInv, HandshakeInv
    <3>3. ASSUME NEW a \in Actions, Pending(a)', IsHandshake(a) PROVE ~Starting(a.key)' /\ Unheard(a.key)'
      <4>1. Pending(a) /\ a.key # k
        BY <1>7, <2>4, <3>3
      <4>2. ~Starting(a.key) /\ Unheard(a.key)
        BY <3>3, <4>1 DEF OrderedInv, HandshakeInv
      <4>3. QED
        BY <2>6, <2>7, <4>1, <4>2
    <3>4. QED
      BY <3>1, <3>2, <3>3 DEF HandshakeInv
  <2>9. RelayInv'
    <3>1. \A a \in Actions : Pending(a)' /\ a.do = "SendToServer" => Pending(a) \/ a.key = k
      <4>1. <<>> \in Seq(Actions) /\ Members(<<>>) = {}
        BY DEF Members
      <4>2. todo \in [Threads -> Seq(Actions)]
        BY DEF BrokerInv, RouterTyped
      <4>3. QED
        BY ONLY <2>1, <4>1, <4>2, t \in Threads, PendingIs
    <3>2. \A u \in Servers : Listening(u)' => Listening(u) \/ server[u].key = k
      BY <1>8, <1>10
    <3>3. \A a \in Actions : Pending(a)' /\ a.do = "SendToServer" /\ a.key = k =>
            \A p \in Answerable(a.frame) : Matches(p, e)
      BY <1>5, <2>3
    <3>4. \A u \in Servers : server[u].key = k /\ Listening(u)' => \A p \in server[u].open : Matches(p, e)
      BY <1>4, <1>9
    <3>5. \A p, r \in e.relayed : p.conn = r.conn /\ p.orig = r.orig => p = r
      BY <1>13, <1>14
    <3>6. UNCHANGED server /\ RelayInv
      BY <1>1 DEF OrderedInv
    <3>7. QED
      BY <1>3, <1>13, <2>1, <3>1, <3>2, <3>3, <3>4, <3>5, <3>6, EntryRelay
  <2>10. ReplyInv'
    <3>1. e.relayed \subseteq Entry(k).relayed
      BY <1>13, <1>15
    <3>2. QED
      BY <1>11, <2>1, <2>5, <3>1, EntryReplies DEF OrderedInv
  <2>11. NoTwins'
    BY <2>2 DEF CalmTodo
  <2>12. QED
    BY <2>8, <2>9, <2>10, <2>11 DEF OrderedInv
<1>18. QED
  BY <1>16, <1>17

\* A new process is read by nobody yet, and has heard nothing.
LEMMA RegisterServerOrdered ==
  ASSUME BrokerInv, BrokerInv', OrderedInv, Unmixed', NEW t \in Threads, RegisterServer(t)
  PROVE  OrderedInv'
<1> DEFINE k == Head(todo[t]).key
<1>1. PICK s \in Servers :
        /\ reader[s] = "none"
        /\ server' = [server EXCEPT ![s] = [NoServer EXCEPT !.key = k, !.alive = TRUE]]
        /\ serverTransports' = With(serverTransports, k, s)
        /\ reader' = [reader EXCEPT ![s] = "created"]
  BY DEF RegisterServer
<1>2. UNCHANGED todo /\ UNCHANGED languages /\ UNCHANGED <<asked, answered>>
  BY DEF RegisterServer, routerVars, clientVars
<1> HIDE DEF k
<1>3. /\ server \in [Servers -> Processes] /\ DOMAIN reader = Servers
      /\ \A j \in DOMAIN serverTransports : serverTransports[j] \in Servers
  BY DEF BrokerInv, DaemonTyped
<1>4. /\ server'[s].inits = 0
      /\ \A u \in Servers : u # s => server'[u] = server[u]
  BY <1>1, <1>3 DEF NoServer
<1>5. \A u \in Servers : Listening(u)' => u # s /\ Listening(u)
  BY <1>1, <1>3 DEF Listening
<1>6. ASSUME NEW j, Unheard(j) PROVE Unheard(j)'
  <2> SUFFICES ASSUME j \in DOMAIN serverTransports' PROVE server'[serverTransports'[j]].inits = 0
    BY DEF Unheard
  <2>1. CASE j = k
    BY <1>1, <1>4, <2>1 DEF With
  <2>2. CASE j # k
    <3>1. j \in DOMAIN serverTransports /\ serverTransports'[j] = serverTransports[j]
      BY <1>1, <2>2 DEF With
    <3>2. serverTransports[j] # s
      BY <1>1, <3>1 DEF BrokerInv, ThreadsInv, TransportsInv
    <3>3. QED
      BY <1>3, <1>4, <1>6, <3>1, <3>2 DEF Unheard
  <2>3. QED
    BY <2>1, <2>2
<1>7. \A a : Pending(a)' <=> Pending(a)
  BY <1>2 DEF Pending
<1>8. HandshakeInv'
  <2>1. OneHandshake'
    BY <1>4 DEF OrderedInv, HandshakeInv, OneHandshake
  <2>2. \A j : Starting(j)' <=> Starting(j)
    BY <1>2 DEF Starting, Known
  <2>3. \A j \in Keys : Starting(j)' => Unheard(j)'
    BY <1>6, <2>2 DEF OrderedInv, HandshakeInv
  <2>4. ASSUME NEW a \in Actions, Pending(a)', IsHandshake(a) PROVE ~Starting(a.key)' /\ Unheard(a.key)'
    BY <1>6, <1>7, <2>2, <2>4 DEF OrderedInv, HandshakeInv
  <2>5. QED
    BY <2>1, <2>3, <2>4 DEF HandshakeInv
<1>9. RelayInv'
  <2>1. \A u \in Servers : Listening(u)' => Listening(u) /\ server'[u] = server[u]
    BY <1>4, <1>5
  <2>2. QED
    BY <1>2, <1>7, <2>1 DEF OrderedInv, RelayInv
<1>10. ReplyInv'
  <2>1. CalmEditors
    BY <1>2, CalmAsks
  <2>2. \A j \in DOMAIN languages' : \A p \in languages'[j].relayed :
          j \in DOMAIN languages /\ p \in languages[j].relayed
    BY <1>2
  <2>3. QED
    BY <1>7, <2>1, <2>2, RepliesKept DEF OrderedInv
<1>11. NoTwins'
  BY <1>2, CalmSilence DEF OrderedInv, CalmTodo
<1>12. QED
  BY <1>8, <1>9, <1>10, <1>11 DEF OrderedInv

-----------------------------------------------------------------------------
(* Requests and their answers *)

LEMMA RequestOrdered ==
  ASSUME BrokerInv, BrokerInv', OrderedInv, Unmixed', NEW t \in Threads, NEW c \in Conns,
         NEW k \in DOMAIN languages, languages[k].status = "Ready",
         NEW o, o = asked[c] + 1, NEW r, r = [id |-> languages[k].nextId, conn |-> c, orig |-> o],
         NEW f, f = [languages[k] EXCEPT !.relayed = @ \cup {r}, !.nextId = languages[k].nextId + 1],
         Put(k, f), NEW say, say = SendToServer(k, Relayed(languages[k].nextId, <<c, o>>)),
         Emit(t, <<say>>), UNCHANGED <<server, serverTransports>>, UNCHANGED <<reader, answered>>,
         asked' = [asked EXCEPT ![c] = o]
  PROVE  OrderedInv'
<1> DEFINE e == languages[k]
           n == e.nextId
           acts == <<say>>
<1>1. IsEntry(e) /\ n \in Nat /\ e.relayed \subseteq Requests /\ k \in Keys
  BY EntryIs
<1>2. asked \in [Conns -> Nat] /\ o \in Nat /\ asked'[c] = o
  BY DEF BrokerInv, ClientsTyped
<1>3. /\ say \in Actions /\ say.do = "SendToServer" /\ say.key = k
      /\ say.frame = Relayed(n, <<c, o>>) /\ say.frame.m = "request"
      /\ Answerable(say.frame) = {[id |-> n, of |-> <<c, o>>]}
  <2>1. <<c, o>> \in Origins
    BY <1>2 DEF Origins
  <2>2. say \in Actions
    BY <1>1, <2>1, FramesTyped, ActionsTyped
  <2>3. say.do = "SendToServer" /\ say.key = k /\ say.frame = Relayed(n, <<c, o>>)
    BY DEF SendToServer
  <2>4. Answerable(Relayed(n, <<c, o>>)) = {[id |-> n, of |-> <<c, o>>]} /\ Relayed(n, <<c, o>>).m = "request"
    BY DEF Answerable, Relayed
  <2>5. QED
    BY <2>2, <2>3, <2>4
<1>4. /\ f.relayed = e.relayed \cup {r} /\ f.nextId = n + 1 /\ f.status = "Ready"
      /\ f.running <=> e.running
  <2> HIDE DEF e
  <2>1. QED
    BY <1>1 DEF IsEntry, Entries, e
<1>5. r.id = n /\ r.conn = c /\ r.orig = o
  OBVIOUS
<1>6. acts \in Seq(Actions) /\ Members(acts) = {say} /\ Emit(t, acts)
  BY <1>3, SequencesOf
<1>7. CalmProcesses /\ CalmEditors
  <2>1. CalmProcesses
    BY CalmUntouched
  <2>2. CalmEditors
    BY <1>2 DEF CalmEditors
  <2>3. QED
    BY <2>1, <2>2
<1> HIDE DEF acts, n
<1>8. CalmTodo({k}) /\ \A a \in Actions : Pending(a)' => Pending(a) \/ a = say
  <2>1. \A a \in Members(acts) : Harmless(a, {k})
    BY <1>3, <1>6 DEF Harmless, IsHandshake, IsReply
  <2>2. NoTwins /\ todo \in [Threads -> Seq(Actions)]
    BY DEF OrderedInv, BrokerInv, RouterTyped
  <2>3. CalmTodo({k})
    BY <1>6, <2>1, <2>2, CalmEmission
  <2>4. QED
    BY <1>6, <2>2, <2>3, PendingIs
<1>9. /\ DOMAIN languages' = DOMAIN languages \cup {k} /\ languages'[k] = f
      /\ \A j \in DOMAIN languages : j # k => languages'[j] = languages[j]
  BY DEF Put, With
<1>10. /\ e.running
       /\ \A p, q \in e.relayed : p.conn = q.conn /\ p.orig = q.orig => p = q
       /\ \A a \in Actions : Pending(a) /\ a.do = "SendToServer" /\ a.key = k =>
            \A p \in Answerable(a.frame) : Matches(p, e)
       /\ \A s \in Servers : server[s].key = k /\ Listening(s) => \A p \in server[s].open : Matches(p, e)
  BY DEF OrderedInv, RelayInv
<1>11. \A p \in e.relayed : p.orig <= asked[p.conn]
  BY DEF OrderedInv, ReplyInv
<1>12. \A p \in e.relayed : p.id < n
  BY <1>1 DEF IsEntry, Numbered, n
<1> HIDE DEF e
<1>13. HandshakeInv'
  <2>1. \A j \in Keys : Starting(j)' => Starting(j)
    BY <1>4, <1>9 DEF Starting, Known
  <2>2. \A a \in Actions : Pending(a)' /\ IsHandshake(a) => Pending(a)
    BY <1>8 DEF CalmTodo, Harmless
  <2>3. QED
    BY <1>7, <2>1, <2>2, HandshakesKept DEF OrderedInv
<1>14. ASSUME NEW q, q.id \in Nat, Matches(q, e) PROVE Matches(q, f)
  BY <1>1, <1>4, <1>5, <1>14 DEF Matches, n
<1>15. Matches([id |-> n, of |-> <<c, o>>], f)
  <2> DEFINE q == [id |-> n, of |-> <<c, o>>]
  <2>1. q.id = n /\ q.of = <<c, o>>
    OBVIOUS
  <2>2. \A p \in e.relayed : p.id # n
    BY <1>1, <1>12 DEF Requests
  <2>3. \A p \in f.relayed : p.id = n => p = r
    BY <1>4, <2>2
  <2> HIDE DEF q
  <2>4. QED
    BY <1>1, <1>4, <1>5, <2>1, <2>3 DEF Matches, q
<1>16. RelayInv'
  <2>1. f.running
    BY <1>4, <1>10
  <2>2. \A p, q \in f.relayed : p.conn = q.conn /\ p.orig = q.orig => p = q
    <3>1. \A p \in e.relayed : ~(p.conn = c /\ p.orig = o)
      BY <1>1, <1>2, <1>11
    <3>2. QED
      BY <1>4, <1>5, <1>10, <3>1
  <2>3. \A a \in Actions : Pending(a)' /\ a.do = "SendToServer" => Pending(a) \/ a.key = k
    BY <1>3, <1>8
  <2>4. ASSUME NEW a \in Actions, Pending(a)', a.do = "SendToServer", a.key = k,
               NEW p \in Answerable(a.frame)
        PROVE  Matches(p, f)
    <3>1. CASE Pending(a)
      <4>1. Matches(p, e) /\ p.id \in Nat
        BY <1>10, <2>4, <3>1, AnswerableIds
      <4>2. QED
        BY <1>14, <4>1
    <3>2. CASE a = say
      BY <1>3, <1>15, <2>4, <3>2
    <3>3. QED
      BY <1>8, <2>4, <3>1, <3>2
  <2>5. ASSUME NEW s \in Servers, server[s].key = k, Listening(s)', NEW p \in server[s].open
        PROVE  Matches(p, f)
    <3>1. Listening(s)
      BY <2>5 DEF Listening
    <3>2. Matches(p, e) /\ p.id \in Nat
      BY <1>10, <2>5, <3>1, OpenIs
    <3>3. QED
      BY <1>14, <3>2
  <2>6. \A s \in Servers : Listening(s)' => Listening(s) \/ server[s].key = k
    BY DEF Listening
  <2>7. UNCHANGED server /\ RelayInv
    BY DEF OrderedInv
  <2>8. \A a \in Actions : Pending(a)' /\ a.do = "SendToServer" /\ a.key = k =>
          \A q \in Answerable(a.frame) : Matches(q, f)
    BY <2>4
  <2>9. \A s \in Servers : server[s].key = k /\ Listening(s)' => \A q \in server[s].open : Matches(q, f)
    BY <2>5
  <2>10. k \in Keys
    BY <1>1
  <2>11. QED
    BY ONLY BrokerInv, BrokerInv', Put(k, f), <2>1, <2>2, <2>3, <2>6, <2>7, <2>8, <2>9, <2>10, EntryRelay
<1>17. ReplyInv'
  <2>1. ASSUME NEW j \in DOMAIN languages', NEW p \in languages'[j].relayed
        PROVE  \/ j \in DOMAIN languages /\ p \in languages[j].relayed
               \/ asked[p.conn] < p.orig /\ p.orig <= asked'[p.conn]
    <3>1. asked[c] < o /\ o <= asked'[c]
      BY <1>2
    <3>2. CASE j = k
      <4>1. p \in e.relayed \/ p = r
        BY <1>4, <1>9, <2>1, <3>2
      <4>2. QED
        BY <1>5, <3>1, <3>2, <4>1 DEF e
    <3>3. CASE j # k
      BY <1>9, <2>1, <3>3
    <3>4. QED
      BY <3>2, <3>3
  <2>2. \A a \in Actions : Pending(a)' /\ IsReply(a) => Pending(a)
    BY <1>8 DEF CalmTodo, Harmless
  <2>3. QED
    BY <1>7, <2>1, <2>2, RepliesGrow DEF OrderedInv
<1>18. QED
  BY <1>8, <1>13, <1>16, <1>17 DEF OrderedInv, CalmTodo

LEMMA ReadClientOrdered ==
  ASSUME BrokerInv, BrokerInv', OrderedInv, Unmixed', NEW c \in Conns, ReadClient(c)
  PROVE  OrderedInv'
<1>1. UNCHANGED <<server, serverTransports>> /\ UNCHANGED reader /\ UNCHANGED answered
  BY DEF ReadClient, daemonVars
<1>2. PICK f \in Says(c) :
        /\ asked'  = [asked EXCEPT ![c] = @ + IF client[c] = "ready" THEN 1 ELSE 0]
        /\ ClientFrame(c, c, f)
  BY DEF ReadClient
<1>3. /\ f.m \in {"initialize", "initialized", "notice"} \/ (f.m = "request" /\ f.id = asked[c] + 1)
      /\ asked[c] \in Nat /\ asked \in [Conns -> Nat]
      /\ f.m = "request" => client[c] = "ready"
  BY SaysIs DEF BrokerInv, ClientsTyped
<1>4. CalmEditors /\ CalmProcesses
  <2> DEFINE n == IF client[c] = "ready" THEN 1 ELSE 0
  <2>1. n \in {0, 1} /\ asked' = [asked EXCEPT ![c] = @ + n]
    BY <1>2
  <2> HIDE DEF n
  <2>2. CalmEditors
    BY <1>1, <1>3, <2>1 DEF CalmEditors
  <2>3. QED
    BY <1>1, <2>2, CalmUntouched
<1>5. c \in Threads
  BY ThreadsAssumption
<1>6. CASE c \notin DOMAIN connectionKey
  <2>1. Emit(c, <<>>) /\ UNCHANGED languages
    BY <1>2, <1>6 DEF ClientFrame
  <2>2. QED
    BY <1>4, <1>5, <2>1, CalmNothing, CalmSame
<1>7. CASE c \in DOMAIN connectionKey
  <2> DEFINE k == connectionKey[c]
             e == Entry(k)
  <2>1. k \in Keys
    BY <1>7 DEF BrokerInv, RouterTyped, ConnectionsTyped
  <2>2. /\ f.m = "initialize" => ClientInitialize(c, c, k)
        /\ f.m = "initialized" => ClientInitialized(c, c, k)
        /\ f.m \in {"notice", "request"} => ClientTraffic(c, c, k, f)
    BY <1>2, <1>7 DEF ClientFrame
  <2> HIDE DEF k
  <2>3. IsEntry(e) /\ e.nextId \in Nat
    <3>1. IsEntry(e)
      BY <2>1, EntryOf DEF BrokerInv
    <3> HIDE DEF e
    <3>2. QED
      BY <3>1, EntryFields
  <2>4. (Known(k) => e = languages[k]) /\ (~Known(k) => Fresh(e))
    BY DEF Entry, NewEntry, Fresh
  <2>5. CASE f.m = "initialize"
    BY <1>1, <1>4, <1>5, <2>1, <2>2, <2>5, ClientInitializeOrdered
  <2>6. CASE f.m = "initialized"
    <3> DEFINE g == IF e.status = "Ready" THEN [e EXCEPT !.attached = @ \cup {c}] ELSE e
    <3>1. Put(k, g) /\ Emit(c, <<>>)
      BY <2>2, <2>6 DEF ClientInitialized
    <3> HIDE DEF e
    <3>2. /\ g.nextId = e.nextId /\ g.relayed = e.relayed /\ g.status = e.status
          /\ g.running <=> e.running
      BY <2>3 DEF IsEntry, Entries
    <3> HIDE DEF g
    <3>3. Known(k) => Calmer(languages[k], g)
      BY <2>3, <2>4, <3>2 DEF Calmer
    <3>4. ~Known(k) => Fresh(g)
      BY <2>4, <3>2 DEF Fresh
    <3>5. CalmEntries({})
      BY <3>1, <3>3, <3>4, CalmPut
    <3>6. QED
      BY <1>4, <1>5, <3>1, <3>5, CalmNothing
  <2>7. CASE f.m \in {"notice", "request"} /\ (c \notin e.attached \/ e.status # "Ready")
    <3> DEFINE acts == <<CloseClient(c)>>
    <3>1. Put(k, e) /\ Emit(c, acts)
      BY <2>2, <2>7 DEF ClientTraffic
    <3>2. acts \in Seq(Actions) /\ \A a \in Members(acts) : Harmless(a, {})
      <4>1. acts \in Seq(Actions) /\ Members(acts) = {CloseClient(c)}
        BY ActionsTyped, SequencesOf
      <4>2. QED
        BY <4>1, HarmlessAre
    <3> HIDE DEF acts, e
    <3>3. CalmEntries({})
      <4>1. Known(k) => Calmer(languages[k], e)
        BY <2>3, <2>4 DEF Calmer
      <4>2. QED
        BY <2>4, <3>1, <4>1, CalmPut
    <3>4. QED
      BY <1>4, <1>5, <3>1, <3>2, <3>3, CalmCall
  <2>8. CASE f.m = "notice" /\ c \in e.attached /\ e.status = "Ready"
    <3> DEFINE acts == <<SendToServer(k, Notice)>>
    <3>1. Put(k, e) /\ Emit(c, acts)
      BY <2>2, <2>8 DEF ClientTraffic
    <3>2. acts \in Seq(Actions) /\ \A a \in Members(acts) : Harmless(a, {})
      <4>1. acts \in Seq(Actions) /\ Members(acts) = {SendToServer(k, Notice)}
        BY <2>1, FramesTyped, ActionsTyped, SequencesOf
      <4>2. QED
        BY <4>1, HarmlessAre
    <3> HIDE DEF acts, e
    <3>3. CalmEntries({})
      <4>1. Known(k) => Calmer(languages[k], e)
        BY <2>3, <2>4 DEF Calmer
      <4>2. QED
        BY <2>4, <3>1, <4>1, CalmPut
    <3>4. QED
      BY <1>4, <1>5, <3>1, <3>2, <3>3, CalmCall
  <2>9. CASE f.m = "request" /\ c \in e.attached /\ e.status = "Ready"
    <3> DEFINE o == f.id
               r == [id |-> e.nextId, conn |-> c, orig |-> o]
               g == [e EXCEPT !.relayed = @ \cup {r}, !.nextId = e.nextId + 1]
               say == SendToServer(k, Relayed(e.nextId, <<c, o>>))
    <3>1. Put(k, g) /\ Emit(c, <<say>>)
      BY <2>2, <2>9 DEF ClientTraffic
    <3>2. k \in DOMAIN languages /\ e = languages[k]
      BY <2>4, <2>9 DEF Fresh, Known
    <3>3. o = asked[c] + 1 /\ asked' = [asked EXCEPT ![c] = o]
      BY <1>2, <1>3, <2>9
    <3>4. languages[k].status = "Ready"
      BY <2>9, <3>2
    <3>5. r = [id |-> languages[k].nextId, conn |-> c, orig |-> o]
      BY <3>2
    <3>6. g = [languages[k] EXCEPT !.relayed = @ \cup {r}, !.nextId = languages[k].nextId + 1]
      BY <3>2
    <3>7. say = SendToServer(k, Relayed(languages[k].nextId, <<c, o>>))
      BY <3>2
    <3> HIDE DEF e, o, r, g, say
    <3>8. UNCHANGED <<reader, answered>>
      BY <1>1
    <3>9. QED
      BY ONLY BrokerInv, BrokerInv', OrderedInv, Unmixed', c \in Conns, <1>1, <1>5, <3>1, <3>2, <3>3, <3>4,
              <3>5, <3>6, <3>7, <3>8, RequestOrdered
  <2>10. QED
    BY <1>3, <2>5, <2>6, <2>7, <2>8, <2>9
<1>8. QED
  BY <1>6, <1>7

\* The answer to a relayed request is its own, and the only one on its way.
LEMMA AnswerOrdered ==
  ASSUME BrokerInv, BrokerInv', OrderedInv, Unmixed', NEW t \in Threads, NEW k \in DOMAIN languages,
         NEW p \in languages[k].relayed, NEW f, f = [languages[k] EXCEPT !.relayed = @ \ {p}],
         Put(k, f), NEW of \in Origins, of = <<p.conn, p.orig>>,
         NEW say, say = SendToClient(p.conn, Reply(p.orig, of)), Emit(t, <<say>>),
         CalmProcesses, CalmEditors
  PROVE  OrderedInv'
<1> DEFINE e == languages[k]
           acts == <<say>>
           c == p.conn
           o == p.orig
<1>1. IsEntry(e) /\ e.nextId \in Nat /\ e.relayed \subseteq Requests
  BY EntryIs
<1>2. c \in Conns /\ o \in Nat
  BY <1>1 DEF Requests
<1>3. /\ say \in Actions /\ say.do = "SendToClient" /\ say.conn = c
      /\ say.frame.m = "reply" /\ say.frame.id = o /\ say.frame.of = <<c, o>>
  <2>1. say \in Actions
    BY <1>2, FramesTyped, ActionsTyped
  <2>2. QED
    BY <2>1 DEF SendToClient, Reply
<1>4. f.relayed = e.relayed \ {p} /\ f.nextId = e.nextId /\ f.status = e.status /\ (f.running <=> e.running)
  <2> HIDE DEF e
  <2>1. QED
    BY <1>1 DEF IsEntry, Entries, e
<1>5. CalmEntries({})
  <2>1. Calmer(languages[k], f)
    BY <1>1, <1>4 DEF Calmer
  <2>2. QED
    BY <2>1, CalmPut DEF Known
<1>6. acts \in Seq(Actions) /\ Members(acts) = {say} /\ Emit(t, acts) /\ Len(acts) = 1
  BY <1>3, SequencesOf
<1>7. todo \in [Threads -> Seq(Actions)] /\ NoTwins
  BY DEF BrokerInv, RouterTyped, OrderedInv
<1> HIDE DEF acts
<1>8. /\ o <= asked[c] /\ ~Answered(c, o)
      /\ \A a \in Actions : Pending(a) /\ IsReply(a) => a.conn # c \/ a.frame.id # o
  BY DEF OrderedInv, ReplyInv
<1>9. \A j \in DOMAIN languages : \A r \in languages[j].relayed :
        r.conn = c /\ r.orig = o => j = k /\ r = p
  <2> SUFFICES ASSUME NEW j \in DOMAIN languages, NEW r \in languages[j].relayed, r.conn = c, r.orig = o
               PROVE  j = k /\ r = p
    OBVIOUS
  <2>1. c \in Traces(languages[k]) /\ c \in Traces(languages[j])
    BY DEF Traces
  <2>2. j = k
    BY <2>1, TracesAre DEF BrokerInv
  <2>3. QED
    BY <2>2 DEF OrderedInv, RelayInv
<1>10. /\ DOMAIN languages' = DOMAIN languages \cup {k} /\ languages'[k] = f
       /\ \A j \in DOMAIN languages : j # k => languages'[j] = languages[j]
  BY DEF Put, With
<1>11. NoTwins'
  <2>1. \A i, j \in 1..Len(acts) : Twins(acts[i], acts[j]) => i = j
    BY <1>6
  <2>2. \A b \in Actions : Pending(b) => ~Twins(say, b)
    BY <1>3, <1>8 DEF Twins, IsHandshake
  <2>3. QED
    BY <1>6, <1>7, <2>1, <2>2, TwinsKept
<1>12. \A a \in Actions : Pending(a)' => Pending(a) \/ a = say
  BY <1>6, <1>7, PendingIs
<1>13. HandshakeInv'
  <2>1. \A j \in Keys : Starting(j)' => Starting(j)
    BY <1>5, CalmStarting
  <2>2. \A a \in Actions : Pending(a)' /\ IsHandshake(a) => Pending(a)
    BY <1>3, <1>12 DEF IsHandshake
  <2>3. QED
    BY <2>1, <2>2, HandshakesKept DEF OrderedInv
<1>14. RelayInv'
  <2>1. \A a \in Actions : Pending(a)' /\ a.do = "SendToServer" =>
          Pending(a) \/ Answerable(a.frame) = {} \/ a.key \in {}
    BY <1>3, <1>12
  <2>2. QED
    BY <1>5, <2>1, RelayKept DEF OrderedInv
<1>15. \A d \in Conns : asked[d] \in Nat /\ asked'[d] \in Nat /\ asked[d] <= asked'[d]
  BY DEF BrokerInv, ClientsTyped, CalmEditors
<1>16. \A d, i : Answered(d, i)' <=> Answered(d, i)
  BY DEF Answered, CalmEditors
<1>17. ASSUME NEW j \in DOMAIN languages', NEW r \in languages'[j].relayed
       PROVE  /\ r.orig <= asked'[r.conn] /\ ~Answered(r.conn, r.orig)'
              /\ \A a \in Actions : Pending(a)' /\ IsReply(a) => a.conn # r.conn \/ a.frame.id # r.orig
  <2>1. j \in DOMAIN languages /\ r \in languages[j].relayed /\ (j = k => r # p)
    BY <1>4, <1>10 DEF e
  <2>2. r.conn \in Conns /\ r.orig \in Nat
    BY <2>1, EntryIs DEF Requests
  <2>3. /\ r.orig <= asked[r.conn] /\ ~Answered(r.conn, r.orig)
        /\ \A a \in Actions : Pending(a) /\ IsReply(a) => a.conn # r.conn \/ a.frame.id # r.orig
    BY <2>1 DEF OrderedInv, ReplyInv
  <2>4. ~(r.conn = c /\ r.orig = o)
    BY <1>9, <2>1
  <2>5. QED
    BY <1>3, <1>12, <1>15, <1>16, <2>2, <2>3, <2>4
<1>18. ASSUME NEW a \in Actions, Pending(a)', IsReply(a)
       PROVE  /\ a.frame.id <= asked'[a.conn] /\ ~Answered(a.conn, a.frame.id)'
              /\ a.frame.of = <<a.conn, a.frame.id>>
  <2>1. a.conn \in Conns /\ a.frame.id \in Nat
    BY <1>18, ReplyFields
  <2>2. CASE Pending(a)
    <3>1. /\ a.frame.id <= asked[a.conn] /\ ~Answered(a.conn, a.frame.id)
          /\ a.frame.of = <<a.conn, a.frame.id>>
      BY <1>18, <2>2 DEF OrderedInv, ReplyInv
    <3>2. QED
      BY <1>15, <1>16, <2>1, <3>1
  <2>3. CASE a = say
    BY <1>2, <1>3, <1>8, <1>15, <1>16, <2>3
  <2>4. QED
    BY <1>12, <1>18, <2>2, <2>3
<1>19. ASSUME NEW d \in Conns
       PROVE  /\ \A i \in 1..Len(answered'[d]) :
                   answered'[d][i].of = <<d, answered'[d][i].id>> /\ answered'[d][i].id <= asked'[d]
              /\ \A i, j \in 1..Len(answered'[d]) : answered'[d][i].id = answered'[d][j].id => i = j
  <2>1. answered' = answered
    BY DEF CalmEditors
  <2>2. \A i \in 1..Len(answered[d]) : answered[d][i].id \in Nat
    BY AnsweredIds
  <2>3. /\ \A i \in 1..Len(answered[d]) :
             answered[d][i].of = <<d, answered[d][i].id>> /\ answered[d][i].id <= asked[d]
        /\ \A i, j \in 1..Len(answered[d]) : answered[d][i].id = answered[d][j].id => i = j
    BY DEF OrderedInv, ReplyInv
  <2>4. QED
    BY <1>15, <2>1, <2>2, <2>3
<1>20. ReplyInv'
  BY <1>17, <1>18, <1>19 DEF ReplyInv
<1>21. QED
  BY <1>11, <1>13, <1>14, <1>20 DEF OrderedInv

LEMMA ReadServerOrdered ==
  ASSUME BrokerInv, BrokerInv', OrderedInv, Unmixed', NEW s \in Servers, ReadServer(s)
  PROVE  OrderedInv'
<1> DEFINE k == server[s].key
<1>1. /\ reader[s] = "reading" /\ reader' = [reader EXCEPT ![s] = "top"]
      /\ UNCHANGED serverTransports /\ UNCHANGED <<asked, answered>>
  BY DEF ReadServer, clientVars
<1>2. PICK f \in ServerSays(s) :
        /\ server' = [server EXCEPT ![s].open = {q \in @ : f.m # "reply" \/ q.id # f.id \/ q.of # f.of}]
        /\ ServerFrame(s, k, f)
  BY DEF ReadServer
<1>3. s \in Threads /\ server[s] \in Processes /\ server \in [Servers -> Processes]
  BY ThreadsAssumption DEF BrokerInv, DaemonTyped
<1>4. CalmProcesses /\ CalmEditors
  <2> DEFINE o == {q \in server[s].open : f.m # "reply" \/ q.id # f.id \/ q.of # f.of}
             x == [server[s] EXCEPT !.open = o]
  <2>1. server' = [server EXCEPT ![s] = x]
    BY <1>2, <1>3
  <2>2. o \subseteq server[s].open
    OBVIOUS
  <2> HIDE DEF o
  <2>3. x.key = server[s].key /\ x.inits = server[s].inits /\ x.open \subseteq server[s].open
    BY <1>3, <2>2 DEF Processes
  <2> HIDE DEF x
  <2>4. \E r : /\ reader' = [reader EXCEPT ![s] = r]
               /\ r \in {"top", "reading"} => reader[s] \in {"top", "reading"}
    BY <1>1
  <2>5. QED
    BY <1>1, <2>1, <2>3, <2>4, CalmProcess, CalmAsks
<1>5. CASE ~Known(k)
  <2>1. Emit(s, <<>>) /\ UNCHANGED languages
    BY <1>2, <1>5 DEF ServerFrame
  <2>2. QED
    BY <1>3, <1>4, <2>1, CalmNothing, CalmSame
<1>6. CASE Known(k)
  <2> DEFINE e == languages[k]
  <2>1. k \in DOMAIN languages
    BY <1>6 DEF Known
  <2>2. IsEntry(e) /\ e.nextId \in Nat /\ k \in Keys
    BY <2>1, EntryIs
  <2>3. e.queue \in Seq(Conns) /\ IsFiniteSet(e.attached) /\ e.attached \subseteq Conns
    <3> HIDE DEF e
    <3>1. QED
      BY <2>2, EntryFields
  <2>4. f.m = "reply" => f.of \in Origins /\ \E q \in server[s].open : f.id = q.id /\ f.of = q.of
    BY <1>3, ServerSaysIs
  <2>5. f.m \in {"reply", "ask", "notice"}
    BY <1>3, ServerSaysIs
  <2>6. CASE AnswersHandshake(k, f)
    <3> DEFINE ok == f.m = "reply" /\ f.ok
               g == [e EXCEPT !.status = IF ok THEN "Ready" ELSE "Failed", !.queue = <<>>]
               a1 == IF ok THEN <<SendToServer(k, Initialized)>> ELSE <<>>
               a2 == FlushQueue(e)
    <3>1. Put(k, g) /\ Emit(s, a1 \o a2) /\ e.status = "AwaitingRealHandshake"
      BY <1>2, <1>6, <2>6 DEF ServerFrame, HandshakeAnswered, AnswersHandshake
    <3>2. a1 \in Seq(Actions) /\ \A a \in Members(a1) : Harmless(a, {})
      <4>1. /\ <<SendToServer(k, Initialized)>> \in Seq(Actions)
            /\ Members(<<SendToServer(k, Initialized)>>) = {SendToServer(k, Initialized)}
        BY <2>2, FramesTyped, ActionsTyped, SequencesOf
      <4>2. Harmless(SendToServer(k, Initialized), {})
        BY HarmlessAre
      <4>3. <<>> \in Seq(Actions) /\ Members(<<>>) = {}
        BY DEF Members
      <4> HIDE DEF ok
      <4>4. a1 = <<SendToServer(k, Initialized)>> \/ a1 = <<>>
        OBVIOUS
      <4> HIDE DEF a1
      <4>5. QED
        BY <4>1, <4>2, <4>3, <4>4
    <3>3. a2 \in Seq(Actions) /\ \A a \in Members(a2) : Harmless(a, {})
      <4>1. InitializeReply \in ClientFrames /\ InitializeReply.m # "reply"
        BY FramesTyped DEF InitializeReply
      <4>2. a2 = [i \in DOMAIN e.queue |-> SendToClient(e.queue[i], InitializeReply)]
        BY DEF FlushQueue
      <4> HIDE DEF e, a2
      <4>3. QED
        BY <2>3, <4>1, <4>2, ToldHarmless
    <3>4. CalmEntries({})
      <4>1. /\ g.running <=> e.running
            /\ g.nextId = e.nextId /\ g.relayed = e.relayed /\ g.status \in {"Ready", "Failed"}
        <5> HIDE DEF e, ok
        <5>1. QED
          BY <2>2 DEF IsEntry, Entries
      <4> HIDE DEF g
      <4>2. Calmer(languages[k], g)
        BY <2>2, <3>1, <4>1 DEF Calmer
      <4>3. QED
        BY <1>6, <3>1, <4>2, CalmPut
    <3> HIDE DEF a1, a2, g
    <3> DEFINE acts == a1 \o a2
    <3>5. acts \in Seq(Actions) /\ \A a \in Members(acts) : Harmless(a, {})
      BY <3>2, <3>3, JoinIs
    <3>6. Emit(s, acts)
      BY <3>1
    <3> HIDE DEF acts
    <3>7. QED
      BY <1>3, <1>4, <3>4, <3>5, <3>6, CalmCall
  <2>7. CASE ~AnswersHandshake(k, f) /\ f.m = "ask"
    <3> DEFINE acts == <<SendToServer(k, Acknowledge)>>
    <3>1. UNCHANGED languages /\ Emit(s, acts)
      BY <1>2, <1>6, <2>7 DEF ServerFrame
    <3>2. acts \in Seq(Actions) /\ \A a \in Members(acts) : Harmless(a, {})
      <4>1. acts \in Seq(Actions) /\ Members(acts) = {SendToServer(k, Acknowledge)}
        BY <2>2, FramesTyped, ActionsTyped, SequencesOf
      <4>2. QED
        BY <4>1, HarmlessAre
    <3> HIDE DEF acts
    <3>3. CalmEntries({})
      BY <3>1, CalmSame
    <3>4. QED
      BY <1>3, <1>4, <3>1, <3>2, <3>3, CalmCall
  <2>8. CASE ~AnswersHandshake(k, f) /\ f.m = "notice"
    <3>1. PICK order \in SetToSeqs(e.attached) : Emit(s, Broadcast(order)) /\ UNCHANGED languages
      BY <1>2, <1>6, <2>8 DEF ServerFrame
    <3> HIDE DEF e
    <3>2. order \in Seq(Conns)
      BY <2>3, Listing, WiderQueues
    <3> DEFINE acts == Broadcast(order)
    <3>3. Notice \in ClientFrames /\ Notice.m # "reply"
      BY FramesTyped DEF Notice
    <3>4. acts = [i \in DOMAIN order |-> SendToClient(order[i], Notice)]
      BY DEF Broadcast
    <3>5. Emit(s, acts)
      BY <3>1
    <3> HIDE DEF acts
    <3>6. acts \in Seq(Actions) /\ \A a \in Members(acts) : Harmless(a, {})
      BY <3>2, <3>3, <3>4, ToldHarmless
    <3>7. CalmEntries({})
      BY <3>1, CalmSame
    <3>8. QED
      BY <1>3, <1>4, <3>5, <3>6, <3>7, CalmCall
  <2>9. CASE ~AnswersHandshake(k, f) /\ f.m = "reply"
    <3> DEFINE A == Asked(e, f.id)
               g == [e EXCEPT !.relayed = @ \ A]
               acts == AnswersTo(e, f.id, f.of)
    <3>1. Put(k, g) /\ Emit(s, acts)
      BY <1>2, <1>6, <2>9 DEF ServerFrame, ServerReply, Asked, AnswersTo
    <3>2. \/ A = {} /\ acts = <<>>
          \/ \E p \in e.relayed : /\ A = {p} /\ p.id = f.id
                                  /\ acts = <<SendToClient(p.conn, Reply(p.orig, f.of))>>
      <4> HIDE DEF e
      <4>1. QED
        BY <2>2, AnswerTo
    <3>3. CASE A = {} /\ acts = <<>>
      <4>1. Emit(s, <<>>)
        BY <3>1, <3>3
      <4>2. /\ g.running <=> e.running
            /\ g.nextId = e.nextId /\ g.relayed = e.relayed /\ g.status = e.status
        <5> HIDE DEF e, A
        <5>1. QED
          BY <2>2, <3>3 DEF IsEntry, Entries
      <4> HIDE DEF g
      <4>3. Calmer(languages[k], g)
        BY <2>2, <4>2 DEF Calmer
      <4>4. CalmEntries({})
        BY <1>6, <3>1, <4>3, CalmPut
      <4>5. QED
        BY <1>3, <1>4, <4>1, <4>4, CalmNothing
    <3>4. CASE \E p \in e.relayed : /\ A = {p} /\ p.id = f.id
                                    /\ acts = <<SendToClient(p.conn, Reply(p.orig, f.of))>>
      <4>1. PICK p \in e.relayed : /\ A = {p} /\ p.id = f.id
                                   /\ acts = <<SendToClient(p.conn, Reply(p.orig, f.of))>>
        BY <3>4
      <4>2. e.running
        BY <2>1, <4>1 DEF OrderedInv, RelayInv
      <4>3. f.of = <<p.conn, p.orig>> /\ f.of \in Origins
        <5>1. PICK q \in server[s].open : f.id = q.id /\ f.of = q.of
          BY <2>4, <2>9
        <5>2. Listening(s)
          BY <1>1 DEF Listening
        <5>3. Matches(q, e)
          BY <2>1, <4>2, <5>1, <5>2 DEF OrderedInv, RelayInv
        <5>4. QED
          BY <2>4, <2>9, <4>1, <5>1, <5>3 DEF Matches
      <4> DEFINE of == f.of
                 say == SendToClient(p.conn, Reply(p.orig, of))
      <4>4. Emit(s, <<say>>) /\ of \in Origins /\ of = <<p.conn, p.orig>>
        BY <3>1, <4>1, <4>3
      <4>5. g = [languages[k] EXCEPT !.relayed = @ \ {p}] /\ p \in languages[k].relayed
        BY <4>1
      <4>6. say = SendToClient(p.conn, Reply(p.orig, of))
        OBVIOUS
      <4> HIDE DEF g, say, of
      <4>7. QED
        BY ONLY BrokerInv, BrokerInv', OrderedInv, Unmixed', <1>3, <1>4, <2>1, <3>1, <4>4, <4>5, <4>6,
                AnswerOrdered
    <3>5. QED
      BY <3>2, <3>3, <3>4
  <2>10. QED
    BY <2>5, <2>6, <2>7, <2>8, <2>9
<1>7. QED
  BY <1>5, <1>6

\* What is applied is done once: nothing still pending is its twin.
LEMMA AppliedOnce ==
  ASSUME BrokerInv, NoTwins, NEW t \in Threads, todo[t] # <<>>, Emit(t, <<>>)
  PROVE  /\ NoTwins' /\ \A a \in Actions : Pending(a)' => Pending(a) /\ ~Twins(a, Head(todo[t]))
         /\ Pending(Head(todo[t])) /\ Head(todo[t]) \in Actions
<1> DEFINE acts == <<>>
<1>1. /\ acts \in Seq(Actions) /\ Members(acts) = {} /\ Emit(t, acts) /\ Len(acts) = 0
      /\ todo \in [Threads -> Seq(Actions)]
  BY DEF Members, BrokerInv, RouterTyped
<1> HIDE DEF acts
<1>2. \A i, j \in 1..Len(acts) : Twins(acts[i], acts[j]) => i = j
  BY <1>1
<1>3. NoTwins' /\ \A a \in Actions : Pending(a)' /\ a \notin Members(acts) => ~Twins(a, Head(todo[t]))
  BY <1>1, <1>2, TwinsKept
<1>4. \A a : Pending(a)' => Pending(a)
  BY <1>1, PendingIs
<1>5. Pending(Head(todo[t])) /\ Head(todo[t]) \in Actions
  BY <1>1, HeadIs DEF Pending
<1>6. QED
  BY <1>1, <1>3, <1>4, <1>5

LEMMA WriteToServerOrdered ==
  ASSUME BrokerInv, BrokerInv', OrderedInv, Unmixed', NEW t \in Threads, WriteToServer(t)
  PROVE  OrderedInv'
<1> DEFINE h == Head(todo[t])
           k == h.key
           s == serverTransports[k]
<1>1. /\ holder = None /\ Next1(t, "SendToServer") /\ Emit(t, <<>>) /\ UNCHANGED languages
      /\ UNCHANGED <<asked, answered>> /\ UNCHANGED reader /\ UNCHANGED serverTransports
  BY DEF WriteToServer, Free, Applied, daemonVars, clientVars
<1>2. h.do = "SendToServer" /\ todo[t] # <<>> /\ h.frame \in ServerFrames /\ k \in Keys
  BY <1>1, HeadFields
<1>3. CASE UNCHANGED server
  BY <1>1, <1>3, CalmNothing, CalmSame, CalmUntouched, CalmAsks
<1>4. CASE k \in DOMAIN serverTransports /\ server' = [server EXCEPT ![s] = Received(@, h.frame)]
  <2>1. /\ NoTwins' /\ \A a \in Actions : Pending(a)' => Pending(a) /\ ~Twins(a, h)
        /\ Pending(h) /\ h \in Actions
    BY <1>1, <1>2, AppliedOnce DEF OrderedInv
  <2>2. s \in Servers /\ server[s].key = k
    BY <1>1, <1>4, Registered
  <2>3. server \in [Servers -> Processes]
    BY DEF BrokerInv, DaemonTyped
  <2>4. /\ Received(server[s], h.frame).key = k
        /\ Received(server[s], h.frame).open = server[s].open \cup Answerable(h.frame)
        /\ Received(server[s], h.frame).inits = server[s].inits + IF IsHandshake(h) THEN 1 ELSE 0
    BY <1>2, <2>2, <2>3, ReceivedIs DEF IsHandshake
  <2>5. /\ server'[s].key = k
        /\ server'[s].open = server[s].open \cup Answerable(h.frame)
        /\ server'[s].inits = server[s].inits + IF IsHandshake(h) THEN 1 ELSE 0
        /\ \A u \in Servers : u # s => server'[u] = server[u]
    BY <1>4, <2>2, <2>3, <2>4
  <2>6. \A j \in DOMAIN serverTransports : /\ serverTransports[j] \in Servers
                                           /\ serverTransports[j] = s => j = k
    BY <1>1, <2>2, Registered
  <2>7. \A j : Starting(j)' <=> Starting(j)
    BY <1>1 DEF Starting, Known
  <2>8. server[s].inits \in Nat
    BY <2>2, <2>3 DEF Processes
  <2>9. Unheard(k) <=> server[s].inits = 0
    BY <1>4 DEF Unheard
  <2> HIDE DEF h, s, k
  <2>10. ASSUME NEW j, Unheard(j), j # k \/ ~IsHandshake(h) PROVE Unheard(j)'
    <3> SUFFICES ASSUME j \in DOMAIN serverTransports PROVE server'[serverTransports[j]].inits = 0
      BY <1>1 DEF Unheard
    <3>1. serverTransports[j] \in Servers /\ server[serverTransports[j]].inits = 0
      BY <2>6, <2>10 DEF Unheard
    <3>2. CASE serverTransports[j] = s
      BY <2>5, <2>6, <2>10, <3>1, <3>2
    <3>3. CASE serverTransports[j] # s
      BY <2>5, <3>1, <3>3
    <3>4. QED
      BY <3>2, <3>3
  <2>11. IsHandshake(h) => ~Starting(k) /\ Unheard(k)
    BY <2>1 DEF OrderedInv, HandshakeInv, k
  <2>12. HandshakeInv'
    <3>1. OneHandshake'
      <4> SUFFICES ASSUME NEW u \in Servers PROVE server'[u].inits <= 1
        BY DEF OneHandshake
      <4>1. server[u].inits <= 1
        BY DEF OrderedInv, HandshakeInv, OneHandshake
      <4>2. CASE u = s
        BY <2>5, <2>8, <2>9, <2>11, <4>1, <4>2
      <4>3. QED
        BY <2>5, <4>1, <4>2
    <3>2. \A j \in Keys : Starting(j)' => Unheard(j)'
      BY <2>7, <2>10, <2>11 DEF OrderedInv, HandshakeInv
    <3>3. ASSUME NEW a \in Actions, Pending(a)', IsHandshake(a) PROVE ~Starting(a.key)' /\ Unheard(a.key)'
      <4>1. Pending(a) /\ ~Twins(a, h)
        BY <2>1, <3>3
      <4>2. ~Starting(a.key) /\ Unheard(a.key)
        BY <3>3, <4>1 DEF OrderedInv, HandshakeInv
      <4>3. a.key # k \/ ~IsHandshake(h)
        BY <3>3, <4>1 DEF Twins, k
      <4>4. QED
        BY <2>7, <2>10, <4>2, <4>3
    <3>4. QED
      BY <3>1, <3>2, <3>3 DEF HandshakeInv
  <2>13. RelayInv'
    <3>1. ASSUME NEW j \in DOMAIN languages, languages[j].running
          PROVE  /\ \A a \in Actions : Pending(a)' /\ a.do = "SendToServer" /\ a.key = j =>
                      \A q \in Answerable(a.frame) : Matches(q, languages[j])
                 /\ \A u \in Servers : server'[u].key = j /\ Listening(u)' =>
                      \A q \in server'[u].open : Matches(q, languages[j])
      <4>1. /\ \A a \in Actions : Pending(a) /\ a.do = "SendToServer" /\ a.key = j =>
                 \A q \in Answerable(a.frame) : Matches(q, languages[j])
            /\ \A u \in Servers : server[u].key = j /\ Listening(u) =>
                 \A q \in server[u].open : Matches(q, languages[j])
        BY <3>1 DEF OrderedInv, RelayInv
      <4>2. ASSUME NEW u \in Servers, server'[u].key = j, Listening(u)', NEW q \in server'[u].open
            PROVE  Matches(q, languages[j])
        <5>1. Listening(u)
          BY <1>1, <4>2 DEF Listening
        <5>2. CASE u = s
          <6>1. j = k /\ server[u].key = j /\ (q \in server[u].open \/ q \in Answerable(h.frame))
            BY <2>2, <2>5, <4>2, <5>2
          <6>2. CASE q \in server[u].open
            BY <4>1, <5>1, <6>1, <6>2
          <6>3. CASE q \in Answerable(h.frame)
            BY <1>2, <2>1, <4>1, <6>1, <6>3 DEF k, h
          <6>4. QED
            BY <6>1, <6>2, <6>3
        <5>3. CASE u # s
          BY <2>5, <4>1, <4>2, <5>1, <5>3
        <5>4. QED
          BY <5>2, <5>3
      <4>3. QED
        BY <2>1, <4>1, <4>2
    <3>2. \A j \in DOMAIN languages :
            LET e == languages[j] IN
            /\ e.status \in {"AwaitingRealHandshake", "Ready"} => e.running
            /\ e.relayed # {} => e.running
            /\ \A p, q \in e.relayed : p.conn = q.conn /\ p.orig = q.orig => p = q
      BY DEF OrderedInv, RelayInv
    <3>3. QED
      BY <1>1, <3>1, <3>2 DEF RelayInv
  <2>14. ReplyInv'
    <3>1. CalmEditors
      BY <1>1, CalmAsks
    <3>2. \A j \in DOMAIN languages' : \A p \in languages'[j].relayed :
            j \in DOMAIN languages /\ p \in languages[j].relayed
      BY <1>1
    <3>3. \A a \in Actions : Pending(a)' /\ IsReply(a) => Pending(a)
      BY <2>1
    <3>4. QED
      BY <3>1, <3>2, <3>3, RepliesKept DEF OrderedInv
  <2>15. QED
    BY <2>1, <2>12, <2>13, <2>14 DEF OrderedInv
<1>5. QED
  BY <1>3, <1>4 DEF WriteToServer

LEMMA WriteToClientOrdered ==
  ASSUME BrokerInv, BrokerInv', OrderedInv, Unmixed', NEW t \in Threads, WriteToClient(t)
  PROVE  OrderedInv'
<1> DEFINE h == Head(todo[t])
           c == h.conn
           f == h.frame
<1>1. /\ Next1(t, "SendToClient") /\ Emit(t, <<>>) /\ UNCHANGED languages
      /\ UNCHANGED asked /\ UNCHANGED reader /\ UNCHANGED <<server, serverTransports>>
  BY DEF WriteToClient, Applied, daemonVars
<1>2. h.do = "SendToClient" /\ todo[t] # <<>> /\ f \in ClientFrames /\ c \in Conns
  BY <1>1, HeadFields
<1>3. CalmEntries({}) /\ CalmProcesses
  BY <1>1, CalmSame, CalmUntouched
<1>4. CASE UNCHANGED answered
  BY <1>1, <1>3, <1>4, CalmNothing, CalmAsks
<1>5. CASE f.m = "reply" /\ answered' = [answered EXCEPT ![c] = Append(@, [id |-> f.id, of |-> f.of])]
  <2>1. /\ NoTwins' /\ \A a \in Actions : Pending(a)' => Pending(a) /\ ~Twins(a, h)
        /\ Pending(h) /\ h \in Actions
    BY <1>1, <1>2, AppliedOnce DEF OrderedInv
  <2>2. IsReply(h)
    BY <1>2, <1>5 DEF IsReply
  <2>3. f.id \in Nat
    BY <2>1, <2>2, ReplyFields
  <2>4. f.id <= asked[c] /\ ~Answered(c, f.id) /\ f.of = <<c, f.id>>
    BY <2>1, <2>2 DEF OrderedInv, ReplyInv
  <2>5. answered \in [Conns -> Seq(Answers)] /\ asked \in [Conns -> Nat]
    BY DEF BrokerInv, ClientsTyped
  <2>6. \A k \in DOMAIN languages : \A p \in languages[k].relayed : c # p.conn \/ f.id # p.orig
    BY <2>1, <2>2 DEF OrderedInv, ReplyInv
  <2>7. \A a \in Actions : Pending(a)' /\ IsReply(a) => a.conn # c \/ a.frame.id # f.id
    BY <2>1, <2>2 DEF Twins
  <2> HIDE DEF h, c, f
  <2> DEFINE x == [id |-> f.id, of |-> f.of]
             n == Len(answered[c])
  <2>8. x.id = f.id /\ x.of = <<c, f.id>> /\ answered'[c] = Append(answered[c], x)
        /\ \A d \in Conns : d # c => answered'[d] = answered[d]
    BY <1>2, <1>5, <2>4, <2>5
  <2>9. n \in Nat /\ Len(answered'[c]) = n + 1 /\ answered'[c][n + 1] = x
        /\ \A i \in 1..n : answered'[c][i] = answered[c][i]
    <3> DEFINE q == answered[c]
    <3>1. q \in Seq(Answers)
      BY <1>2, <2>5
    <3> HIDE DEF q, x
    <3>2. /\ Len(q) \in Nat /\ Len(Append(q, x)) = Len(q) + 1 /\ Append(q, x)[Len(q) + 1] = x
          /\ \A i \in 1..Len(q) : Append(q, x)[i] = q[i]
      BY <3>1
    <3>3. answered'[c] = Append(q, x)
      BY <2>8 DEF q
    <3>4. QED
      BY <3>2, <3>3 DEF q
  <2> HIDE DEF x, n
  <2>10. ASSUME NEW d, d \in Conns, NEW o, Answered(d, o)' PROVE Answered(d, o) \/ (d = c /\ o = f.id)
    <3>1. PICK i \in 1..Len(answered'[d]) : answered'[d][i].id = o
      BY <2>10 DEF Answered
    <3>2. CASE d # c
      BY <2>8, <2>10, <3>1, <3>2 DEF Answered
    <3>3. CASE d = c /\ i \in 1..n
      BY <2>9, <3>1, <3>3 DEF Answered, n
    <3>4. CASE d = c /\ i = n + 1
      BY <2>8, <2>9, <3>1, <3>4
    <3>5. QED
      BY <2>9, <3>1, <3>2, <3>3, <3>4
  <2>11. HandshakeInv'
    <3>1. \A j \in Keys : Starting(j)' => Starting(j)
      BY <1>3, CalmStarting
    <3>2. \A a \in Actions : Pending(a)' /\ IsHandshake(a) => Pending(a)
      BY <2>1
    <3>3. QED
      BY <1>3, <3>1, <3>2, HandshakesKept DEF OrderedInv
  <2>12. RelayInv'
    <3>1. \A a \in Actions : Pending(a)' /\ a.do = "SendToServer" =>
            Pending(a) \/ Answerable(a.frame) = {} \/ a.key \in {}
      BY <2>1
    <3>2. QED
      BY <1>3, <3>1, RelayKept DEF OrderedInv
  <2>13. ASSUME NEW k \in DOMAIN languages', NEW p \in languages'[k].relayed
         PROVE  /\ p.orig <= asked'[p.conn] /\ ~Answered(p.conn, p.orig)'
                /\ \A a \in Actions : Pending(a)' /\ IsReply(a) => a.conn # p.conn \/ a.frame.id # p.orig
    <3>1. k \in DOMAIN languages /\ p \in languages[k].relayed
      BY <1>1
    <3>2. /\ p.orig <= asked[p.conn] /\ ~Answered(p.conn, p.orig)
          /\ \A a \in Actions : Pending(a) /\ IsReply(a) => a.conn # p.conn \/ a.frame.id # p.orig
      BY <3>1 DEF OrderedInv, ReplyInv
    <3>3. p.conn \in Conns
      BY <3>1, EntryIs DEF Requests
    <3>4. ~Answered(p.conn, p.orig)'
      BY <2>6, <2>10, <3>1, <3>2, <3>3
    <3>5. QED
      BY <1>1, <2>1, <3>2, <3>4
  <2>14. ASSUME NEW a \in Actions, Pending(a)', IsReply(a)
         PROVE  /\ a.frame.id <= asked'[a.conn] /\ ~Answered(a.conn, a.frame.id)'
                /\ a.frame.of = <<a.conn, a.frame.id>>
    <3>1. /\ a.frame.id <= asked[a.conn] /\ ~Answered(a.conn, a.frame.id)
          /\ a.frame.of = <<a.conn, a.frame.id>>
      BY <2>1, <2>14 DEF OrderedInv, ReplyInv
    <3>2. a.conn \in Conns
      BY <2>14, ReplyFields
    <3>3. ~Answered(a.conn, a.frame.id)'
      BY <2>7, <2>10, <2>14, <3>1, <3>2
    <3>4. QED
      BY <1>1, <3>1, <3>3
  <2>15. ASSUME NEW d \in Conns
         PROVE  /\ \A i \in 1..Len(answered'[d]) :
                     answered'[d][i].of = <<d, answered'[d][i].id>> /\ answered'[d][i].id <= asked'[d]
                /\ \A i, j \in 1..Len(answered'[d]) : answered'[d][i].id = answered'[d][j].id => i = j
    <3>1. /\ \A i \in 1..Len(answered[d]) :
               answered[d][i].of = <<d, answered[d][i].id>> /\ answered[d][i].id <= asked[d]
          /\ \A i, j \in 1..Len(answered[d]) : answered[d][i].id = answered[d][j].id => i = j
      BY DEF OrderedInv, ReplyInv
    <3>2. CASE d # c
      BY <1>1, <2>8, <3>1, <3>2
    <3>3. CASE d = c
      <4>1. \A i \in 1..n : answered[c][i].id # f.id
        BY <2>4 DEF Answered, n
      <4>2. ASSUME NEW i \in 1..n + 1
            PROVE  answered'[c][i].of = <<c, answered'[c][i].id>> /\ answered'[c][i].id <= asked'[c]
        <5>1. CASE i \in 1..n
          BY <1>1, <2>9, <3>1, <3>3, <5>1 DEF n
        <5>2. CASE i = n + 1
          BY <1>1, <2>4, <2>8, <2>9, <5>2
        <5>3. QED
          BY <2>9, <5>1, <5>2
      <4>3. ASSUME NEW i \in 1..n + 1, NEW j \in 1..n + 1, answered'[c][i].id = answered'[c][j].id
            PROVE  i = j
        <5>1. (i \in 1..n \/ i = n + 1) /\ (j \in 1..n \/ j = n + 1)
          BY <2>9
        <5>2. CASE i \in 1..n /\ j \in 1..n
          BY <2>9, <3>1, <3>3, <4>3, <5>2 DEF n
        <5>3. CASE i = n + 1 /\ j \in 1..n
          BY <2>8, <2>9, <4>1, <4>3, <5>3
        <5>4. CASE i \in 1..n /\ j = n + 1
          BY <2>8, <2>9, <4>1, <4>3, <5>4
        <5>5. QED
          BY <5>1, <5>2, <5>3, <5>4
      <4>4. QED
        BY <2>9, <3>3, <4>2, <4>3
    <3>4. QED
      BY <3>2, <3>3
  <2>16. ReplyInv'
    BY <2>13, <2>14, <2>15 DEF ReplyInv
  <2>17. QED
    BY <2>1, <2>11, <2>12, <2>16 DEF OrderedInv
<1>6. QED
  BY <1>4, <1>5 DEF WriteToClient

-----------------------------------------------------------------------------
(* One handshake, and answers of one's own *)

LEMMA OrderedInit ==
  ASSUME Init
  PROVE  OrderedInv
<1>1. /\ DOMAIN languages = {} /\ DOMAIN serverTransports = {} /\ holder = None
      /\ \A t \in Threads : todo[t] = <<>>
      /\ \A s \in Servers : server[s] = NoServer
      /\ \A c \in Conns : answered[c] = <<>>
  BY DEF Init
<1>2. \A a : ~Pending(a)
  BY <1>1, MembersNone DEF Pending
<1>3. \A k : ~Starting(k) /\ Unheard(k)
  BY <1>1 DEF Starting, Known, Unheard
<1>4. Unmixed /\ NoTwins
  BY <1>1 DEF Unmixed, NoTwins
<1>5. HandshakeInv
  BY <1>1, <1>2, <1>3 DEF HandshakeInv, OneHandshake, NoServer
<1>6. RelayInv
  BY <1>1 DEF RelayInv
<1>7. ReplyInv
  BY <1>1, <1>2 DEF ReplyInv
<1>8. QED
  BY <1>4, <1>5, <1>6, <1>7 DEF OrderedInv

LEMMA OrderedStep ==
  ASSUME BrokerInv, OrderedInv, [Step]_stepVars, Step /\ ~UNCHANGED stepVars => Unmixed'
  PROVE  BrokerInv' /\ OrderedInv'
<1>1. BrokerInv'
  BY BrokerStep
<1>2. CASE Step /\ Unmixed'
  <2>1. Unmixed'
    BY <1>2
  <2>2. ASSUME NEW t \in Threads, Apply(t) PROVE OrderedInv'
    BY <1>1, <2>1, <2>2, RegisterServerOrdered, StartReaderOrdered, FailToSpawnOrdered,
       WriteToServerOrdered, WriteToClientOrdered, ApplyCloseClientOrdered, ApplyCloseServerOrdered,
       ApplyShutdownOrdered DEF Apply
  <2>3. ASSUME NEW c \in Conns, (\E k \in Keys : Attach(c, k)) \/ Handler(c) \/ ClientGoes(c)
        PROVE  OrderedInv'
    BY <1>1, <2>1, <2>3, AttachOrdered, ReadClientOrdered, ClientEndsOrdered, ClientGoesOrdered DEF Handler
  <2>4. ASSUME NEW s \in Servers, ServerReader(s) \/ ServerExits(s)
        PROVE  OrderedInv'
    BY <1>1, <2>1, <2>4, ReaderTopOrdered, ReadServerOrdered, ForgetServerOrdered,
       ServerReaderFinishedOrdered, ServerExitsOrdered DEF ServerReader
  <2>5. CASE Sweep
    BY <1>1, <2>1, <2>5, SweepOrdered
  <2>6. CASE StopDaemon
    BY <1>1, <2>1, <2>6, StopDaemonOrdered
  <2>7. QED
    BY <1>1, <1>2, <2>2, <2>3, <2>4, <2>5, <2>6 DEF Step
<1>3. CASE UNCHANGED stepVars
  <2>1. /\ UNCHANGED <<todo, languages>> /\ UNCHANGED holder /\ UNCHANGED <<asked, answered>>
        /\ UNCHANGED <<server, serverTransports>> /\ UNCHANGED reader
    BY <1>3 DEF stepVars, routerVars, daemonVars, clientVars
  <2>2. Unmixed'
    BY <2>1 DEF OrderedInv, Unmixed
  <2>3. QED
    BY <1>1, <2>1, <2>2, CalmAlone, CalmUntouched, CalmAsks
<1>4. QED
  BY <1>1, <1>2, <1>3

\* It holds of the daemon until a process is registered while a thread has
\* still to write to its predecessor.
LEMMA OrderedInvariant == Spec => [](BrokerInv /\ (mixed \/ OrderedInv))
<1>1. Init => BrokerInv /\ OrderedInv
  BY BrokerInit, OrderedInit
<1>2. ASSUME BrokerInv, mixed \/ OrderedInv, [Next]_vars
      PROVE  BrokerInv' /\ (mixed' \/ OrderedInv')
  <2>1. [Step]_stepVars /\ BrokerInv' /\ (mixed => mixed')
    BY <1>2, BrokerStep, Steps
  <2>2. ASSUME ~mixed' PROVE OrderedInv'
    <3>1. OrderedInv
      BY <1>2, <2>1, <2>2
    <3>2. Step /\ ~UNCHANGED stepVars => Unmixed'
      BY <1>2, <2>2, Steps
    <3>3. QED
      BY <1>2, <2>1, <3>1, <3>2, OrderedStep
  <2>3. QED
    BY <2>1, <2>2
<1>3. (BrokerInv /\ (mixed \/ OrderedInv)) /\ [Next]_vars => (BrokerInv /\ (mixed \/ OrderedInv))'
  BY <1>2
<1>4. QED
  BY <1>1, <1>3, PTL DEF Spec

\* A process gets one initialize, whoever attaches, detaches or is torn down
\* meanwhile, and whatever entry the process is serving; only frames written
\* late, for its predecessor, can break that (MaybeStartRealHandshake).
THEOREM OneHandshakeUnlessEverMixed == Spec => []OneHandshakeUnlessMixed
<1>1. BrokerInv /\ (mixed \/ OrderedInv) => OneHandshakeUnlessMixed
  BY DEF OrderedInv, HandshakeInv, OneHandshakeUnlessMixed
<1>2. QED
  BY <1>1, OrderedInvariant, PTL

\* What a client gets as the answer to a request is the answer to that request,
\* of all that the clients of a process have asked it, and comes once, again
\* until frames are written late, for a predecessor (ClientFrame, ServerFrame).
THEOREM AnswersOwnUnlessEverMixed == Spec => []AnswersAreOwnUnlessMixed
<1>1. ASSUME BrokerInv, OrderedInv PROVE AnswersAreOwn
  <2> SUFFICES ASSUME NEW c \in Conns
               PROVE  /\ \A i \in DOMAIN answered[c] : answered[c][i].of = <<c, answered[c][i].id>>
                      /\ IsInjective(answered[c])
    BY DEF AnswersAreOwn
  <2> DEFINE q == answered[c]
  <2>1. q \in Seq(Answers)
    BY <1>1 DEF BrokerInv, ClientsTyped
  <2>2. /\ \A i \in 1..Len(q) : q[i].of = <<c, q[i].id>>
        /\ \A i, j \in 1..Len(q) : q[i].id = q[j].id => i = j
    BY <1>1 DEF OrderedInv, ReplyInv
  <2> HIDE DEF q
  <2>3. DOMAIN q = 1..Len(q) /\ (IsInjective(q) <=> Distinct(q))
    BY <2>1, RangeIsMembers
  <2>4. Distinct(q)
    BY <2>2 DEF Distinct
  <2>5. QED
    BY <2>2, <2>3, <2>4 DEF q
<1>2. BrokerInv /\ (mixed \/ OrderedInv) => AnswersAreOwnUnlessMixed
  BY <1>1 DEF AnswersAreOwnUnlessMixed
<1>3. QED
  BY <1>2, OrderedInvariant, PTL

=============================================================================
