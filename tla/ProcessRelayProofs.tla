-------------------------- MODULE ProcessRelayProofs --------------------------
(***************************************************************************)
(* Theorems about a remote process, for every window and however much is   *)
(* written and read: what is read of it is what it wrote, in order and, if *)
(* the end is seen, whole; it reads what was written to it; and what is    *)
(* held of its output stays within the window.                             *)
(***************************************************************************)
EXTENDS ProcessRelay, SequenceFacts, FiniteSetTheorems, TLAPS

-----------------------------------------------------------------------------
(* The invariant *)

ChunkMsgs    == [kind : {"chunk"}, fd : Fds, n : 1..MaxOut + 1]
AnswerMsgs   == [kind : {"answer"}, n : 0..MaxIn, ok : BOOLEAN]
WriteMsgs    == [kind : {"write"}, n : 1..MaxIn]
OutputPosts  == [kind : {"output"}, fd : Fds, n : 1..MaxOut + 1]
WrittenPosts == [kind : {"written"}, ok : BOOLEAN]

EditorMsgs == ChunkMsgs \cup AnswerMsgs \cup {Result, SpawnFailed}
HostMsgs   == WriteMsgs \cup [kind : {"credit"}, n : Nat] \cup {Spawn, CloseStdin, Release}
Items      == WriteMsgs \cup {CloseStdin, Release, Grace}
RelayPosts == WriteMsgs \cup [kind : {"grant", "releasing"}, n : Nat] \cup {CloseStdin}
HostPosts  == OutputPosts \cup WrittenPosts \cup {Exited, StderrDone}

Msgs == EditorMsgs \cup HostMsgs \cup Items \cup RelayPosts \cup HostPosts

ProcTyped ==
  /\ proc \in {"none", "running", "ended"} /\ wrote \in [Fds -> 0..MaxOut + 1]
  /\ input \in Seq(1..MaxIn) /\ stdin \in {"open", "closed", "cut"}

JobTyped ==
  /\ agent \in BOOLEAN /\ job \in {"none", "live", "gone"}
  /\ read \in [Fds -> 0..MaxOut + 1] /\ mayRead \subseteq Fds /\ waiting \subseteq Fds
  /\ exited \in BOOLEAN /\ stderrDone \in BOOLEAN /\ released \in BOOLEAN
  /\ items \in Seq(Items) /\ answers \in Seq(0..MaxIn) /\ hostPosts \in Seq(HostPosts)
  /\ credit \in Nat /\ backlog \in Seq(ChunkMsgs) /\ held \in BOOLEAN

EditorTyped ==
  /\ toEditor \in Seq(EditorMsgs) /\ toHost \in Seq(HostMsgs) /\ posts \in Seq(RelayPosts)
  /\ link \in BOOLEAN /\ pending \in 0..MaxIn /\ consumed \in Nat /\ granted \in Nat
  /\ finished \in {"no", "exit", "lost"} /\ out \in [Fds -> Seq(1..MaxOut + 1)]
  /\ discarding \in BOOLEAN /\ inFlight \in BOOLEAN /\ inputDone \in BOOLEAN
  /\ relay \in {"up", "eof", "error", "dropped"}

OwnerTyped ==
  /\ owner \in {"up", "hung up", "released"}
  /\ got \in [Fds -> Seq(1..MaxOut + 1)] /\ typed \in 0..MaxIn /\ fetched \in 0..typed
  /\ typing \in BOOLEAN

Typed == ProcTyped /\ JobTyped /\ EditorTyped /\ OwnerTyped

\* The spawn is the first the host hears of, and nothing precedes it.
SpawnInv ==
  /\ \A i \in 1..Len(toHost) : toHost[i] = Spawn => i = 1
  /\ Spawn \in Members(toHost) => job = "none"
  /\ job = "none" =>
       /\ agent => toHost # <<>> /\ Head(toHost) = Spawn
       /\ proc = "none" /\ \A fd \in Fds : wrote[fd] = 0
       /\ toEditor = <<>> /\ backlog = <<>> /\ hostPosts = <<>> /\ items = <<>> /\ answers = <<>>
       /\ ~held /\ finished # "exit"
  /\ proc # "none" => \A fd \in Fds : wrote[fd] <= MaxOut
  /\ proc = "none" =>
       /\ job # "live" /\ hostPosts = <<>> /\ backlog = <<>> /\ \A fd \in Fds : read[fd] = 0
       /\ finished # "exit" => Held = 0
       /\ \A m \in Members(toEditor) : m.kind # "chunk"
  /\ ~agent => job # "live" /\ hostPosts = <<>> /\ ~link
  /\ held => job = "gone"

\* Nothing is released or thrown away while the owner is there.
OwnerInv ==
  /\ owner # "released" =>
       /\ ~released /\ Release \notin Members(toHost)
       /\ \A m \in Members(posts) : m.kind # "releasing"
  /\ owner = "up" => ~discarding /\ relay # "dropped"

\* A reader is let go on, or a piece of its output is on the host, or it has
\* seen the end; a piece that waits for credit is counted with its reader.
Of(m, fd)      == m.kind \in {"chunk", "output"} /\ m.fd = fd
Outputs(s, fd) == \E m \in Members(s) : Of(m, fd)
Alone(s, fd)   == \A i, j \in 1..Len(s) : Of(s[i], fd) /\ Of(s[j], fd) => i = j
EndOf(fd)      == IF fd = 1 THEN Exited ELSE StderrDone
Ended(fd)      == (IF fd = 1 THEN exited ELSE stderrDone) \/ EndOf(fd) \in Members(hostPosts)

ReaderInv ==
  \A fd \in Fds :
    /\ fd \in waiting => fd \notin mayRead
    /\ Outputs(hostPosts, fd) => fd \notin mayRead \cup waiting /\ ~Ended(fd)
    /\ Ended(fd) => fd \notin mayRead \cup waiting /\ read[fd] = wrote[fd] /\ proc = "ended"
    /\ Outputs(backlog, fd) /\ ~released => fd \in waiting
    /\ Alone(hostPosts, fd) /\ Alone(backlog, fd)

\* The answer of the spawn is the last there is of the output.
Final(m) == m.kind \in {"result", "spawn failed"}

Over == exited /\ stderrDone /\ job = "gone"

AnswersFollow(q) == \A i, j \in 1..Len(q) : Final(q[i]) /\ i < j => q[j].kind = "answer"

AnswerInv ==
  /\ AnswersFollow(toEditor)
  /\ \A m \in Members(toEditor) :
       /\ Final(m) => backlog = <<>> /\ ~held /\ job = "gone"
       /\ m.kind = "result" => Over
       /\ m.kind = "spawn failed" => proc = "none"
       /\ finished # "no" => m.kind = "answer"
  /\ held => Over
  /\ finished = "exit" => job = "gone" /\ backlog = <<>> /\ ~held /\ (Over \/ proc = "none")
  /\ ~link => finished # "no" /\ toEditor = <<>>
  /\ finished = "lost" => ~link

\* The pieces of an output, from the process to its owner.
No(fd) == [m \in Msgs |-> IF m.kind \in {"chunk", "output"} THEN (IF m.fd = fd THEN m.n ELSE 0)
                          ELSE IF m.kind = "spawn failed" /\ fd = 2 THEN 1 ELSE 0]
Arrived(fd) == Len(got[fd]) + Len(out[fd])
Made(fd)    == IF proc = "none" THEN wrote[fd] ELSE read[fd]

OnItsWay(fd) ==
  \E b, c \in Nat :
    /\ Carries(Weights(toEditor, No(fd)), Arrived(fd), b)
    /\ Carries(Weights(backlog, No(fd)), b, c)
    /\ Carries(Weights(hostPosts, No(fd)), c, Made(fd))

OutputInv ==
  \A fd \in Fds :
    /\ read[fd] <= wrote[fd]
    /\ \A i \in 1..Len(got[fd]) : got[fd][i] = i
    /\ owner = "up" =>
         /\ \A i \in 1..Len(out[fd]) : out[fd][i] = Len(got[fd]) + i
         /\ Arrived(fd) <= wrote[fd]
         /\ link => OnItsWay(fd)
         /\ finished = "exit" => Arrived(fd) = wrote[fd]

\* What is to be written, one at a time.
Input == {"write", "close", "written", "answer"}

In == [m \in Msgs |-> IF m.kind \in Input THEN 1 ELSE 0]

InPosts   == Total(Weights(posts, In))
InSent    == Total(Weights(toHost, In))
InAnswers == Total(Weights(toEditor, In))
InHand    == IF job = "live" THEN Total(Weights(items, In)) + Total(Weights(hostPosts, In)) ELSE 0

Sum(a, b, c, d) == a + b + c + d

Count   == Sum(InPosts, InSent, InAnswers, InHand)
Allowed == IF inFlight \/ inputDone THEN 1 ELSE 0

Asks(m) ==
  /\ m.kind = "write" => m.n = fetched /\ Len(input) + 1 = fetched
  /\ m.kind = "close" => Len(input) = typed /\ fetched = typed /\ ~typing
  /\ m.kind \in {"written", "answer"} => (m.ok => Len(input) = fetched)

InputInv ==
  /\ Count <= Allowed
  /\ job = "live" => Len(answers) = InHand
  /\ job # "live" => items = <<>> /\ answers = <<>>
  /\ ~inFlight /\ ~inputDone => Len(input) = fetched
  /\ \A m \in Members(posts) \cup Members(toHost) \cup Members(toEditor) : Asks(m)
  /\ job = "live" => \A m \in Members(items) \cup Members(hostPosts) : Asks(m)
  /\ Len(input) <= fetched /\ \A i \in 1..Len(input) : input[i] = i
  /\ stdin = "closed" => Len(input) = typed /\ ~typing
  /\ owner # "up" => ~typing

\* The credit of the stream, and what was taken from it.
Ones   == [m \in Msgs |-> IF m.kind = "chunk" THEN 1 ELSE 0]
Credits == [m \in Msgs |-> IF m.kind = "credit" THEN m.n ELSE 0]
Grants == [m \in Msgs |-> IF m.kind \in {"grant", "releasing"} THEN m.n ELSE 0]

ToCome == Total(Weights(toHost, Credits))
Coming == Total(Weights(toEditor, Ones))
ToPost == Total(Weights(posts, Grants))

CreditInv ==
  /\ credit + ToCome + Coming + consumed <= Window
  /\ finished = "no" => consumed = Held + granted + ToPost
  /\ finished # "no" => consumed = 0 /\ granted = 0
  /\ Held <= Window
  /\ ~link => finished # "no"

-----------------------------------------------------------------------------
(* The messages *)

LEMMA EditorMsgFacts ==
  /\ \A fd \in Fds, n \in 1..MaxOut + 1 :
       Chunk(fd, n) \in EditorMsgs /\ Chunk(fd, n) \in ChunkMsgs
       /\ Chunk(fd, n).kind = "chunk" /\ Chunk(fd, n).fd = fd /\ Chunk(fd, n).n = n
  /\ \A n \in 0..MaxIn, ok \in BOOLEAN :
       Answer(n, ok) \in EditorMsgs
       /\ Answer(n, ok).kind = "answer" /\ Answer(n, ok).n = n /\ Answer(n, ok).ok = ok
  /\ Result \in EditorMsgs /\ Result.kind = "result"
  /\ SpawnFailed \in EditorMsgs /\ SpawnFailed.kind = "spawn failed"
  /\ \A m \in EditorMsgs :
       \/ m.kind = "chunk" /\ m \in ChunkMsgs
       \/ m.kind = "answer" /\ m.n \in 0..MaxIn /\ m.ok \in BOOLEAN
       \/ m.kind = "result" /\ m = Result
       \/ m.kind = "spawn failed" /\ m = SpawnFailed
  /\ \A m \in ChunkMsgs :
       m \in EditorMsgs /\ m.kind = "chunk" /\ m.fd \in Fds /\ m.n \in 1..MaxOut + 1
  /\ EditorMsgs \subseteq Msgs /\ ChunkMsgs \subseteq Msgs
<1>1. \A fd \in Fds, n \in 1..MaxOut + 1 :
         Chunk(fd, n) \in EditorMsgs /\ Chunk(fd, n) \in ChunkMsgs
         /\ Chunk(fd, n).kind = "chunk" /\ Chunk(fd, n).fd = fd /\ Chunk(fd, n).n = n
  BY DEF EditorMsgs, ChunkMsgs, AnswerMsgs, Msgs, Chunk, Answer, Result, SpawnFailed
<1>2. \A n \in 0..MaxIn, ok \in BOOLEAN :
         Answer(n, ok) \in EditorMsgs
         /\ Answer(n, ok).kind = "answer" /\ Answer(n, ok).n = n /\ Answer(n, ok).ok = ok
  BY DEF EditorMsgs, ChunkMsgs, AnswerMsgs, Msgs, Chunk, Answer, Result, SpawnFailed
<1>3. Result \in EditorMsgs /\ Result.kind = "result"
  BY DEF EditorMsgs, ChunkMsgs, AnswerMsgs, Msgs, Chunk, Answer, Result, SpawnFailed
<1>4. SpawnFailed \in EditorMsgs /\ SpawnFailed.kind = "spawn failed"
  BY DEF EditorMsgs, ChunkMsgs, AnswerMsgs, Msgs, Chunk, Answer, Result, SpawnFailed
<1>5. \A m \in EditorMsgs :
         \/ m.kind = "chunk" /\ m \in ChunkMsgs
         \/ m.kind = "answer" /\ m.n \in 0..MaxIn /\ m.ok \in BOOLEAN
         \/ m.kind = "result" /\ m = Result
         \/ m.kind = "spawn failed" /\ m = SpawnFailed
  <2> SUFFICES ASSUME NEW m \in EditorMsgs
               PROVE  \/ m.kind = "chunk" /\ m \in ChunkMsgs
                      \/ m.kind = "answer" /\ m.n \in 0..MaxIn /\ m.ok \in BOOLEAN
                      \/ m.kind = "result" /\ m = Result
                      \/ m.kind = "spawn failed" /\ m = SpawnFailed
    OBVIOUS
  <2>1. CASE m \in ChunkMsgs
    BY <2>1 DEF ChunkMsgs
  <2>2. CASE m \in AnswerMsgs
    <3>1. m.kind = "answer" /\ m.n \in 0..MaxIn /\ m.ok \in BOOLEAN
      BY <2>2, Zenon DEF AnswerMsgs, WrittenPosts
    <3>2. QED
      BY <3>1
  <2>3. Result.kind = "result" /\ SpawnFailed.kind = "spawn failed"
    BY <1>3, <1>4
  <2>4. \/ m \in ChunkMsgs \/ m \in AnswerMsgs
        \/ m = Result \/ m = SpawnFailed
    BY DEF EditorMsgs
  <2>5. QED
    BY <2>1, <2>2, <2>3, <2>4, Zenon
<1>6. \A m \in ChunkMsgs :
         m \in EditorMsgs /\ m.kind = "chunk" /\ m.fd \in Fds /\ m.n \in 1..MaxOut + 1
  BY DEF EditorMsgs, ChunkMsgs, AnswerMsgs, Msgs, Chunk, Answer, Result, SpawnFailed
<1>7. EditorMsgs \subseteq Msgs /\ ChunkMsgs \subseteq Msgs
  BY DEF EditorMsgs, ChunkMsgs, AnswerMsgs, Msgs, Chunk, Answer, Result, SpawnFailed
<1>8. QED
  BY <1>1, <1>2, <1>3, <1>4, <1>5, <1>6, <1>7

LEMMA HostMsgFacts ==
  /\ \A n \in 1..MaxIn :
       /\ Write(n) \in HostMsgs /\ Write(n) \in Items /\ Write(n) \in RelayPosts
       /\ Write(n).kind = "write" /\ Write(n).n = n
  /\ \A n \in Nat : Credit(n) \in HostMsgs /\ Credit(n).kind = "credit" /\ Credit(n).n = n
  /\ Spawn \in HostMsgs /\ Spawn.kind = "spawn"
  /\ CloseStdin \in HostMsgs /\ CloseStdin \in Items /\ CloseStdin \in RelayPosts
  /\ CloseStdin.kind = "close"
  /\ Release \in HostMsgs /\ Release \in Items /\ Release.kind = "release"
  /\ Grace \in Items /\ Grace.kind = "grace"
  /\ \A n \in Nat :
       /\ Granting(n) \in RelayPosts /\ Granting(n).kind = "grant" /\ Granting(n).n = n
       /\ Releasing(n) \in RelayPosts /\ Releasing(n).kind = "releasing" /\ Releasing(n).n = n
  /\ \A m \in HostMsgs :
       \/ m.kind = "write" /\ m.n \in 1..MaxIn /\ m = Write(m.n)
       \/ m.kind = "credit" /\ m.n \in Nat
       \/ m.kind = "spawn" /\ m = Spawn
       \/ m.kind = "close" /\ m = CloseStdin
       \/ m.kind = "release" /\ m = Release
  /\ \A m \in Items :
       \/ m.kind = "write" /\ m.n \in 1..MaxIn
       \/ m.kind = "close" /\ m = CloseStdin
       \/ m.kind = "release" /\ m = Release
       \/ m.kind = "grace" /\ m = Grace
  /\ \A m \in RelayPosts :
       \/ m.kind = "write" /\ m.n \in 1..MaxIn /\ m = Write(m.n)
       \/ m.kind \in {"grant", "releasing"} /\ m.n \in Nat
       \/ m.kind = "close" /\ m = CloseStdin
  /\ HostMsgs \subseteq Msgs /\ Items \subseteq Msgs /\ RelayPosts \subseteq Msgs
<1>1. \A n \in 1..MaxIn :
         /\ Write(n) \in HostMsgs /\ Write(n) \in Items /\ Write(n) \in RelayPosts
         /\ Write(n).kind = "write" /\ Write(n).n = n
  BY DEF HostMsgs, Items, RelayPosts, WriteMsgs, Msgs, Write, Credit, Spawn, CloseStdin, Release,
         Grace, Granting, Releasing
<1>2. \A n \in Nat : Credit(n) \in HostMsgs /\ Credit(n).kind = "credit" /\ Credit(n).n = n
  BY DEF HostMsgs, Items, RelayPosts, WriteMsgs, Msgs, Write, Credit, Spawn, CloseStdin, Release,
         Grace, Granting, Releasing
<1>3. Spawn \in HostMsgs /\ Spawn.kind = "spawn"
  BY DEF HostMsgs, Items, RelayPosts, WriteMsgs, Msgs, Write, Credit, Spawn, CloseStdin, Release,
         Grace, Granting, Releasing
<1>4. CloseStdin \in HostMsgs /\ CloseStdin \in Items /\ CloseStdin \in RelayPosts
  BY DEF HostMsgs, Items, RelayPosts, WriteMsgs, Msgs, Write, Credit, Spawn, CloseStdin, Release,
         Grace, Granting, Releasing
<1>5. CloseStdin.kind = "close"
  BY DEF HostMsgs, Items, RelayPosts, WriteMsgs, Msgs, Write, Credit, Spawn, CloseStdin, Release,
         Grace, Granting, Releasing
<1>6. Release \in HostMsgs /\ Release \in Items /\ Release.kind = "release"
  BY DEF HostMsgs, Items, RelayPosts, WriteMsgs, Msgs, Write, Credit, Spawn, CloseStdin, Release,
         Grace, Granting, Releasing
<1>7. Grace \in Items /\ Grace.kind = "grace"
  BY DEF HostMsgs, Items, RelayPosts, WriteMsgs, Msgs, Write, Credit, Spawn, CloseStdin, Release,
         Grace, Granting, Releasing
<1>8. \A n \in Nat :
         /\ Granting(n) \in RelayPosts /\ Granting(n).kind = "grant" /\ Granting(n).n = n
         /\ Releasing(n) \in RelayPosts /\ Releasing(n).kind = "releasing" /\ Releasing(n).n = n
  BY DEF HostMsgs, Items, RelayPosts, WriteMsgs, Msgs, Write, Credit, Spawn, CloseStdin, Release,
         Grace, Granting, Releasing
<1>9. \A m \in HostMsgs :
         \/ m.kind = "write" /\ m.n \in 1..MaxIn /\ m = Write(m.n)
         \/ m.kind = "credit" /\ m.n \in Nat
         \/ m.kind = "spawn" /\ m = Spawn
         \/ m.kind = "close" /\ m = CloseStdin
         \/ m.kind = "release" /\ m = Release
  BY DEF HostMsgs, Items, RelayPosts, WriteMsgs, Msgs, Write, Credit, Spawn, CloseStdin, Release,
         Grace, Granting, Releasing
<1>10. \A m \in Items :
         \/ m.kind = "write" /\ m.n \in 1..MaxIn
         \/ m.kind = "close" /\ m = CloseStdin
         \/ m.kind = "release" /\ m = Release
         \/ m.kind = "grace" /\ m = Grace
  BY DEF HostMsgs, Items, RelayPosts, WriteMsgs, Msgs, Write, Credit, Spawn, CloseStdin, Release,
         Grace, Granting, Releasing
<1>11. \A m \in RelayPosts :
         \/ m.kind = "write" /\ m.n \in 1..MaxIn /\ m = Write(m.n)
         \/ m.kind \in {"grant", "releasing"} /\ m.n \in Nat
         \/ m.kind = "close" /\ m = CloseStdin
  BY DEF HostMsgs, Items, RelayPosts, WriteMsgs, Msgs, Write, Credit, Spawn, CloseStdin, Release,
         Grace, Granting, Releasing
<1>12. HostMsgs \subseteq Msgs /\ Items \subseteq Msgs /\ RelayPosts \subseteq Msgs
  BY DEF HostMsgs, Items, RelayPosts, WriteMsgs, Msgs, Write, Credit, Spawn, CloseStdin, Release,
         Grace, Granting, Releasing
<1>13. QED
  BY <1>1, <1>2, <1>3, <1>4, <1>5, <1>6, <1>7, <1>8, <1>9, <1>10, <1>11, <1>12

LEMMA HostPostFacts ==
  /\ \A fd \in Fds, n \in 1..MaxOut + 1 :
       /\ Output(fd, n) \in HostPosts
       /\ Output(fd, n).kind = "output" /\ Output(fd, n).fd = fd /\ Output(fd, n).n = n
  /\ \A ok \in BOOLEAN :
       Written(ok) \in HostPosts /\ Written(ok).kind = "written" /\ Written(ok).ok = ok
  /\ Exited \in HostPosts /\ Exited.kind = "exited"
  /\ StderrDone \in HostPosts /\ StderrDone.kind = "stderr done"
  /\ \A m \in HostPosts :
       \/ m.kind = "output" /\ m.fd \in Fds /\ m.n \in 1..MaxOut + 1
       \/ m.kind = "written" /\ m.ok \in BOOLEAN
       \/ m.kind = "exited" /\ m = Exited
       \/ m.kind = "stderr done" /\ m = StderrDone
  /\ HostPosts \subseteq Msgs
<1>1. \A fd \in Fds, n \in 1..MaxOut + 1 :
         /\ Output(fd, n) \in HostPosts
         /\ Output(fd, n).kind = "output" /\ Output(fd, n).fd = fd /\ Output(fd, n).n = n
  BY DEF HostPosts, OutputPosts, WrittenPosts, Msgs, Output, Written, Exited, StderrDone
<1>2. \A ok \in BOOLEAN :
         Written(ok) \in HostPosts /\ Written(ok).kind = "written" /\ Written(ok).ok = ok
  BY DEF HostPosts, OutputPosts, WrittenPosts, Msgs, Output, Written, Exited, StderrDone
<1>3. Exited \in HostPosts /\ Exited.kind = "exited"
  BY DEF HostPosts, OutputPosts, WrittenPosts, Msgs, Output, Written, Exited, StderrDone
<1>4. StderrDone \in HostPosts /\ StderrDone.kind = "stderr done"
  BY DEF HostPosts, OutputPosts, WrittenPosts, Msgs, Output, Written, Exited, StderrDone
<1>5. \A m \in HostPosts :
         \/ m.kind = "output" /\ m.fd \in Fds /\ m.n \in 1..MaxOut + 1
         \/ m.kind = "written" /\ m.ok \in BOOLEAN
         \/ m.kind = "exited" /\ m = Exited
         \/ m.kind = "stderr done" /\ m = StderrDone
  <2> SUFFICES ASSUME NEW m \in HostPosts
               PROVE  \/ m.kind = "output" /\ m.fd \in Fds /\ m.n \in 1..MaxOut + 1
                      \/ m.kind = "written" /\ m.ok \in BOOLEAN
                      \/ m.kind = "exited" /\ m = Exited
                      \/ m.kind = "stderr done" /\ m = StderrDone
    OBVIOUS
  <2>1. CASE m \in OutputPosts
    <3>1. m.kind = "output" /\ m.fd \in Fds /\ m.n \in 1..MaxOut + 1
      BY <2>1 DEF OutputPosts
    <3>2. QED
      BY <3>1
  <2>2. CASE m \in WrittenPosts
    <3>1. m.kind = "written" /\ m.ok \in BOOLEAN
      BY <2>2, Zenon DEF AnswerMsgs, WrittenPosts
    <3>2. QED
      BY <3>1
  <2>3. Exited.kind = "exited" /\ StderrDone.kind = "stderr done"
    BY <1>3, <1>4
  <2>4. \/ m \in OutputPosts \/ m \in WrittenPosts
        \/ m = Exited \/ m = StderrDone
    BY DEF HostPosts
  <2>5. QED
    BY <2>1, <2>2, <2>3, <2>4, Zenon
<1>6. HostPosts \subseteq Msgs
  BY DEF HostPosts, OutputPosts, WrittenPosts, Msgs, Output, Written, Exited, StderrDone
<1>7. QED
  BY <1>1, <1>2, <1>3, <1>4, <1>5, <1>6

LEMMA OutputFacts ==
  ASSUME NEW fd \in Fds, NEW n \in 1..MaxOut + 1
  PROVE  /\ Output(fd, n) \in HostPosts
         /\ Output(fd, n).kind = "output" /\ Output(fd, n).fd = fd /\ Output(fd, n).n = n
BY DEF HostPosts, OutputPosts, Output

LEMMA FdFacts ==
  /\ Fds \in {{1}, {1, 2}} /\ 1 \in Fds /\ Fds \subseteq {1, 2} /\ IsFiniteSet(Fds)
  /\ Window \in Nat \ {0} /\ MaxOut \in Nat /\ MaxIn \in Nat
<1>1. Fds \in {{1}, {1, 2}} /\ Window \in Nat \ {0} /\ MaxOut \in Nat /\ MaxIn \in Nat
  BY RelayAssumption
<1>2. IsFiniteSet({1}) /\ IsFiniteSet({1, 2})
  BY FS_Singleton, FS_EmptySet, FS_AddElement
<1>3. IsFiniteSet(Fds)
  BY <1>1, <1>2
<1>4. 1 \in Fds /\ Fds \subseteq {1, 2}
  BY <1>1
<1>5. QED
  BY <1>1, <1>3, <1>4

LEMMA SmallerFacts ==
  \A a, b \in Nat : Smaller(a, b) \in Nat /\ Smaller(a, b) <= a /\ Smaller(a, b) <= b
                    /\ (Smaller(a, b) = a \/ Smaller(a, b) = b)
BY DEF Smaller

\* A part of a queue is one, with the members of that part.
LEMMA PartOfQueue ==
  ASSUME NEW S, NEW q \in Seq(S), NEW k \in 0..Len(q)
  PROVE  /\ SubSeq(q, 1, k) \in Seq(S) /\ Len(SubSeq(q, 1, k)) = k
         /\ \A i \in 1..k : SubSeq(q, 1, k)[i] = q[i]
         /\ SubSeq(q, k + 1, Len(q)) \in Seq(S) /\ Len(SubSeq(q, k + 1, Len(q))) = Len(q) - k
         /\ \A i \in 1..Len(q) - k : SubSeq(q, k + 1, Len(q))[i] = q[k + i]
<1>1. Len(q) \in Nat /\ \A i \in 1..Len(q) : q[i] \in S
  BY LenProperties, ElementOfSeq
<1>2. /\ SubSeq(q, 1, k) \in Seq(S) /\ Len(SubSeq(q, 1, k)) = k
      /\ \A i \in 1..k : SubSeq(q, 1, k)[i] = q[i]
  <2>1. /\ SubSeq(q, 1, k) \in Seq(S) /\ Len(SubSeq(q, 1, k)) = IF 1 <= k THEN k - 1 + 1 ELSE 0
        /\ \A i \in 1..k - 1 + 1 : SubSeq(q, 1, k)[i] = q[1 + i - 1]
    <3>1. 1 \in 1..Len(q) + 1 /\ k \in 1 - 1..Len(q)
      BY <1>1
    <3>2. QED
      BY <1>1, <3>1, SubSeqProperties
  <2>2. \A i \in 1..k : 1 + i - 1 = i
    BY <1>1
  <2>3. QED
    BY <1>1, <2>1, <2>2
<1>3. QED
  BY <1>1, <1>2, SubSeqProperties

LEMMA TypedInit ==
  ASSUME Init
  PROVE  Typed
<1>1. ProcTyped /\ OwnerTyped
  BY FdFacts DEF Init, ProcTyped, OwnerTyped
<1>2. \A S : <<>> \in Seq(S)
  OBVIOUS
<1>3. JobTyped
  <2>1. /\ agent \in BOOLEAN /\ job \in {"none", "live", "gone"}
        /\ mayRead \subseteq Fds /\ waiting \subseteq Fds
        /\ exited \in BOOLEAN /\ released \in BOOLEAN /\ held \in BOOLEAN
    BY DEF Init
  <2>2. stderrDone \in BOOLEAN
    BY DEF Init
  <2>3. /\ items \in Seq(Items) /\ answers \in Seq(0..MaxIn) /\ hostPosts \in Seq(HostPosts)
        /\ backlog \in Seq(ChunkMsgs)
    BY <1>2, Zenon DEF Init
  <2>4. read \in [Fds -> 0..MaxOut + 1] /\ credit \in Nat
    BY FdFacts DEF Init
  <2>5. QED
    BY <2>1, <2>2, <2>3, <2>4 DEF JobTyped
<1>4. EditorTyped
  <2>1. <<Spawn>> \in Seq(HostMsgs)
    BY HostMsgFacts
  <2>2. toEditor \in Seq(EditorMsgs) /\ posts \in Seq(RelayPosts) /\ toHost \in Seq(HostMsgs)
    BY <1>2, <2>1, Zenon DEF Init
  <2>3. out \in [Fds -> Seq(1..MaxOut + 1)]
    <3>1. <<>> \in Seq(1..MaxOut + 1)
      BY <1>2
    <3>2. QED
      BY <3>1 DEF Init
  <2>4. pending \in 0..MaxIn /\ consumed \in Nat /\ granted \in Nat
    BY FdFacts DEF Init
  <2>5. finished \in {"no", "exit", "lost"} /\ relay \in {"up", "eof", "error", "dropped"}
    BY DEF Init
  <2>6. link \in BOOLEAN /\ discarding \in BOOLEAN /\ inFlight \in BOOLEAN /\ inputDone \in BOOLEAN
    BY Zenon DEF Init
  <2>7. QED
    BY <2>2, <2>3, <2>4, <2>5, <2>6 DEF EditorTyped
<1>5. QED
  BY <1>1, <1>3, <1>4 DEF Typed

\* Types, part by part: what an action does not change keeps its type.
LEMMA TypedParts ==
  /\ ProcTyped /\ UNCHANGED procVars => ProcTyped'
  /\ JobTyped /\ UNCHANGED <<agent, jobVars, hostPosts, flowVars>> => JobTyped'
  /\ EditorTyped /\ UNCHANGED <<toEditor, toHost, link, mainVars, relayVars, posts>> => EditorTyped'
  /\ OwnerTyped /\ UNCHANGED ownerVars => OwnerTyped'
<1>1. ProcTyped /\ UNCHANGED procVars => ProcTyped'
  BY DEF ProcTyped, procVars
<1>2. JobTyped /\ UNCHANGED <<agent, jobVars, hostPosts, flowVars>> => JobTyped'
  BY DEF JobTyped, jobVars, flowVars
<1>3. EditorTyped /\ UNCHANGED <<toEditor, toHost, link, mainVars, relayVars, posts>> => EditorTyped'
  BY DEF EditorTyped, mainVars, relayVars
<1>4. OwnerTyped /\ UNCHANGED ownerVars => OwnerTyped'
  BY DEF OwnerTyped, ownerVars
<1>5. QED
  BY <1>1, <1>2, <1>3, <1>4

LEMMA TypedProcess ==
  ASSUME Typed, Process
  PROVE  Typed'
<1>1. ProcTyped'
  BY FdFacts DEF Typed, ProcTyped, Process, ProcessEnds, ProcessWrites
<1>2. QED
  BY <1>1, TypedParts DEF Typed, Process, hostSide, editorSide

LEMMA TypedReader ==
  ASSUME Typed, NEW fd \in Fds, Reader(fd)
  PROVE  Typed'
<1>1. ProcTyped /\ JobTyped
  BY DEF Typed
<1>2. hostPosts' \in Seq(HostPosts) /\ read' \in [Fds -> 0..MaxOut + 1]
  <2>1. CASE /\ read[fd] < wrote[fd] /\ read' = [read EXCEPT ![fd] = @ + 1]
             /\ hostPosts' = Append(hostPosts, Output(fd, read[fd] + 1))
    <3>1. read[fd] + 1 \in 1..MaxOut + 1
      <4>1. read[fd] \in 0..MaxOut + 1 /\ wrote[fd] \in 0..MaxOut + 1 /\ MaxOut \in Nat
        BY <1>1, FdFacts DEF ProcTyped, JobTyped
      <4>2. QED
        BY <2>1, <4>1
    <3>2. Output(fd, read[fd] + 1) \in HostPosts
      BY <3>1, OutputFacts
    <3>3. QED
      BY <1>1, <2>1, <3>1, <3>2, AppendGrows DEF JobTyped
  <2>2. CASE UNCHANGED read /\ hostPosts' = Append(hostPosts, IF fd = 1 THEN Exited ELSE StderrDone)
    BY <1>1, <2>2, HostPostFacts, AppendGrows DEF JobTyped
  <2>3. QED
    BY <2>1, <2>2 DEF Reader
<1>3. JobTyped'
  BY <1>1, <1>2 DEF JobTyped, Reader, flowVars
<1>4. QED
  BY <1>3, TypedParts DEF Typed, Reader, editorSide

LEMMA TypedWriter ==
  ASSUME Typed, Writer
  PROVE  Typed'
<1> DEFINE item == Head(items)
<1>1. ProcTyped /\ JobTyped
  BY DEF Typed
<1>2. items \in Seq(Items) /\ items # <<>> /\ Tail(items) \in Seq(Items) /\ item \in Items
  BY <1>1, TailShrinks DEF JobTyped, Writer
<1>3. hostPosts \in Seq(HostPosts)
  BY <1>1 DEF JobTyped
<1>4. \A ok \in BOOLEAN : Append(hostPosts, Written(ok)) \in Seq(HostPosts)
  BY <1>3, HostPostFacts, AppendGrows
<1>5. CASE item.kind = "write" /\ WriteInput(item.n) /\ items' = Tail(items) /\ UNCHANGED <<proc, stdin>>
  <2>1. item.n \in 1..MaxIn
    BY <1>2, <1>5, HostMsgFacts
  <2>2. input' \in Seq(1..MaxIn)
    <3> HIDE DEF item
    <3>1. input \in Seq(1..MaxIn)
      BY <1>1 DEF ProcTyped
    <3>2. Append(input, item.n) \in Seq(1..MaxIn)
      BY <2>1, <3>1, AppendGrows
    <3>3. input' = Append(input, item.n) \/ input' = input
      BY <1>5 DEF WriteInput
    <3>4. QED
      BY <3>1, <3>2, <3>3
  <2>3. hostPosts' \in Seq(HostPosts)
    BY <1>4, <1>5 DEF WriteInput
  <2>4. ProcTyped'
    BY <1>1, <1>5, <2>2 DEF ProcTyped, Writer
  <2>5. JobTyped'
    BY <1>1, <1>2, <1>5, <2>3 DEF JobTyped, Writer, flowVars
  <2>6. QED
    BY <2>4, <2>5, TypedParts DEF Typed, Writer, editorSide
<1>6. CASE ~(item.kind = "write" /\ WriteInput(item.n) /\ items' = Tail(items) /\ UNCHANGED <<proc, stdin>>)
  <2>1. /\ proc' \in {proc, "ended"} /\ stdin' \in {stdin, "closed", "cut"} /\ input' = input
        /\ items' \in {Tail(items), <<Grace>> \o Tail(items)}
        /\ hostPosts' \in {hostPosts, Append(hostPosts, Written(TRUE))}
    BY <1>6 DEF Writer, KilledUnlessExited
  <2>2. items' \in Seq(Items)
    <3>1. <<Grace>> \in Seq(Items)
      BY HostMsgFacts
    <3>2. <<Grace>> \o Tail(items) \in Seq(Items)
      BY <1>2, <3>1, ConcatProperties
    <3>3. QED
      BY <1>2, <2>1, <3>2
  <2>3. hostPosts' \in Seq(HostPosts)
    <3>1. Append(hostPosts, Written(TRUE)) \in Seq(HostPosts)
      BY <1>4
    <3>2. QED
      BY <1>3, <2>1, <3>1
  <2>4. ProcTyped'
    BY <1>1, <2>1 DEF ProcTyped, Writer
  <2>5. JobTyped'
    BY <1>1, <2>2, <2>3 DEF JobTyped, Writer, flowVars
  <2>6. QED
    BY <2>4, <2>5, TypedParts DEF Typed, Writer, editorSide
<1>7. QED
  BY <1>5, <1>6

\* What is sent to the editor.
LEMMA SentIsTyped ==
  ASSUME Typed, NEW s \in Seq(EditorMsgs), SendToEditor(s)
  PROVE  toEditor' \in Seq(EditorMsgs)
<1>1. toEditor \in Seq(EditorMsgs)
  BY DEF Typed, EditorTyped
<1>2. toEditor \o s \in Seq(EditorMsgs)
  BY <1>1, ConcatProperties
<1>3. QED
  BY <1>1, <1>2 DEF SendToEditor

LEMMA SentOneIsTyped ==
  ASSUME Typed, NEW m \in EditorMsgs, SendToEditor(<<m>>)
  PROVE  toEditor' \in Seq(EditorMsgs)
<1>1. <<m>> \in Seq(EditorMsgs)
  OBVIOUS
<1>2. QED
  BY <1>1, SentIsTyped

\* Only messages to the editor, or to the host, differ.
LEMMA TypedSent ==
  /\ EditorTyped /\ toEditor' \in Seq(EditorMsgs)
       /\ UNCHANGED <<toHost, link, mainVars, relayVars, posts>> => EditorTyped'
  /\ EditorTyped /\ toEditor' \in Seq(EditorMsgs) /\ toHost' \in Seq(HostMsgs)
       /\ UNCHANGED <<link, mainVars, relayVars, posts>> => EditorTyped'
BY DEF EditorTyped, mainVars, relayVars

\* The answer of the spawn and those that fail with it.
Refused(s) == [i \in 1..Len(s) |-> Answer(s[i], FALSE)]

LEMMA RefusedTyped ==
  ASSUME NEW s \in Seq(0..MaxIn)
  PROVE  /\ Refused(s) \in Seq(EditorMsgs) /\ Len(Refused(s)) = Len(s)
         /\ \A i \in 1..Len(s) : Refused(s)[i] = Answer(s[i], FALSE) /\ s[i] \in 0..MaxIn
<1>1. Len(s) \in Nat /\ \A i \in 1..Len(s) : s[i] \in 0..MaxIn
  BY LenProperties, ElementOfSeq
<1>2. \A n \in 0..MaxIn : Answer(n, FALSE) \in EditorMsgs
  BY EditorMsgFacts
<1>3. Refused(s) \in [1..Len(s) -> EditorMsgs]
  BY <1>1, <1>2 DEF Refused
<1>4. Refused(s) \in Seq(EditorMsgs) /\ Len(Refused(s)) = Len(s)
  BY <1>1, <1>3
<1>5. QED
  BY <1>1, <1>4 DEF Refused

-----------------------------------------------------------------------------
(* The cases of the larger actions, each with what it changes.             *)

\* What is sent when a job is done: the answer of the spawn, unless pieces
\* wait, and the answers of what is not done.
LastOnes(first) == (IF first THEN <<Result>> ELSE <<>>) \o Refused(answers)

\* What the host's main thread does with the first of what was posted.
HostRuns(m) ==
  /\ agent /\ hostPosts # <<>> /\ m = Head(hostPosts) /\ hostPosts' = Tail(hostPosts)
  /\ UNCHANGED <<procVars, agent, read, released, toHost, link, mainVars, relayVars, posts, ownerVars>>

PostIsLate(m) ==
  /\ HostRuns(m) /\ job # "live"
  /\ UNCHANGED <<job, mayRead, waiting, exited, stderrDone, items, answers, flowVars, toEditor>>

OutputIsDropped(m) ==
  /\ HostRuns(m) /\ job = "live" /\ m.kind = "output" /\ released
  /\ mayRead' = mayRead \cup {m.fd}
  /\ UNCHANGED <<job, waiting, exited, stderrDone, items, answers, flowVars, toEditor>>

OutputIsSent(m) ==
  /\ HostRuns(m) /\ job = "live" /\ m.kind = "output" /\ ~released
  /\ credit > 0 /\ backlog = <<>> /\ credit' = credit - 1
  /\ SendToEditor(<<Chunk(m.fd, m.n)>>)
  /\ mayRead' = mayRead \cup {m.fd}
  /\ UNCHANGED <<job, waiting, exited, stderrDone, items, answers, backlog, held>>

OutputWaits(m) ==
  /\ HostRuns(m) /\ job = "live" /\ m.kind = "output" /\ ~released
  /\ backlog' = Append(backlog, Chunk(m.fd, m.n))
  /\ waiting' = waiting \cup {m.fd}
  /\ UNCHANGED <<job, mayRead, exited, stderrDone, items, answers, credit, held, toEditor>>

InputIsAnswered(m) ==
  /\ HostRuns(m) /\ job = "live" /\ m.kind = "written"
  /\ answers' = Tail(answers)
  /\ SendToEditor(<<Answer(Head(answers), m.ok)>>)
  /\ UNCHANGED <<job, mayRead, waiting, exited, stderrDone, items, flowVars>>

\* One of the two ends, and both of them.
OneEnd(m) ==
  /\ HostRuns(m) /\ job = "live"
  /\ \/ m = Exited /\ exited' = TRUE /\ stderrDone' = stderrDone
     \/ m = StderrDone /\ stderrDone' = TRUE /\ exited' = exited
  /\ UNCHANGED <<mayRead, waiting, credit, backlog>>

OneIsDone(m) ==
  /\ OneEnd(m)
  /\ UNCHANGED <<job, items, answers, held, toEditor>>

JobIsDone(m) ==
  /\ OneEnd(m) /\ exited' /\ stderrDone'
  /\ job' = "gone" /\ items' = <<>> /\ answers' = <<>>
  /\ held' = (backlog # <<>>)
  /\ SendToEditor(LastOnes(~held'))

LEMMA HostRunsPostCases ==
  ASSUME Typed, HostRunsPost
  PROVE  \E m \in HostPosts :
           \/ PostIsLate(m) \/ OutputIsDropped(m) \/ OutputIsSent(m) \/ OutputWaits(m)
           \/ InputIsAnswered(m) \/ OneIsDone(m) \/ JobIsDone(m)
<1> DEFINE m == Head(hostPosts)
<1>1. m \in HostPosts
  BY TailShrinks DEF Typed, JobTyped, HostRunsPost
<1>2. HostRuns(m)
  BY DEF HostRuns, HostRunsPost, editorSide
<1>3. CASE job # "live" /\ UNCHANGED <<job, mayRead, waiting, exited, stderrDone, items, answers,
                                       flowVars, toEditor>>
  BY <1>1, <1>2, <1>3 DEF PostIsLate
<1>4. CASE job = "live" /\ m.kind = "output" /\ OnProcOutput(m.fd, m.n)
  <2>0. m.fd \in Fds /\ m.n \in 1..MaxOut + 1
    BY <1>1, <1>4, HostPostFacts
  <2>1. CASE released
    BY <1>1, <1>2, <1>4, <2>1 DEF OnProcOutput, GoesOn, OutputIsDropped, flowVars
  <2>2. CASE ~released /\ credit > 0 /\ backlog = <<>>
    BY <1>1, <1>2, <1>4, <2>2 DEF OnProcOutput, GoesOn, OutputIsSent
  <2>3. CASE ~released /\ ~(credit > 0 /\ backlog = <<>>)
    <3>1. backlog' = Append(backlog, Chunk(m.fd, m.n))
      BY <1>4, <2>3 DEF OnProcOutput
    <3>2. backlog' # <<>>
      <4>1. Chunk(m.fd, m.n) \in ChunkMsgs /\ backlog \in Seq(ChunkMsgs)
        BY <2>0, EditorMsgFacts DEF Typed, JobTyped
      <4> HIDE DEF m
      <4>2. QED
        BY <3>1, <4>1, AppendProperties
    <3>3. OutputWaits(m)
      BY <1>2, <1>4, <2>3, <3>1, <3>2 DEF OnProcOutput, GoesOn, OutputWaits
    <3>4. QED
      BY <1>1, <3>3
  <2>4. QED
    BY <2>1, <2>2, <2>3
<1>5. CASE job = "live" /\ m.kind = "written" /\ OnProcWritten(m.ok)
  BY <1>1, <1>2, <1>5 DEF OnProcWritten, InputIsAnswered
<1>6. CASE /\ job = "live" /\ FinishProcIfDone
           /\ \/ m = Exited /\ exited' = TRUE /\ UNCHANGED stderrDone
              \/ m = StderrDone /\ stderrDone' = TRUE /\ UNCHANGED exited
  <2>1. OneEnd(m)
    BY <1>2, <1>6 DEF OneEnd, FinishProcIfDone
  <2>2. CASE exited' /\ stderrDone'
    <3>1. (IF held' THEN <<>> ELSE <<Result>>) = (IF ~held' THEN <<Result>> ELSE <<>>)
      OBVIOUS
    <3>2. QED
      BY <1>1, <1>6, <2>1, <2>2, <3>1 DEF FinishProcIfDone, JobIsDone, LastOnes, Refused
  <2>3. CASE ~(exited' /\ stderrDone')
    BY <1>1, <1>6, <2>1, <2>3 DEF FinishProcIfDone, OneIsDone
  <2>4. QED
    BY <2>2, <2>3
<1>7. QED
  BY <1>3, <1>4, <1>5, <1>6 DEF HostRunsPost

\* What the host's main thread does with the first of what the editor sent.
Hears(m) ==
  /\ agent /\ toHost # <<>> /\ m = Head(toHost) /\ toHost' = Tail(toHost)
  /\ UNCHANGED <<input, stdin, agent, read, hostPosts, exited, stderrDone, link, mainVars,
                 relayVars, posts, ownerVars>>

Spawns(m) ==
  /\ Hears(m) /\ m = Spawn /\ proc' = "running" /\ job' = "live"
  /\ UNCHANGED <<wrote, toEditor, released, mayRead, waiting, items, answers, flowVars>>

SpawnFails(m) ==
  /\ Hears(m) /\ m = Spawn
  /\ wrote' = [fd \in Fds |-> IF fd = 2 THEN 1 ELSE 0] /\ job' = "gone"
  /\ SendToEditor(<<SpawnFailed>>)
  /\ UNCHANGED <<proc, released, mayRead, waiting, items, answers, flowVars>>

\* A write, which has a number, or a close, which is 0.
Asking(m, n) ==
  \/ m.kind = "write" /\ n = m.n /\ n \in 1..MaxIn
  \/ m.kind = "close" /\ n = 0

InputIsQueued(m, n) ==
  /\ Hears(m) /\ Asking(m, n) /\ job = "live"
  /\ answers' = Append(answers, n) /\ items' = Append(items, m)
  /\ UNCHANGED <<proc, wrote, job, released, mayRead, waiting, flowVars, toEditor>>

InputIsRefused(m, n) ==
  /\ Hears(m) /\ Asking(m, n) /\ job # "live"
  /\ SendToEditor(<<Answer(n, FALSE)>>)
  /\ UNCHANGED <<proc, wrote, job, released, mayRead, waiting, flowVars, answers, items>>

JobIsReleased(m) ==
  /\ Hears(m) /\ m = Release /\ job = "live"
  /\ released' = TRUE /\ mayRead' = mayRead \cup waiting /\ waiting' = {}
  /\ items' = Append(items, Release)
  /\ UNCHANGED <<proc, wrote, job, answers, flowVars, toEditor>>

HeardLate(m) ==
  /\ Hears(m) /\ (m = Release \/ m.kind = "credit") /\ job # "live"
  /\ UNCHANGED <<proc, wrote, job, released, mayRead, waiting, items, answers, flowVars, toEditor>>

\* Credit for k of the pieces that wait: a live job's, or what a job left.
CreditArrives(m, k) ==
  /\ Hears(m) /\ m.kind = "credit" /\ m.n \in Nat /\ k \in 0..Len(backlog) /\ k <= credit + m.n
  /\ k = Len(backlog) \/ k = credit + m.n
  /\ credit' = credit + m.n - k
  /\ backlog' = SubSeq(backlog, k + 1, Len(backlog))
  /\ UNCHANGED <<proc, wrote, job, released, items, answers>>

LiveCredit(m, k) ==
  /\ CreditArrives(m, k) /\ job = "live" /\ ~held /\ held' = held
  /\ SendToEditor(SubSeq(backlog, 1, k))
  /\ \/ backlog' = <<>> /\ mayRead' = mayRead \cup waiting /\ waiting' = {}
     \/ UNCHANGED <<mayRead, waiting>> /\ (backlog' # <<>> \/ backlog = <<>>)

LateCredit(m, k) ==
  /\ CreditArrives(m, k) /\ held
  /\ held' = (backlog' # <<>>)
  /\ SendToEditor(SubSeq(backlog, 1, k) \o IF backlog' = <<>> THEN <<Result>> ELSE <<>>)
  /\ UNCHANGED <<mayRead, waiting>>

LEMMA HostReceivesCases ==
  ASSUME Typed, HostReceives
  PROVE  \E m \in HostMsgs :
           \/ Spawns(m) \/ SpawnFails(m)
           \/ \E n \in 0..MaxIn : InputIsQueued(m, n) \/ InputIsRefused(m, n)
           \/ JobIsReleased(m) \/ HeardLate(m)
           \/ \E k \in 0..Len(backlog) : LiveCredit(m, k) \/ LateCredit(m, k)
<1> DEFINE m == Head(toHost)
<1>0. toHost \in Seq(HostMsgs) /\ backlog \in Seq(ChunkMsgs) /\ credit \in Nat /\ held \in BOOLEAN
  BY DEF Typed, JobTyped, EditorTyped
<1>1. m \in HostMsgs
  BY <1>0, TailShrinks DEF HostReceives
<1>2. Hears(m)
  BY DEF Hears, HostReceives, editorSide
<1>3. CASE m = Spawn /\ ProcSpawn /\ UNCHANGED <<released, mayRead, waiting, items, answers, flowVars>>
  BY <1>1, <1>2, <1>3 DEF ProcSpawn, Spawns, SpawnFails
<1>4. CASE m.kind = "write" /\ ProcWrite(m.n)
           /\ UNCHANGED <<proc, wrote, job, released, mayRead, waiting, flowVars>>
  <2>1. m = Write(m.n) /\ m.n \in 1..MaxIn /\ m.n \in 0..MaxIn
    BY <1>1, <1>4, HostMsgFacts, FdFacts
  <2>2. Asking(m, m.n)
    BY <1>4, <2>1 DEF Asking
  <2>3. CASE job = "live"
    <3>1. InputIsQueued(m, m.n)
      BY <1>2, <1>4, <2>1, <2>2, <2>3 DEF ProcWrite, InputIsQueued
    <3>2. QED
      BY <1>1, <2>1, <3>1
  <2>4. CASE job # "live"
    <3>1. InputIsRefused(m, m.n)
      BY <1>2, <1>4, <2>1, <2>2, <2>4 DEF ProcWrite, InputIsRefused
    <3>2. QED
      BY <1>1, <2>1, <3>1
  <2>5. QED
    BY <2>3, <2>4
<1>5. CASE m = CloseStdin /\ ProcCloseStdin
           /\ UNCHANGED <<proc, wrote, job, released, mayRead, waiting, flowVars>>
  <2>1. 0 \in 0..MaxIn /\ Asking(m, 0)
    BY <1>5, FdFacts, HostMsgFacts DEF Asking
  <2>3. CASE job = "live"
    <3>1. InputIsQueued(m, 0)
      BY <1>2, <1>5, <2>1, <2>3 DEF ProcCloseStdin, InputIsQueued
    <3>2. QED
      BY <1>1, <2>1, <3>1
  <2>4. CASE job # "live"
    <3>1. InputIsRefused(m, 0)
      BY <1>2, <1>5, <2>1, <2>4 DEF ProcCloseStdin, InputIsRefused
    <3>2. QED
      BY <1>1, <2>1, <3>1
  <2>5. QED
    BY <2>3, <2>4
<1>6. CASE m = Release /\ ProcRelease /\ UNCHANGED <<proc, wrote, job, answers, flowVars, toEditor>>
  BY <1>1, <1>2, <1>6 DEF ProcRelease, PermitWaiting, JobIsReleased, HeardLate
<1>7. CASE m.kind = "credit" /\ ReceiveCredit(m.n)
           /\ UNCHANGED <<proc, wrote, job, released, items, answers>>
  <2> DEFINE n == m.n
             k == Smaller(credit + n, Len(backlog))
             rest == SubSeq(backlog, k + 1, Len(backlog))
  <2>1. n \in Nat
    BY <1>1, <1>7, HostMsgFacts
  <2>2. /\ Len(backlog) \in Nat /\ credit + n \in Nat
        /\ k \in 0..Len(backlog) /\ k <= credit + n /\ (k = Len(backlog) \/ k = credit + n)
    <3>1. Len(backlog) \in Nat /\ credit + n \in Nat
      BY <1>0, <2>1, LenProperties
    <3>2. \A a, b \in Nat : Smaller(a, b) \in 0..b /\ Smaller(a, b) <= a
                            /\ (Smaller(a, b) = b \/ Smaller(a, b) = a)
      BY DEF Smaller
    <3> DEFINE a == credit + n
               b == Len(backlog)
    <3>3. a \in Nat /\ b \in Nat
      BY <3>1
    <3> HIDE DEF a, b
    <3>4. Smaller(a, b) \in 0..b /\ Smaller(a, b) <= a /\ (Smaller(a, b) = b \/ Smaller(a, b) = a)
      BY <3>2, <3>3
    <3>5. QED
      BY <3>1, <3>4 DEF a, b
  <2>3. CASE job # "live" /\ ~held
    BY <1>1, <1>2, <1>7, <2>3 DEF ReceiveCredit, HeardLate
  <2>4. CASE job = "live" \/ held
    <3>1. /\ credit' = credit + n - k /\ backlog' = rest /\ held' = (held /\ rest # <<>>)
          /\ SendToEditor(SubSeq(backlog, 1, k) \o IF held /\ rest = <<>> THEN <<Result>> ELSE <<>>)
          /\ IF rest = <<>> /\ backlog # <<>> /\ ~held
             THEN PermitWaiting ELSE UNCHANGED <<mayRead, waiting>>
      BY <1>7, <2>4 DEF ReceiveCredit
    <3>2. CreditArrives(m, k)
      BY <1>2, <1>7, <2>1, <2>2, <3>1 DEF CreditArrives
    <3>3. CASE held
      <4>1. LateCredit(m, k)
        BY <3>1, <3>2, <3>3 DEF LateCredit
      <4>2. QED
        BY <1>1, <2>2, <4>1
    <3>4. CASE ~held
      <4>1. SubSeq(backlog, 1, k) \o <<>> = SubSeq(backlog, 1, k)
        BY <1>0, <2>2, PartOfQueue, ConcatEmptySeq
      <4>2. SendToEditor(SubSeq(backlog, 1, k))
        BY <3>1, <3>4, <4>1
      <4>3. held' = held
        BY <1>0, <3>1, <3>4
      <4>4. \/ backlog' = <<>> /\ mayRead' = mayRead \cup waiting /\ waiting' = {}
            \/ UNCHANGED <<mayRead, waiting>> /\ (backlog' # <<>> \/ backlog = <<>>)
        BY <3>1, <3>4 DEF PermitWaiting
      <4>5. LiveCredit(m, k)
        BY <2>4, <3>2, <3>4, <4>2, <4>3, <4>4 DEF LiveCredit
      <4>6. QED
        BY <1>1, <2>2, <4>5
    <3>5. QED
      BY <3>3, <3>4
  <2>5. QED
    BY <2>3, <2>4
<1>8. QED
  BY <1>3, <1>4, <1>5, <1>6, <1>7 DEF HostReceives

\* What the editor's main thread does with the first of what the host sent.
Gets(m) ==
  /\ toEditor # <<>> /\ m = Head(toEditor) /\ toEditor' = Tail(toEditor)
  /\ UNCHANGED <<procVars, agent, jobVars, hostPosts, flowVars, link, discarding, relay, posts,
                 ownerVars>>

\* A grant, of which a batch may go to the host.
GrantIs(taken, n, sent) ==
  \/ finished # "no" /\ consumed' = 0 /\ granted' = 0 /\ sent = <<>>
  \/ /\ finished = "no" /\ consumed' = taken /\ granted' = granted + n /\ sent = <<>>
  \/ \E k \in Nat :
       /\ finished = "no" /\ k <= taken /\ k <= granted + n
       /\ consumed' = taken - k /\ granted' = granted + n - k /\ sent = <<Credit(k)>>

LEMMA GrantCases ==
  ASSUME Typed, NEW taken \in Nat, NEW n \in Nat, NEW more \in Seq(HostMsgs), Grant(taken, n, more)
  PROVE  \E sent \in Seq(HostMsgs) : GrantIs(taken, n, sent) /\ toHost' = (toHost \o sent) \o more
<1> DEFINE k == Smaller(granted + n, taken)
           whole == finished = "no" /\ k >= (IF Window < 2 THEN 1 ELSE Window \div 2)
<1>1. granted + n \in Nat /\ toHost \in Seq(HostMsgs)
  BY DEF Typed, EditorTyped
<1>2. k \in Nat /\ k <= taken /\ k <= granted + n
  BY <1>1, SmallerFacts
<1>3. /\ consumed' = IF finished # "no" THEN 0 ELSE IF whole THEN taken - k ELSE taken
      /\ granted' = IF finished # "no" THEN 0 ELSE IF whole THEN granted + n - k ELSE granted + n
      /\ toHost' = toHost \o (IF whole THEN <<Credit(k)>> ELSE <<>>) \o more
  BY DEF Grant
<1>4. <<>> \in Seq(HostMsgs) /\ <<Credit(k)>> \in Seq(HostMsgs)
  BY <1>2, HostMsgFacts
<1>5. CASE whole
  <2>1. GrantIs(taken, n, <<Credit(k)>>)
    <3>0. finished = "no"
      BY <1>5
    <3> HIDE DEF k, whole
    <3>1. QED
      BY <1>2, <1>3, <1>5, <3>0 DEF GrantIs
  <2>2. toHost' = (toHost \o <<Credit(k)>>) \o more
    BY <1>3, <1>5
  <2>3. QED
    BY <1>4, <2>1, <2>2
<1>6. CASE ~whole
  <2>1. GrantIs(taken, n, <<>>)
    <3> HIDE DEF k, whole
    <3>1. QED
      BY <1>3, <1>6 DEF GrantIs
  <2>2. toHost' = (toHost \o <<>>) \o more
    BY <1>3, <1>6
  <2>3. QED
    BY <1>4, <2>1, <2>2
<1>7. QED
  BY <1>5, <1>6

ChunkIsKept(m) ==
  /\ Gets(m) /\ m \in ChunkMsgs /\ owner # "released" /\ ~discarding
  /\ out' = [out EXCEPT ![m.fd] = Append(@, m.n)]
  /\ consumed' = consumed + 1
  /\ UNCHANGED <<granted, toHost, pending, finished, inFlight, inputDone>>

ChunkIsDiscarded(m, sent) ==
  /\ Gets(m) /\ m \in ChunkMsgs /\ (owner = "released" \/ discarding)
  /\ GrantIs(consumed + 1, 1, sent) /\ toHost' = toHost \o sent
  /\ UNCHANGED <<out, pending, finished, inFlight, inputDone>>

SpawnIsAnswered(m) ==
  /\ Gets(m) /\ (m = Result \/ m = SpawnFailed)
  /\ finished' = "exit" /\ consumed' = 0 /\ granted' = 0
  /\ out' = IF m = Result THEN out
            ELSE [fd \in Fds |-> IF fd = 2 THEN Append(out[2], 1) ELSE out[fd]]
  /\ UNCHANGED <<pending, inFlight, inputDone, toHost>>

AnswerArrives(m) ==
  /\ Gets(m) /\ m.kind = "answer"
  /\ \/ pending # 0 /\ pending' = 0 /\ inFlight' = FALSE /\ inputDone' = (inputDone \/ ~m.ok)
     \/ UNCHANGED <<pending, inFlight, inputDone>>
  /\ UNCHANGED <<finished, out, consumed, granted, toHost>>

LEMMA EditorReceivesCases ==
  ASSUME Typed, EditorReceives
  PROVE  \E m \in EditorMsgs :
           \/ ChunkIsKept(m) \/ \E sent \in Seq(HostMsgs) : ChunkIsDiscarded(m, sent)
           \/ SpawnIsAnswered(m) \/ AnswerArrives(m)
<1> DEFINE m == Head(toEditor)
<1>0. toEditor \in Seq(EditorMsgs) /\ toHost \in Seq(HostMsgs) /\ consumed \in Nat
  BY DEF Typed, EditorTyped
<1>1. m \in EditorMsgs
  BY <1>0, TailShrinks DEF EditorReceives
<1>2. Gets(m)
  BY DEF Gets, EditorReceives, hostSide
<1>3. CASE m.kind = "chunk" /\ ReceiveChunk(m.fd, m.n)
  <2>1. m \in ChunkMsgs
    BY <1>1, <1>3, EditorMsgFacts
  <2>2. CASE owner # "released" /\ ~discarding
    BY <1>1, <1>2, <1>3, <2>1, <2>2 DEF ReceiveChunk, ChunkIsKept
  <2>3. CASE ~(owner # "released" /\ ~discarding)
    <3>1. Grant(consumed + 1, 1, <<>>) /\ UNCHANGED <<out, pending, finished, inFlight, inputDone>>
      BY <1>3, <2>3 DEF ReceiveChunk
    <3>2. <<>> \in Seq(HostMsgs) /\ consumed + 1 \in Nat
      BY <1>0
    <3>3. PICK sent \in Seq(HostMsgs) :
            GrantIs(consumed + 1, 1, sent) /\ toHost' = (toHost \o sent) \o <<>>
      BY <3>1, <3>2, GrantCases
    <3>4. toHost \o sent \in Seq(HostMsgs)
      BY <1>0, ConcatProperties
    <3>5. toHost' = toHost \o sent
      BY <3>3, <3>4, ConcatEmptySeq
    <3>6. ChunkIsDiscarded(m, sent)
      BY <1>2, <2>1, <2>3, <3>1, <3>3, <3>5 DEF ChunkIsDiscarded
    <3>7. QED
      BY <1>1, <3>6
  <2>4. QED
    BY <2>2, <2>3
<1>4. CASE m = Result /\ ReceiveExit
  BY <1>1, <1>2, <1>4 DEF ReceiveExit, Finish, SpawnIsAnswered
<1>5. CASE m = SpawnFailed /\ ReceiveSpawnFailed
  <2>1. m # Result
    BY <1>5, EditorMsgFacts
  <2>2. QED
    BY <1>1, <1>2, <1>5, <2>1 DEF ReceiveSpawnFailed, Finish, SpawnIsAnswered
<1>6. CASE m.kind = "answer" /\ ReceiveAnswer(m.n, m.ok)
  BY <1>1, <1>2, <1>6 DEF ReceiveAnswer, WriteAnswered, AnswerArrives
<1>7. QED
  BY <1>3, <1>4, <1>5, <1>6 DEF EditorReceives

\* What the editor's main thread does with the first of what the relay posted.
Posted(m) ==
  /\ posts # <<>> /\ m = Head(posts) /\ posts' = Tail(posts)
  /\ UNCHANGED <<procVars, agent, jobVars, hostPosts, flowVars, toEditor, link, finished, out,
                 discarding, relay, ownerVars>>

PostIsLost(m) ==
  /\ Posted(m) /\ ~link
  /\ \/ m.kind = "write" /\ pending' = 0 /\ inFlight' = FALSE /\ inputDone' = TRUE
     \/ UNCHANGED <<pending, inFlight, inputDone>>
  /\ UNCHANGED <<consumed, granted, toHost>>

PostIsAsked(m) ==
  /\ Posted(m) /\ link /\ m.kind \in {"write", "close"} /\ m \in HostMsgs
  /\ toHost' = Append(toHost, m)
  /\ pending' \in 0..MaxIn
  /\ UNCHANGED <<inFlight, inputDone, consumed, granted>>

PostIsGranted(m, sent, more) ==
  /\ Posted(m) /\ link /\ m.kind \in {"grant", "releasing"} /\ m.n \in Nat
  /\ GrantIs(consumed, m.n, sent)
  /\ more = <<>> \/ (more = <<Release>> /\ m.kind = "releasing")
  /\ toHost' = (toHost \o sent) \o more
  /\ UNCHANGED <<pending, inFlight, inputDone>>

LEMMA EditorRunsPostCases ==
  ASSUME Typed, EditorRunsPost
  PROVE  \E m \in RelayPosts :
           \/ PostIsLost(m) \/ PostIsAsked(m)
           \/ \E sent, more \in Seq(HostMsgs) : PostIsGranted(m, sent, more)
<1> DEFINE m == Head(posts)
<1>0. /\ posts \in Seq(RelayPosts) /\ toHost \in Seq(HostMsgs) /\ consumed \in Nat
      /\ pending \in 0..MaxIn /\ 0 \in 0..MaxIn
  BY FdFacts DEF Typed, EditorTyped
<1>1. m \in RelayPosts
  BY <1>0, TailShrinks DEF EditorRunsPost
<1>2. Posted(m)
  BY DEF Posted, EditorRunsPost, hostSide
<1>3. CASE ~link
  <2>1. PostFails(m)
    BY <1>3 DEF EditorRunsPost
  <2>2. QED
    BY <1>1, <1>2, <1>3, <2>1 DEF PostFails, WriteAnswered, PostIsLost
<1>4. CASE link
  <2>0. RunsPost(m)
    BY <1>4 DEF EditorRunsPost
  <2>1. CASE m.kind = "write" /\ pending' = m.n /\ toHost' = Append(toHost, m)
             /\ UNCHANGED <<inFlight, inputDone, consumed, granted>>
    <3>1. m = Write(m.n) /\ m.n \in 1..MaxIn
      BY <1>1, <2>1, HostMsgFacts
    <3>2. m \in HostMsgs /\ m.n \in 0..MaxIn
      BY <3>1, HostMsgFacts, FdFacts
    <3>3. PostIsAsked(m)
      BY <1>2, <1>4, <2>1, <3>2 DEF PostIsAsked
    <3>4. QED
      BY <1>1, <3>3
  <2>2. CASE m = CloseStdin /\ toHost' = Append(toHost, m)
             /\ UNCHANGED <<pending, inFlight, inputDone, consumed, granted>>
    <3>1. m \in HostMsgs /\ m.kind = "close"
      BY <2>2, HostMsgFacts
    <3>2. PostIsAsked(m)
      BY <1>0, <1>2, <1>4, <2>2, <3>1 DEF PostIsAsked
    <3>3. QED
      BY <1>1, <3>2
  <2>3. ASSUME NEW more \in Seq(HostMsgs), m.kind \in {"grant", "releasing"}, Grant(consumed, m.n, more),
               more = <<>> \/ (more = <<Release>> /\ m.kind = "releasing"),
               UNCHANGED <<pending, inFlight, inputDone>>
        PROVE  \E sent, more2 \in Seq(HostMsgs) : PostIsGranted(m, sent, more2)
    <3>1. m.n \in Nat
      BY <1>1, <2>3, HostMsgFacts
    <3>2. PICK sent \in Seq(HostMsgs) :
            GrantIs(consumed, m.n, sent) /\ toHost' = (toHost \o sent) \o more
      <4> HIDE DEF m
      <4>1. QED
        BY <1>0, <2>3, <3>1, GrantCases
    <3>3. PostIsGranted(m, sent, more)
      BY <1>2, <1>4, <2>3, <3>1, <3>2 DEF PostIsGranted
    <3>4. QED
      BY <3>3
  <2>4. <<>> \in Seq(HostMsgs) /\ <<Release>> \in Seq(HostMsgs)
    BY HostMsgFacts
  <2>5. CASE m.kind = "grant" /\ Grant(consumed, m.n, <<>>) /\ UNCHANGED <<pending, inFlight, inputDone>>
    <3> DEFINE more == <<>>
    <3>0. /\ more \in Seq(HostMsgs) /\ (more = <<>> \/ (more = <<Release>> /\ m.kind = "releasing"))
          /\ Grant(consumed, m.n, more) /\ m.kind \in {"grant", "releasing"}
      BY <2>4, <2>5
    <3> HIDE DEF more
    <3>1. \E sent, more2 \in Seq(HostMsgs) : PostIsGranted(m, sent, more2)
      BY <2>3, <2>5, <3>0
    <3>2. QED
      BY <1>1, <3>1
  <2>6. CASE /\ m.kind = "releasing" /\ UNCHANGED <<pending, inFlight, inputDone>>
             /\ Grant(consumed, m.n, IF finished = "no" THEN <<Release>> ELSE <<>>)
    <3> DEFINE more == IF finished = "no" THEN <<Release>> ELSE <<>>
    <3>0. more \in Seq(HostMsgs) /\ (more = <<>> \/ more = <<Release>>) /\ Grant(consumed, m.n, more)
      BY <2>4, <2>6
    <3> HIDE DEF more
    <3>1. \E sent, more2 \in Seq(HostMsgs) : PostIsGranted(m, sent, more2)
      BY <2>3, <2>6, <3>0
    <3>2. QED
      BY <1>1, <3>1
  <2>7. QED
    BY <2>0, <2>1, <2>2, <2>5, <2>6 DEF RunsPost
<1>5. QED
  BY <1>3, <1>4

-----------------------------------------------------------------------------
(* Types *)

\* What the writer has done has a request that waits for it.
DoneIsAsked ==
  job = "live" => \A i \in 1..Len(hostPosts) : hostPosts[i].kind = "written" => answers # <<>>

LEMMA AnswerIsTyped ==
  ASSUME Typed, DoneIsAsked, NEW m \in HostPosts, InputIsAnswered(m)
  PROVE  /\ answers \in Seq(0..MaxIn) /\ answers # <<>>
         /\ Head(answers) \in 0..MaxIn /\ m.ok \in BOOLEAN
         /\ Answer(Head(answers), m.ok) \in EditorMsgs
<1>1. hostPosts \in Seq(HostPosts) /\ hostPosts # <<>> /\ m = Head(hostPosts) /\ job = "live"
      /\ m.kind = "written" /\ answers \in Seq(0..MaxIn)
  BY DEF InputIsAnswered, HostRuns, Typed, JobTyped
<1>2. 1 \in 1..Len(hostPosts) /\ hostPosts[1] = m
  BY <1>1, TailShrinks
<1>3. answers # <<>>
  BY <1>1, <1>2 DEF DoneIsAsked
<1>4. Head(answers) \in 0..MaxIn
  BY <1>1, <1>3, TailShrinks
<1>5. m.ok \in BOOLEAN
  BY <1>1, HostPostFacts
<1>6. Answer(Head(answers), m.ok) \in EditorMsgs
  BY <1>4, <1>5, EditorMsgFacts
<1>7. QED
  BY <1>1, <1>3, <1>4, <1>5, <1>6

LEMMA LastOnesTyped ==
  ASSUME Typed, NEW first \in BOOLEAN
  PROVE  /\ LastOnes(first) \in Seq(EditorMsgs)
         /\ Len(LastOnes(first)) \in Nat
         /\ \A i \in 1..Len(LastOnes(first)) :
              \/ LastOnes(first)[i].kind = "answer" /\ LastOnes(first)[i].ok = FALSE
              \/ first /\ i = 1 /\ LastOnes(first)[i] = Result
<1> DEFINE a == IF first THEN <<Result>> ELSE <<>>
           b == Refused(answers)
<1>1. /\ a \in Seq(EditorMsgs) /\ Len(a) = (IF first THEN 1 ELSE 0)
      /\ (first => a[1] = Result)
  BY EditorMsgFacts, ShortQueues
<1>2. /\ b \in Seq(EditorMsgs)
      /\ \A i \in 1..Len(b) : b[i].kind = "answer" /\ b[i].ok = FALSE
  <2>1. answers \in Seq(0..MaxIn)
    BY DEF Typed, JobTyped
  <2>2. /\ b \in Seq(EditorMsgs) /\ Len(b) = Len(answers)
        /\ \A i \in 1..Len(answers) : b[i] = Answer(answers[i], FALSE) /\ answers[i] \in 0..MaxIn
    BY <2>1, RefusedTyped
  <2> HIDE DEF b
  <2>3. ASSUME NEW i \in 1..Len(b) PROVE b[i].kind = "answer" /\ b[i].ok = FALSE
    <3>1. i \in 1..Len(answers)
      BY <2>2
    <3>2. b[i] = Answer(answers[i], FALSE) /\ answers[i] \in 0..MaxIn
      BY <2>2, <3>1
    <3>3. Answer(answers[i], FALSE).kind = "answer" /\ Answer(answers[i], FALSE).ok = FALSE
      BY DEF Answer
    <3>4. QED
      BY <3>2, <3>3, Zenon
  <2>4. QED
    BY <2>2, <2>3
<1> HIDE DEF a, b
<1>3. /\ a \o b \in Seq(EditorMsgs) /\ Len(a \o b) = Len(a) + Len(b)
      /\ Len(a) \in Nat /\ Len(b) \in Nat
      /\ \A i \in 1..Len(a \o b) :
           \/ i \in 1..Len(a) /\ (a \o b)[i] = a[i]
           \/ i > Len(a) /\ i - Len(a) \in 1..Len(b) /\ (a \o b)[i] = b[i - Len(a)]
  BY <1>1, <1>2, MembersJoin
<1>4. LastOnes(first) = a \o b
  BY DEF LastOnes, a, b
<1> DEFINE c == a \o b
<1>5. ASSUME NEW i \in 1..Len(c)
      PROVE  \/ c[i].kind = "answer" /\ c[i].ok = FALSE
             \/ first /\ i = 1 /\ c[i] = Result
  <2>1. CASE i \in 1..Len(a) /\ c[i] = a[i]
    <3>1. first /\ i = 1
      BY <1>1, <2>1
    <3>2. QED
      BY <1>1, <2>1, <3>1
  <2>2. CASE i - Len(a) \in 1..Len(b) /\ c[i] = b[i - Len(a)]
    BY <1>2, <2>2
  <2>3. QED
    BY <1>3, <2>1, <2>2
<1>6. c = LastOnes(first) /\ Len(c) \in Nat /\ c \in Seq(EditorMsgs)
  BY <1>3, <1>4
<1> HIDE DEF c
<1>7. QED
  BY <1>5, <1>6, Zenon

LEMMA LastOnesCarryNothing ==
  ASSUME Typed, NEW first \in BOOLEAN
  PROVE  /\ LastOnes(first) \in Seq(EditorMsgs)
         /\ \A i \in 1..Len(LastOnes(first)) : LastOnes(first)[i].kind \in {"answer", "result"}
<1>1. Result.kind = "result"
  BY EditorMsgFacts
<1>2. /\ LastOnes(first) \in Seq(EditorMsgs)
      /\ \A i \in 1..Len(LastOnes(first)) :
           LastOnes(first)[i].kind = "answer" \/ LastOnes(first)[i] = Result
  BY LastOnesTyped
<1>3. QED
  BY <1>1, <1>2

LEMMA TypedHostRunsPost ==
  ASSUME Typed, DoneIsAsked, HostRunsPost
  PROVE  Typed'
<1>1. ProcTyped /\ JobTyped /\ EditorTyped
  BY DEF Typed
<1>2. PICK m \in HostPosts :
        \/ PostIsLate(m) \/ OutputIsDropped(m) \/ OutputIsSent(m) \/ OutputWaits(m)
        \/ InputIsAnswered(m) \/ OneIsDone(m) \/ JobIsDone(m)
  BY HostRunsPostCases
<1>3. HostRuns(m)
  BY <1>2 DEF PostIsLate, OutputIsDropped, OutputIsSent, OutputWaits, InputIsAnswered, OneIsDone,
              JobIsDone, OneEnd
<1>4. /\ hostPosts' \in Seq(HostPosts)
      /\ m.kind = "output" => m.fd \in Fds /\ m.n \in 1..MaxOut + 1
  <2>1. hostPosts \in Seq(HostPosts) /\ hostPosts # <<>> /\ hostPosts' = Tail(hostPosts)
    BY <1>1, <1>3 DEF JobTyped, HostRuns
  <2>2. QED
    BY <2>1, TailShrinks, HostPostFacts
<1> USE DEF HostRuns
<1>5. CASE PostIsLate(m)
  <2>1. JobTyped'
    BY <1>1, <1>4, <1>5 DEF PostIsLate, JobTyped, flowVars
  <2>2. QED
    BY <1>1, <1>5, <2>1, TypedParts DEF Typed, PostIsLate
<1>6. CASE OutputIsDropped(m)
  <2>1. JobTyped'
    BY <1>1, <1>4, <1>6 DEF OutputIsDropped, JobTyped, flowVars
  <2>2. QED
    BY <1>1, <1>6, <2>1, TypedParts DEF Typed, OutputIsDropped
<1>7. CASE OutputIsSent(m)
  <2>1. JobTyped'
    BY <1>1, <1>4, <1>7 DEF OutputIsSent, JobTyped
  <2>2. Chunk(m.fd, m.n) \in EditorMsgs
    BY <1>4, <1>7, EditorMsgFacts DEF OutputIsSent
  <2>3. toEditor' \in Seq(EditorMsgs)
    BY <1>7, <2>2, SentOneIsTyped DEF OutputIsSent
  <2>4. QED
    BY <1>1, <1>7, <2>1, <2>3, TypedParts, TypedSent DEF Typed, OutputIsSent
<1>8. CASE OutputWaits(m)
  <2>1. Chunk(m.fd, m.n) \in ChunkMsgs
    BY <1>4, <1>8, EditorMsgFacts DEF OutputWaits
  <2>2. backlog' \in Seq(ChunkMsgs)
    BY <1>1, <1>8, <2>1, AppendGrows DEF OutputWaits, JobTyped
  <2>3. JobTyped'
    BY <1>1, <1>4, <1>8, <2>2 DEF OutputWaits, JobTyped
  <2>4. QED
    BY <1>1, <1>8, <2>3, TypedParts DEF Typed, OutputWaits
<1>9. CASE InputIsAnswered(m)
  <2>1. answers \in Seq(0..MaxIn) /\ answers # <<>> /\ Answer(Head(answers), m.ok) \in EditorMsgs
    BY <1>9, AnswerIsTyped
  <2>2. answers' \in Seq(0..MaxIn)
    BY <1>9, <2>1, TailShrinks DEF InputIsAnswered
  <2>3. JobTyped'
    BY <1>1, <1>4, <1>9, <2>2 DEF InputIsAnswered, JobTyped, flowVars
  <2>6. toEditor' \in Seq(EditorMsgs)
    BY <1>9, <2>1, SentOneIsTyped DEF InputIsAnswered
  <2>7. QED
    BY <1>1, <1>9, <2>3, <2>6, TypedParts, TypedSent DEF Typed, InputIsAnswered
<1>10. CASE OneIsDone(m)
  <2>1. exited' \in BOOLEAN /\ stderrDone' \in BOOLEAN
    BY <1>1, <1>10 DEF OneIsDone, OneEnd, JobTyped
  <2>2. JobTyped'
    BY <1>1, <1>4, <1>10, <2>1 DEF OneIsDone, OneEnd, JobTyped
  <2>3. QED
    BY <1>1, <1>10, <2>2, TypedParts DEF Typed, OneIsDone, OneEnd
<1>11. CASE JobIsDone(m)
  <2>1. exited' \in BOOLEAN /\ stderrDone' \in BOOLEAN /\ held' \in BOOLEAN
    BY <1>1, <1>11 DEF JobIsDone, OneEnd, JobTyped
  <2>2. JobTyped'
    BY <1>1, <1>4, <1>11, <2>1 DEF JobIsDone, OneEnd, JobTyped
  <2>3. LastOnes(~held') \in Seq(EditorMsgs) /\ SendToEditor(LastOnes(~held'))
    BY <1>11, <2>1, LastOnesTyped DEF JobIsDone
  <2>6. toEditor' \in Seq(EditorMsgs)
    BY <2>3, SentIsTyped
  <2>7. QED
    BY <1>1, <1>11, <2>2, <2>6, TypedParts, TypedSent DEF Typed, JobIsDone, OneEnd
<1>12. QED
  BY <1>2, <1>5, <1>6, <1>7, <1>8, <1>9, <1>10, <1>11

LEMMA TypedHostReceives ==
  ASSUME Typed, HostReceives
  PROVE  Typed'
<1>1. ProcTyped /\ JobTyped /\ EditorTyped /\ OwnerTyped
  BY DEF Typed
<1>2. PICK m \in HostMsgs :
        \/ Spawns(m) \/ SpawnFails(m)
        \/ \E n \in 0..MaxIn : InputIsQueued(m, n) \/ InputIsRefused(m, n)
        \/ JobIsReleased(m) \/ HeardLate(m)
        \/ \E k \in 0..Len(backlog) : LiveCredit(m, k) \/ LateCredit(m, k)
  BY HostReceivesCases
<1>3. Hears(m)
  BY <1>2 DEF Spawns, SpawnFails, InputIsQueued, InputIsRefused, JobIsReleased, HeardLate,
              LiveCredit, LateCredit, CreditArrives
<1>4. toHost' \in Seq(HostMsgs)
  BY <1>1, <1>3, TailShrinks DEF EditorTyped, Hears
<1>5. OwnerTyped'
  BY <1>1, <1>3, TypedParts DEF Hears
<1>6. ASSUME toEditor' \in Seq(EditorMsgs) PROVE EditorTyped'
  BY <1>1, <1>3, <1>4, <1>6, TypedSent DEF Hears
<1>7. ASSUME UNCHANGED <<input, stdin, proc, wrote>> PROVE ProcTyped'
  BY <1>1, <1>7, TypedParts DEF procVars
<1>8. ASSUME UNCHANGED toEditor PROVE EditorTyped'
  BY <1>1, <1>6, <1>8 DEF EditorTyped
<1> USE DEF Hears
<1>9. CASE Spawns(m) \/ HeardLate(m)
  <2>1. ProcTyped'
    BY <1>1, <1>7, <1>9 DEF Spawns, HeardLate, ProcTyped
  <2>2. JobTyped'
    BY <1>1, <1>3, <1>9 DEF Spawns, HeardLate, JobTyped, flowVars
  <2>3. QED
    BY <1>5, <1>8, <1>9, <2>1, <2>2 DEF Spawns, HeardLate, Typed
<1>10. CASE SpawnFails(m)
  <2>1. wrote' \in [Fds -> 0..MaxOut + 1]
    BY <1>10, FdFacts DEF SpawnFails
  <2>2. ProcTyped'
    BY <1>1, <1>3, <1>10, <2>1 DEF SpawnFails, ProcTyped
  <2>3. JobTyped'
    BY <1>1, <1>3, <1>10 DEF SpawnFails, JobTyped, flowVars
  <2>4. toEditor' \in Seq(EditorMsgs)
    BY <1>10, EditorMsgFacts, SentOneIsTyped DEF SpawnFails
  <2>5. QED
    BY <1>5, <1>6, <2>2, <2>3, <2>4 DEF Typed
<1>11. ASSUME NEW n \in 0..MaxIn, InputIsQueued(m, n) PROVE Typed'
  <2>1. answers' \in Seq(0..MaxIn)
    BY <1>1, <1>11, AppendGrows DEF InputIsQueued, JobTyped
  <2>2. m \in Items
    <3>1. m.kind \in {"write", "close"}
      BY <1>11 DEF InputIsQueued, Asking
    <3>2. (m.n \in 1..MaxIn /\ m = Write(m.n)) \/ m = CloseStdin
      BY <3>1, HostMsgFacts
    <3>3. QED
      BY <3>2, HostMsgFacts
  <2>3. items' \in Seq(Items)
    BY <1>1, <1>11, <2>2, AppendGrows DEF InputIsQueued, JobTyped
  <2>4. JobTyped'
    BY <1>1, <1>3, <1>11, <2>1, <2>3 DEF InputIsQueued, JobTyped, flowVars
  <2>5. QED
    BY <1>5, <1>7, <1>8, <1>11, <2>4 DEF InputIsQueued, Typed
<1>12. ASSUME NEW n \in 0..MaxIn, InputIsRefused(m, n) PROVE Typed'
  <2>1. Answer(n, FALSE) \in EditorMsgs
    BY EditorMsgFacts
  <2>2. toEditor' \in Seq(EditorMsgs)
    BY <1>12, <2>1, SentOneIsTyped DEF InputIsRefused
  <2>3. JobTyped'
    BY <1>1, <1>3, <1>12 DEF InputIsRefused, JobTyped, flowVars
  <2>4. QED
    BY <1>5, <1>6, <1>7, <1>12, <2>2, <2>3 DEF InputIsRefused, Typed
<1>13. CASE JobIsReleased(m)
  <2>1. items' \in Seq(Items)
    BY <1>1, <1>13, HostMsgFacts, AppendGrows DEF JobIsReleased, JobTyped
  <2>2. JobTyped'
    BY <1>1, <1>3, <1>13, <2>1 DEF JobIsReleased, JobTyped, flowVars
  <2>3. QED
    BY <1>5, <1>7, <1>8, <1>13, <2>2 DEF JobIsReleased, Typed
<1>14. ASSUME NEW k \in 0..Len(backlog), LiveCredit(m, k) \/ LateCredit(m, k) PROVE Typed'
  <2>1. CreditArrives(m, k)
    BY <1>14 DEF LiveCredit, LateCredit
  <2>2. /\ backlog \in Seq(ChunkMsgs) /\ SubSeq(backlog, 1, k) \in Seq(ChunkMsgs)
        /\ backlog' \in Seq(ChunkMsgs)
    BY <1>1, <2>1, PartOfQueue DEF CreditArrives, JobTyped
  <2>3. SubSeq(backlog, 1, k) \in Seq(EditorMsgs)
    <3>1. Seq(ChunkMsgs) \subseteq Seq(EditorMsgs)
      <4>1. ChunkMsgs \subseteq EditorMsgs
        BY EditorMsgFacts
      <4>2. QED
        BY <4>1, WiderQueues
    <3>2. QED
      BY <2>2, <3>1
  <2>4. credit' \in Nat
    BY <1>1, <2>1 DEF CreditArrives, JobTyped
  <2>5. mayRead' \subseteq Fds /\ waiting' \subseteq Fds
    BY <1>1, <1>14 DEF LiveCredit, LateCredit, JobTyped
  <2>6. held' \in BOOLEAN
    BY <1>1, <1>14 DEF LiveCredit, LateCredit, JobTyped
  <2>7. JobTyped'
    BY <1>1, <1>3, <2>1, <2>2, <2>4, <2>5, <2>6 DEF CreditArrives, JobTyped
  <2>8. toEditor' \in Seq(EditorMsgs)
    <3>1. CASE LiveCredit(m, k)
      BY <2>3, <3>1, SentIsTyped DEF LiveCredit
    <3>2. CASE LateCredit(m, k)
      <4>1. <<>> \in Seq(EditorMsgs) /\ <<Result>> \in Seq(EditorMsgs)
        BY EditorMsgFacts, ShortQueues
      <4> DEFINE s == SubSeq(backlog, 1, k) \o IF backlog' = <<>> THEN <<Result>> ELSE <<>>
      <4>2. s \in Seq(EditorMsgs)
        BY <2>3, <4>1, ConcatProperties
      <4>3. SendToEditor(s)
        BY <3>2 DEF LateCredit
      <4> HIDE DEF s
      <4>4. QED
        BY <4>2, <4>3, SentIsTyped
    <3>3. QED
      BY <1>14, <3>1, <3>2
  <2>9. QED
    BY <1>5, <1>6, <1>7, <2>1, <2>7, <2>8 DEF CreditArrives, Typed
<1>15. QED
  BY <1>2, <1>9, <1>10, <1>11, <1>12, <1>13, <1>14

LEMMA TypedAgentSeesEnd ==
  ASSUME Typed, AgentSeesEnd
  PROVE  Typed'
<1>1. ProcTyped'
  BY DEF Typed, ProcTyped, AgentSeesEnd
<1>2. \A S : <<>> \in Seq(S)
  OBVIOUS
<1>3. items' \in Seq(Items) /\ answers' \in Seq(0..MaxIn)
  BY <1>2 DEF Typed, JobTyped, AgentSeesEnd
<1>4. hostPosts' \in Seq(HostPosts) /\ backlog' \in Seq(ChunkMsgs) /\ toHost' \in Seq(HostMsgs)
  BY <1>2, Zenon DEF AgentSeesEnd
<1>5. JobTyped'
  BY <1>3, <1>4 DEF Typed, JobTyped, AgentSeesEnd
<1>6. EditorTyped'
  BY <1>4, TypedSent DEF Typed, EditorTyped, AgentSeesEnd, editorSide
<1>7. QED
  BY <1>1, <1>5, <1>6, TypedParts DEF Typed, AgentSeesEnd, editorSide

LEMMA GrantTyped ==
  ASSUME Typed, NEW taken \in Nat, NEW n \in Nat, NEW sent, GrantIs(taken, n, sent)
  PROVE  consumed' \in Nat /\ granted' \in Nat
BY DEF GrantIs, Typed, EditorTyped

LEMMA TypedEditorReceives ==
  ASSUME Typed, EditorReceives
  PROVE  Typed'
<1>1. EditorTyped /\ ProcTyped /\ JobTyped /\ OwnerTyped
  BY DEF Typed
<1>2. PICK m \in EditorMsgs :
        \/ ChunkIsKept(m) \/ \E sent \in Seq(HostMsgs) : ChunkIsDiscarded(m, sent)
        \/ SpawnIsAnswered(m) \/ AnswerArrives(m)
  BY EditorReceivesCases
<1>3. Gets(m)
  BY <1>2 DEF ChunkIsKept, ChunkIsDiscarded, SpawnIsAnswered, AnswerArrives
<1>4. toEditor' \in Seq(EditorMsgs)
  BY <1>1, <1>3, TailShrinks DEF Gets, EditorTyped
<1>5. ProcTyped' /\ JobTyped' /\ OwnerTyped'
  BY <1>1, <1>3, TypedParts DEF Gets
<1>6. out \in [Fds -> Seq(1..MaxOut + 1)] /\ toHost \in Seq(HostMsgs)
  BY <1>1 DEF EditorTyped
<1>7. CASE ChunkIsKept(m)
  <2>1. m.fd \in Fds /\ m.n \in 1..MaxOut + 1
    BY <1>7, EditorMsgFacts DEF ChunkIsKept
  <2>2. Append(out[m.fd], m.n) \in Seq(1..MaxOut + 1)
    BY <1>6, <2>1, AppendGrows
  <2>3. out' \in [Fds -> Seq(1..MaxOut + 1)]
    BY <1>6, <1>7, <2>1, <2>2 DEF ChunkIsKept
  <2>4. consumed' \in Nat
    BY <1>1, <1>7 DEF ChunkIsKept, EditorTyped
  <2>5. EditorTyped'
    BY <1>1, <1>3, <1>4, <1>7, <2>3, <2>4 DEF ChunkIsKept, Gets, EditorTyped
  <2>6. QED
    BY <1>5, <2>5 DEF Typed
<1>8. ASSUME NEW sent \in Seq(HostMsgs), ChunkIsDiscarded(m, sent) PROVE Typed'
  <2>1. toHost' \in Seq(HostMsgs)
    BY <1>6, <1>8, ConcatProperties DEF ChunkIsDiscarded
  <2>2. consumed' \in Nat /\ granted' \in Nat
    <3>1. consumed + 1 \in Nat /\ GrantIs(consumed + 1, 1, sent)
      BY <1>1, <1>8 DEF ChunkIsDiscarded, EditorTyped
    <3>2. QED
      BY <3>1, GrantTyped
  <2>3. EditorTyped'
    BY <1>1, <1>3, <1>4, <1>8, <2>1, <2>2 DEF ChunkIsDiscarded, Gets, EditorTyped
  <2>4. QED
    BY <1>5, <2>3 DEF Typed
<1>9. CASE SpawnIsAnswered(m)
  <2>1. out' \in [Fds -> Seq(1..MaxOut + 1)]
    <3>1. CASE m = Result
      BY <1>6, <1>9, <3>1 DEF SpawnIsAnswered
    <3>2. CASE m # Result
      <4>1. 2 \in Fds => Append(out[2], 1) \in Seq(1..MaxOut + 1)
        <5>1. 1 \in 1..MaxOut + 1
          BY FdFacts
        <5>2. QED
          BY <1>6, <5>1, AppendGrows
      <4>2. \A fd \in Fds : (IF fd = 2 THEN Append(out[2], 1) ELSE out[fd]) \in Seq(1..MaxOut + 1)
        BY <1>6, <4>1
      <4>3. QED
        BY <1>9, <3>2, <4>2 DEF SpawnIsAnswered
    <3>3. QED
      BY <3>1, <3>2
  <2>2. consumed' \in Nat /\ granted' \in Nat /\ finished' \in {"no", "exit", "lost"}
        /\ UNCHANGED <<toHost, link, pending, inFlight, inputDone, discarding, relay, posts>>
    BY <1>3, <1>9 DEF SpawnIsAnswered, Gets
  <2>3. EditorTyped'
    BY <1>1, <1>4, <2>1, <2>2 DEF EditorTyped
  <2>4. QED
    BY <1>5, <2>3 DEF Typed
<1>10. CASE AnswerArrives(m)
  <2>1. pending' \in 0..MaxIn
    BY <1>1, <1>10, FdFacts DEF AnswerArrives, EditorTyped
  <2>0. inFlight' \in BOOLEAN /\ inputDone' \in BOOLEAN
    <3>1. inFlight \in BOOLEAN /\ inputDone \in BOOLEAN
      BY <1>1 DEF EditorTyped
    <3>2. CASE inFlight' = FALSE /\ inputDone' = (inputDone \/ ~m.ok)
      BY <3>2, Zenon
    <3>3. CASE UNCHANGED <<inFlight, inputDone>>
      BY <3>1, <3>3
    <3>4. QED
      BY <1>10, <3>2, <3>3 DEF AnswerArrives
  <2>2. EditorTyped'
    BY <1>1, <1>3, <1>4, <1>10, <2>0, <2>1 DEF AnswerArrives, Gets, EditorTyped
  <2>3. QED
    BY <1>5, <2>2 DEF Typed
<1>11. QED
  BY <1>2, <1>7, <1>8, <1>9, <1>10

LEMMA TypedEditorRunsPost ==
  ASSUME Typed, EditorRunsPost
  PROVE  Typed'
<1>1. EditorTyped /\ ProcTyped /\ JobTyped /\ OwnerTyped
  BY DEF Typed
<1>2. PICK m \in RelayPosts :
        \/ PostIsLost(m) \/ PostIsAsked(m)
        \/ \E sent, more \in Seq(HostMsgs) : PostIsGranted(m, sent, more)
  BY EditorRunsPostCases
<1>3. Posted(m)
  BY <1>2 DEF PostIsLost, PostIsAsked, PostIsGranted
<1>4. posts' \in Seq(RelayPosts)
  BY <1>1, <1>3, TailShrinks DEF Posted, EditorTyped
<1>5. ProcTyped' /\ JobTyped' /\ OwnerTyped'
  BY <1>1, <1>3, TypedParts DEF Posted
<1>6. toHost \in Seq(HostMsgs)
  BY <1>1 DEF EditorTyped
<1>7. CASE PostIsLost(m)
  <2>1. pending' \in 0..MaxIn
    BY <1>1, <1>7, FdFacts DEF PostIsLost, EditorTyped
  <2>0. inFlight' \in BOOLEAN /\ inputDone' \in BOOLEAN
    BY <1>1, <1>7 DEF PostIsLost, EditorTyped
  <2>2. EditorTyped'
    BY <1>1, <1>3, <1>4, <1>7, <2>0, <2>1 DEF PostIsLost, Posted, EditorTyped
  <2>3. QED
    BY <1>5, <2>2 DEF Typed
<1>8. CASE PostIsAsked(m)
  <2>1. toHost' \in Seq(HostMsgs)
    BY <1>6, <1>8, AppendGrows DEF PostIsAsked
  <2>2. EditorTyped'
    BY <1>1, <1>3, <1>4, <1>8, <2>1 DEF PostIsAsked, Posted, EditorTyped
  <2>3. QED
    BY <1>5, <2>2 DEF Typed
<1>9. ASSUME NEW sent \in Seq(HostMsgs), NEW more \in Seq(HostMsgs), PostIsGranted(m, sent, more)
      PROVE  Typed'
  <2>1. toHost' \in Seq(HostMsgs)
    <3>1. toHost \o sent \in Seq(HostMsgs)
      BY <1>6, ConcatProperties
    <3>2. QED
      BY <1>9, <3>1, ConcatProperties DEF PostIsGranted
  <2>2. consumed' \in Nat /\ granted' \in Nat
    <3>1. consumed \in Nat /\ m.n \in Nat /\ GrantIs(consumed, m.n, sent)
      BY <1>1, <1>9 DEF PostIsGranted, EditorTyped
    <3>2. QED
      BY <3>1, GrantTyped
  <2>3. EditorTyped'
    BY <1>1, <1>3, <1>4, <1>9, <2>1, <2>2 DEF PostIsGranted, Posted, EditorTyped
  <2>4. QED
    BY <1>5, <2>3 DEF Typed
<1>10. QED
  BY <1>2, <1>7, <1>8, <1>9

LEMMA TypedLinkAndExpire ==
  ASSUME Typed, LinkEnds \/ Expire
  PROVE  Typed'
<1>1. EditorTyped /\ ProcTyped /\ JobTyped /\ OwnerTyped
  BY DEF Typed
<1>2. ProcTyped' /\ JobTyped' /\ OwnerTyped'
  BY <1>1, TypedParts DEF LinkEnds, Expire, hostSide
<1>3. toEditor' \in Seq(EditorMsgs)
  BY <1>1, ShortQueues DEF LinkEnds, Expire, EditorTyped
<1>4. /\ pending' \in 0..MaxIn
      /\ finished' \in {"no", "exit", "lost"} /\ consumed' \in Nat /\ granted' \in Nat
  BY <1>1, FdFacts DEF LinkEnds, Expire, WriteAnswered, Finish, EditorTyped
<1>0. inFlight' \in BOOLEAN /\ inputDone' \in BOOLEAN /\ link' \in BOOLEAN
  <2>1. link' = link \/ link' = FALSE
    BY DEF LinkEnds, Expire
  <2>2. (inFlight' = FALSE /\ inputDone' = TRUE) \/ UNCHANGED <<inFlight, inputDone>>
    BY DEF LinkEnds, Expire, WriteAnswered
  <2>3. QED
    BY <1>1, <2>1, <2>2 DEF EditorTyped
<1>5. EditorTyped'
  BY <1>0, <1>1, <1>3, <1>4 DEF LinkEnds, Expire, EditorTyped
<1>6. QED
  BY <1>2, <1>5 DEF Typed

LEMMA HeldNat ==
  ASSUME EditorTyped
  PROVE  Held \in Nat /\ (2 \notin Fds => Held = Len(out[1]))
         /\ (2 \in Fds => Held = Len(out[1]) + Len(out[2]))
         /\ \A fd \in Fds : Len(out[fd]) \in Nat
<1>1. \A fd \in Fds : out[fd] \in Seq(1..MaxOut + 1)
  BY DEF EditorTyped
<1>2. \A fd \in Fds : Len(out[fd]) \in Nat
  BY <1>1, LenProperties
<1>3. Len(out[1]) \in Nat /\ (2 \in Fds => Len(out[2]) \in Nat)
  BY <1>2, FdFacts
<1> DEFINE a == Len(out[1])
           b == Len(out[2])
<1>4. a \in Nat /\ (2 \in Fds => b \in Nat) /\ Held = a + (IF 2 \in Fds THEN b ELSE 0)
  BY <1>3 DEF Held
<1> HIDE DEF a, b
<1>5. Held \in Nat /\ (2 \notin Fds => Held = a) /\ (2 \in Fds => Held = a + b)
  BY <1>4
<1>6. QED
  BY <1>2, <1>5 DEF a, b

LEMMA TypedDeliver ==
  ASSUME Typed, NEW fd \in Fds, Deliver(fd)
  PROVE  Typed'
<1>1. EditorTyped /\ ProcTyped /\ JobTyped /\ OwnerTyped
  BY DEF Typed
<1>2. out \in [Fds -> Seq(1..MaxOut + 1)] /\ got \in [Fds -> Seq(1..MaxOut + 1)]
      /\ posts \in Seq(RelayPosts)
  BY <1>1 DEF EditorTyped, OwnerTyped
<1>3. ProcTyped' /\ JobTyped'
  BY <1>1, TypedParts DEF Deliver, hostSide
<1>4. posts' \in Seq(RelayPosts)
  <2>1. Granting(1) \in RelayPosts /\ Granting(Held) \in RelayPosts
    BY <1>1, HeldNat, HostMsgFacts
  <2>2. Append(posts, Granting(1)) \in Seq(RelayPosts) /\ Append(posts, Granting(Held)) \in Seq(RelayPosts)
    BY <1>2, <2>1, AppendGrows
  <2>3. QED
    BY <2>2 DEF Deliver
<1>5. out' \in [Fds -> Seq(1..MaxOut + 1)] /\ got' \in [Fds -> Seq(1..MaxOut + 1)]
  <2>1. out[fd] \in Seq(1..MaxOut + 1) /\ out[fd] # <<>>
    BY <1>2 DEF Deliver
  <2>2. Tail(out[fd]) \in Seq(1..MaxOut + 1) /\ Head(out[fd]) \in 1..MaxOut + 1
    BY <2>1, TailShrinks
  <2>3. Append(got[fd], Head(out[fd])) \in Seq(1..MaxOut + 1)
    BY <1>2, <2>2, AppendGrows
  <2>4. <<>> \in Seq(1..MaxOut + 1)
    BY ShortQueues
  <2>5. QED
    BY <1>2, <2>2, <2>3, <2>4 DEF Deliver
<1>6. EditorTyped'
  BY <1>1, <1>4, <1>5 DEF Deliver, EditorTyped, mainVars
<1>7. OwnerTyped'
  BY <1>1, <1>5 DEF Deliver, OwnerTyped
<1>8. QED
  BY <1>3, <1>6, <1>7 DEF Typed

LEMMA TypedRelayAndOwner ==
  ASSUME Typed,
         \/ RelayReads \/ RelayReadsEnd \/ RelayEnds
         \/ OwnerWrites \/ CloseInput \/ HangUp \/ OwnerReleases
  PROVE  Typed'
<1>1. EditorTyped /\ ProcTyped /\ JobTyped /\ OwnerTyped
  BY DEF Typed
<1>2. ProcTyped' /\ JobTyped'
  BY <1>1, TypedParts DEF RelayReads, RelayReadsEnd, RelayEnds, OwnerWrites, CloseInput, HangUp, OwnerReleases, hostSide
<1>3. OwnerTyped'
  <2>1. typed \in 0..MaxIn /\ fetched \in 0..typed
    BY <1>1 DEF OwnerTyped
  <2>2. typed' \in 0..MaxIn /\ fetched' \in 0..typed'
    <3>1. CASE RelayReads
      <4>1. fetched < typed /\ fetched' = fetched + 1 /\ typed' = typed
        BY <3>1 DEF RelayReads
      <4>2. QED
        BY <2>1, <4>1, FdFacts
    <3>2. CASE OwnerWrites
      <4>1. typed < MaxIn /\ typed' = typed + 1 /\ fetched' = fetched
        BY <3>2 DEF OwnerWrites
      <4>2. QED
        BY <2>1, <4>1, FdFacts
    <3>3. CASE ~RelayReads /\ ~OwnerWrites
      <4>1. UNCHANGED <<typed, fetched>>
        BY <3>3 DEF RelayReadsEnd, RelayEnds, CloseInput, HangUp, OwnerReleases, ownerVars
      <4>2. QED
        BY <2>1, <4>1
    <3>4. QED
      BY <3>1, <3>2, <3>3
  <2>3. owner' \in {"up", "hung up", "released"} /\ got' = got
    BY <1>1 DEF OwnerTyped, RelayReads, RelayReadsEnd, RelayEnds, OwnerWrites, CloseInput, HangUp,
                OwnerReleases, ownerVars
  <2>4. typing' = typing \/ typing' = FALSE
    BY <1>1 DEF OwnerTyped, RelayReads, RelayReadsEnd, RelayEnds, OwnerWrites, CloseInput, HangUp,
                OwnerReleases, ownerVars
  <2>5. QED
    BY <1>1, <2>2, <2>3, <2>4 DEF OwnerTyped
<1>4. posts' \in Seq(RelayPosts)
  <2>1. posts \in Seq(RelayPosts)
    BY <1>1 DEF EditorTyped
  <2>2. CASE RelayReads
    <3>1. fetched + 1 \in 1..MaxIn
      <4>1. typed \in 0..MaxIn /\ fetched \in 0..typed /\ fetched < typed
        BY <1>1, <2>2 DEF RelayReads, OwnerTyped
      <4>2. QED
        BY <4>1, FdFacts
    <3>2. Write(fetched + 1) \in RelayPosts
      BY <3>1, HostMsgFacts
    <3>3. QED
      BY <2>1, <2>2, <3>2, AppendGrows DEF RelayReads
  <2>3. CASE RelayReadsEnd
    BY <2>1, <2>3, HostMsgFacts, AppendGrows DEF RelayReadsEnd
  <2>4. CASE OwnerReleases
    <3>1. Releasing(Held) \in RelayPosts
      BY <1>1, HeldNat, HostMsgFacts
    <3>2. QED
      BY <2>1, <2>4, <3>1, AppendGrows DEF OwnerReleases, Unread
  <2>5. CASE RelayEnds \/ OwnerWrites \/ CloseInput \/ HangUp
    BY <2>1, <2>5 DEF RelayEnds, OwnerWrites, CloseInput, HangUp
  <2>6. QED
    BY <2>2, <2>3, <2>4, <2>5
<1>5. out' \in [Fds -> Seq(1..MaxOut + 1)]
  <2>1. <<>> \in Seq(1..MaxOut + 1)
    BY ShortQueues
  <2>2. QED
    BY <1>1, <2>1 DEF EditorTyped, RelayReads, RelayReadsEnd, RelayEnds, OwnerWrites, CloseInput, HangUp, OwnerReleases,
                      relayVars
<1>6. /\ inFlight' \in BOOLEAN /\ inputDone' \in BOOLEAN
      /\ relay' \in {"up", "eof", "error", "dropped"}
      /\ UNCHANGED <<toEditor, toHost, link, mainVars, finished, discarding>>
  BY <1>1 DEF EditorTyped, RelayReads, RelayReadsEnd, RelayEnds, OwnerWrites, CloseInput, HangUp, OwnerReleases,
              relayVars
<1>7. EditorTyped'
  BY <1>1, <1>4, <1>5, <1>6 DEF EditorTyped, mainVars
<1>8. QED
  BY <1>2, <1>3, <1>7 DEF Typed

\* Every step keeps the types, given that what is done was asked for.
LEMMA TypedStep ==
  ASSUME Typed, DoneIsAsked, [Next]_vars
  PROVE  Typed'
<1>1. CASE UNCHANGED vars
  BY <1>1, TypedParts DEF Typed, vars, hostSide, editorSide
<1>2. CASE Process
  BY <1>2, TypedProcess
<1>3. CASE Writer
  BY <1>3, TypedWriter
<1>4. CASE HostRunsPost
  BY <1>4, TypedHostRunsPost
<1>5. CASE HostReceives
  BY <1>5, TypedHostReceives
<1>6. CASE AgentSeesEnd
  BY <1>6, TypedAgentSeesEnd
<1>7. CASE EditorReceives
  BY <1>7, TypedEditorReceives
<1>8. CASE EditorRunsPost
  BY <1>8, TypedEditorRunsPost
<1>9. CASE LinkEnds \/ Expire
  BY <1>9, TypedLinkAndExpire
<1>10. CASE \E fd \in Fds : Reader(fd) \/ Deliver(fd)
  BY <1>10, TypedReader, TypedDeliver
<1>11. CASE \/ RelayReads \/ RelayReadsEnd \/ RelayEnds
            \/ OwnerWrites \/ CloseInput \/ HangUp \/ OwnerReleases
  BY <1>11, TypedRelayAndOwner
<1>12. QED
  BY <1>1, <1>2, <1>3, <1>4, <1>5, <1>6, <1>7, <1>8, <1>9, <1>10, <1>11 DEF Next

-----------------------------------------------------------------------------
(* What the queues weigh *)

LEMMA QueuesOfMsgs ==
  ASSUME Typed
  PROVE  /\ toEditor \in Seq(Msgs) /\ toHost \in Seq(Msgs) /\ posts \in Seq(Msgs)
         /\ items \in Seq(Msgs) /\ hostPosts \in Seq(Msgs) /\ backlog \in Seq(Msgs)
<1>1. /\ Seq(EditorMsgs) \subseteq Seq(Msgs) /\ Seq(HostMsgs) \subseteq Seq(Msgs)
      /\ Seq(RelayPosts) \subseteq Seq(Msgs) /\ Seq(Items) \subseteq Seq(Msgs)
      /\ Seq(HostPosts) \subseteq Seq(Msgs) /\ Seq(ChunkMsgs) \subseteq Seq(Msgs)
  BY EditorMsgFacts, HostMsgFacts, HostPostFacts, WiderQueues
<1>2. QED
  BY <1>1 DEF Typed, JobTyped, EditorTyped

LEMMA WeightsAre ==
  /\ Ones \in [Msgs -> Nat] /\ Credits \in [Msgs -> Nat] /\ Grants \in [Msgs -> Nat]
  /\ \A m \in ChunkMsgs : Ones[m] = 1
  /\ \A m \in EditorMsgs : m.kind # "chunk" => Ones[m] = 0
  /\ \A m \in HostMsgs : /\ m.kind = "credit" => Credits[m] = m.n
                         /\ m.kind # "credit" => Credits[m] = 0
  /\ \A m \in RelayPosts : /\ m.kind \in {"grant", "releasing"} => Grants[m] = m.n
                           /\ m.kind \in {"write", "close"} => Grants[m] = 0
<1>1. Ones \in [Msgs -> Nat]
  BY DEF Ones
<1>2. \A m \in Msgs : m.kind = "credit" => m.n \in Nat
  <2> SUFFICES ASSUME NEW m \in Msgs, m.kind = "credit" PROVE m.n \in Nat
    OBVIOUS
  <2>1. CASE m \in EditorMsgs
    BY <2>1, EditorMsgFacts
  <2>2. CASE m \in HostMsgs
    BY <2>2, HostMsgFacts
  <2>3. CASE m \in Items \cup RelayPosts
    BY <2>3, HostMsgFacts
  <2>4. CASE m \in HostPosts
    BY <2>4, HostPostFacts
  <2>5. QED
    BY <2>1, <2>2, <2>3, <2>4 DEF Msgs
<1>3. \A m \in Msgs : m.kind \in {"grant", "releasing"} => m.n \in Nat
  <2> SUFFICES ASSUME NEW m \in Msgs, m.kind \in {"grant", "releasing"} PROVE m.n \in Nat
    OBVIOUS
  <2>1. CASE m \in EditorMsgs
    BY <2>1, EditorMsgFacts
  <2>2. CASE m \in HostMsgs
    BY <2>2, HostMsgFacts
  <2>3. CASE m \in Items \cup RelayPosts
    BY <2>3, HostMsgFacts
  <2>4. CASE m \in HostPosts
    BY <2>4, HostPostFacts
  <2>5. QED
    BY <2>1, <2>2, <2>3, <2>4 DEF Msgs
<1>4. Credits \in [Msgs -> Nat]
  BY <1>2 DEF Credits
<1>5. Grants \in [Msgs -> Nat]
  BY <1>3 DEF Grants
<1>6. /\ \A m \in ChunkMsgs : Ones[m] = 1
      /\ \A m \in EditorMsgs : m.kind # "chunk" => Ones[m] = 0
  BY EditorMsgFacts DEF Ones
<1>7. \A m \in HostMsgs : /\ m.kind = "credit" => Credits[m] = m.n
                          /\ m.kind # "credit" => Credits[m] = 0
  BY HostMsgFacts DEF Credits
<1>8. \A m \in RelayPosts : /\ m.kind \in {"grant", "releasing"} => Grants[m] = m.n
                            /\ m.kind \in {"write", "close"} => Grants[m] = 0
  BY HostMsgFacts DEF Grants
<1>9. QED
  BY <1>1, <1>4, <1>5, <1>6, <1>7, <1>8

\* What is sent arrives, or is lost with the connection.
LEMMA SentWeighs ==
  ASSUME Typed, NEW v \in [Msgs -> Nat], NEW s \in Seq(Msgs), SendToEditor(s)
  PROVE  /\ Total(Weights(toEditor', v)) \in Nat
         /\ Total(Weights(s, v)) \in Nat
         /\ Total(Weights(toEditor', v)) <= Total(Weights(toEditor, v)) + Total(Weights(s, v))
         /\ link => Total(Weights(toEditor', v)) = Total(Weights(toEditor, v)) + Total(Weights(s, v))
         /\ ~link => toEditor' = toEditor
<1>1. toEditor \in Seq(Msgs)
  BY QueuesOfMsgs
<1>2. /\ Total(Weights(toEditor, v)) \in Nat /\ Total(Weights(s, v)) \in Nat
  BY <1>1, WeightBounds
<1>3. Total(Weights(toEditor \o s, v)) = Total(Weights(toEditor, v)) + Total(Weights(s, v))
  BY <1>1, WeightsJoin
<1>4. link => toEditor' = toEditor \o s
  BY DEF SendToEditor
<1>5. ~link => toEditor' = toEditor
  BY DEF SendToEditor
<1>6. CASE link
  <2>1. Total(Weights(toEditor', v)) = Total(Weights(toEditor, v)) + Total(Weights(s, v))
    BY <1>3, <1>4, <1>6
  <2>2. QED
    BY <1>2, <1>6, <2>1
<1>7. CASE ~link
  <2>1. Total(Weights(toEditor', v)) = Total(Weights(toEditor, v)) /\ toEditor' = toEditor
    BY <1>5, <1>7
  <2>2. QED
    BY <1>2, <1>7, <2>1
<1>8. QED
  BY <1>6, <1>7

LEMMA WeightOfOne ==
  ASSUME NEW S, NEW v \in [S -> Nat], NEW w \in S
  PROVE  <<w>> \in Seq(S) /\ Total(Weights(<<w>>, v)) = v[w]
<1>1. <<>> \in Seq(S) /\ <<w>> \in Seq(S) /\ Append(<<>>, w) = <<w>>
  OBVIOUS
<1>2. Total(Weights(Append(<<>>, w), v)) = Total(Weights(<<>>, v)) + v[w]
  BY <1>1, WeightOfAppend
<1>3. v[w] \in Nat /\ Total(Weights(<<>>, v)) = 0
  BY WeightsEmpty
<1>4. QED
  BY <1>1, <1>2, <1>3

\* Members without a weight come to none, members of weight one to their number.
LEMMA WeightOfAlike ==
  ASSUME NEW S, NEW v \in [S -> Nat], NEW q \in Seq(S), NEW w \in {0, 1},
         \A i \in 1..Len(q) : v[q[i]] = w
  PROVE  Total(Weights(q, v)) <= Len(q) /\ (w = 0 => Total(Weights(q, v)) = 0)
<1>1. Len(q) \in Nat
  BY LenProperties
<1>2. \A i \in 1..Len(q) : v[q[i]] <= 1
  OBVIOUS
<1>3. Total(Weights(q, v)) <= Len(q)
  BY <1>2, WeightBounds
<1>4. CASE w = 0
  <2>1. Weights(q, v) \in Seq(Nat) /\ Len(Weights(q, v)) = Len(q)
        /\ \A i \in 1..Len(q) : Weights(q, v)[i] = v[q[i]]
    BY WeightsTyped
  <2> HIDE DEF Weights
  <2>2. \A i \in 1..Len(Weights(q, v)) : Weights(q, v)[i] = 0
    BY <1>4, <2>1
  <2>3. Len(Weights(q, v)) \in Nat
    BY <1>1, <2>1
  <2>4. Total(Weights(q, v)) = 0
    BY <2>2, <2>3, TotalZero
  <2>5. QED
    BY <1>3, <2>4
<1>5. QED
  BY <1>3, <1>4

-----------------------------------------------------------------------------
(* Credit *)

creditVars == <<credit, toHost, toEditor, consumed, granted, finished, out, posts, link>>

LEMMA CreditTyped ==
  ASSUME Typed
  PROVE  /\ ToCome \in Nat /\ Coming \in Nat /\ ToPost \in Nat /\ Held \in Nat
         /\ credit \in Nat /\ consumed \in Nat /\ granted \in Nat /\ Window \in Nat
<1>1. ToCome \in Nat /\ Coming \in Nat /\ ToPost \in Nat
  BY QueuesOfMsgs, WeightsAre, WeightBounds DEF ToCome, Coming, ToPost
<1>2. QED
  BY <1>1, HeldNat, FdFacts DEF Typed, JobTyped, EditorTyped

\* The piece held by the editor when one queue of them changes, or all are gone.
LEMMA HeldChanges ==
  ASSUME EditorTyped, NEW fd \in Fds, NEW q, out' = [out EXCEPT ![fd] = q], Len(q) \in Nat
  PROVE  Held' + Len(out[fd]) = Held + Len(q)
<1>1. \A f \in Fds : Len(out[f]) \in Nat
  BY HeldNat
<1>2. out \in [Fds -> Seq(1..MaxOut + 1)]
  BY DEF EditorTyped
<1>3. \A f \in Fds : out'[f] = IF f = fd THEN q ELSE out[f]
  BY <1>2
<1>4. CASE 2 \notin Fds
  <2>1. fd = 1 /\ Held = Len(out[1]) + 0 /\ Held' = Len(out'[1]) + 0 /\ out'[1] = q
    BY <1>3, <1>4, FdFacts DEF Held
  <2>2. QED
    BY <1>1, <2>1
<1>5. CASE 2 \in Fds
  <2>1. Held = Len(out[1]) + Len(out[2]) /\ Held' = Len(out'[1]) + Len(out'[2])
    BY <1>5 DEF Held
  <2>0. Len(out[1]) \in Nat /\ Len(out[2]) \in Nat
    BY <1>1, <1>5, FdFacts
  <2>2. CASE fd = 1
    <3>1. out'[1] = q /\ out'[2] = out[2]
      BY <1>3, <1>5, <2>2, FdFacts
    <3>2. Held' = Len(q) + Len(out[2])
      BY <2>1, <3>1
    <3>3. Held = Len(out[fd]) + Len(out[2])
      BY <2>1, <2>2
    <3>4. \A a, b, c \in Nat : (c + b) + a = (a + b) + c
      OBVIOUS
    <3>5. QED
      BY <2>0, <2>2, <3>2, <3>3, <3>4
  <2>3. CASE fd = 2
    <3>1. out'[2] = q /\ out'[1] = out[1]
      BY <1>3, <1>5, <2>3, FdFacts
    <3>2. Held' = Len(out[1]) + Len(q)
      BY <2>1, <3>1
    <3>3. Held = Len(out[1]) + Len(out[fd])
      BY <2>1, <2>3
    <3>4. \A a, b, c \in Nat : (a + c) + b = (a + b) + c
      OBVIOUS
    <3>5. QED
      BY <2>0, <2>3, <3>2, <3>3, <3>4
  <2>4. QED
    BY <2>2, <2>3, FdFacts
<1>6. QED
  BY <1>4, <1>5

LEMMA HeldNext ==
  ASSUME EditorTyped'
  PROVE  Held' \in Nat
<1>1. out'[1] \in Seq(1..MaxOut + 1) /\ (2 \in Fds => out'[2] \in Seq(1..MaxOut + 1))
  BY FdFacts DEF EditorTyped
<1>2. Len(out'[1]) \in Nat /\ (2 \in Fds => Len(out'[2]) \in Nat)
  BY <1>1, LenProperties
<1>3. CASE 2 \in Fds
  <2>1. Held' = Len(out'[1]) + Len(out'[2])
    BY <1>3 DEF Held
  <2> DEFINE a == Len(out'[1])
             b == Len(out'[2])
  <2>2. a \in Nat /\ b \in Nat /\ Held' = a + b
    BY <1>2, <1>3, <2>1
  <2> HIDE DEF a, b
  <2>3. QED
    BY <2>2
<1>4. CASE 2 \notin Fds
  <2>1. Held' = Len(out'[1]) + 0
    BY <1>4 DEF Held
  <2> DEFINE a == Len(out'[1])
  <2>2. a \in Nat /\ Held' = a + 0
    BY <1>2, <2>1
  <2> HIDE DEF a
  <2>3. QED
    BY <2>2
<1>5. QED
  BY <1>3, <1>4

LEMMA HeldNothing ==
  ASSUME out' = [f \in Fds |-> <<>>]
  PROVE  Held' = 0
<1>1. out'[1] = <<>> /\ (2 \in Fds => out'[2] = <<>>)
  BY FdFacts
<1>2. QED
  BY <1>1 DEF Held

\* A grant takes as much from what was taken as goes to the host.
LEMMA GrantWeighs ==
  ASSUME Typed, NEW taken \in Nat, NEW n \in Nat, NEW sent \in Seq(HostMsgs), GrantIs(taken, n, sent)
  PROVE  /\ sent \in Seq(Msgs) /\ Total(Weights(sent, Credits)) \in Nat
         /\ consumed' + Total(Weights(sent, Credits)) <= taken
         /\ finished = "no" => consumed' + granted + n = taken + granted'
         /\ finished # "no" => consumed' = 0 /\ granted' = 0
<1> DEFINE w == Total(Weights(sent, Credits))
<1>1. Seq(HostMsgs) \subseteq Seq(Msgs)
  BY HostMsgFacts, WiderQueues
<1>2. Credits \in [Msgs -> Nat]
  BY WeightsAre
<1>3. sent = <<>> => w = 0
  BY WeightsEmpty
<1>4. \A k \in Nat : sent = <<Credit(k)>> => w = k
  <2> SUFFICES ASSUME NEW k \in Nat, sent = <<Credit(k)>> PROVE w = k
    OBVIOUS
  <2>0. Credit(k) \in HostMsgs /\ Credit(k).kind = "credit" /\ Credit(k).n = k
    BY HostMsgFacts
  <2>1. Credit(k) \in Msgs /\ Credits[Credit(k)] = k
    BY <2>0, HostMsgFacts, WeightsAre
  <2>2. Total(Weights(<<Credit(k)>>, Credits)) = k
    BY <1>2, <2>1, WeightOfOne
  <2>3. QED
    BY <2>2
<1>5. consumed \in Nat /\ granted \in Nat
  BY DEF Typed, EditorTyped
<1>6. sent \in Seq(Msgs) /\ w \in Nat
  BY <1>1, <1>2, WeightBounds
<1> HIDE DEF w
<1>7. CASE finished # "no"
  <2>1. consumed' = 0 /\ granted' = 0 /\ sent = <<>>
    BY <1>7 DEF GrantIs
  <2>2. QED
    BY <1>3, <1>6, <1>7, <2>1 DEF w
<1>8. CASE finished = "no" /\ sent = <<>> /\ consumed' = taken /\ granted' = granted + n
  BY <1>3, <1>5, <1>6, <1>8 DEF w
<1>9. ASSUME NEW k \in Nat, finished = "no", k <= taken, k <= granted + n,
             consumed' = taken - k, granted' = granted + n - k, sent = <<Credit(k)>>
      PROVE  w = k /\ consumed' + w <= taken /\ consumed' + granted + n = taken + granted'
  BY <1>4, <1>5, <1>9
<1>10. QED
  BY <1>6, <1>7, <1>8, <1>9 DEF GrantIs, w

LEMMA CreditInit ==
  ASSUME Init
  PROVE  CreditInv
<1>1. ToCome = 0
  <2>1. Spawn \in Msgs /\ Credits[Spawn] = 0
    BY HostMsgFacts, WeightsAre
  <2>2. Total(Weights(<<Spawn>>, Credits)) = 0
    BY <2>1, WeightsAre, WeightOfOne
  <2>3. QED
    BY <2>2 DEF Init, ToCome
<1>2. Coming = 0 /\ ToPost = 0
  BY WeightsEmpty DEF Init, Coming, ToPost
<1>3. Held = 0
  <2>1. out[1] = <<>> /\ (2 \in Fds => out[2] = <<>>)
    BY FdFacts DEF Init
  <2>2. QED
    BY <2>1 DEF Held
<1>4. QED
  BY <1>1, <1>2, <1>3, FdFacts DEF CreditInv, Init

LEMMA CreditUnchanged ==
  ASSUME CreditInv, UNCHANGED creditVars
  PROVE  CreditInv'
BY DEF CreditInv, Held, ToCome, Coming, ToPost, creditVars

LEMMA NoneWithoutChunk ==
  ASSUME NEW s \in Seq(EditorMsgs), \A i \in 1..Len(s) : s[i].kind # "chunk"
  PROVE  s \in Seq(Msgs) /\ Total(Weights(s, Ones)) = 0
<1>1. s \in Seq(Msgs)
  BY EditorMsgFacts, WiderQueues
<1>2. \A i \in 1..Len(s) : s[i] \in EditorMsgs
  BY ElementOfSeq
<1>3. \A i \in 1..Len(s) : Ones[s[i]] = 0
  BY <1>2, WeightsAre
<1>4. Ones \in [Msgs -> Nat]
  BY WeightsAre
<1>5. QED
  BY <1>1, <1>3, <1>4, WeightOfAlike

LEMMA CreditHostRunsPost ==
  ASSUME Typed, DoneIsAsked, CreditInv, HostRunsPost
  PROVE  CreditInv'
<1>1. PICK m \in HostPosts :
        \/ PostIsLate(m) \/ OutputIsDropped(m) \/ OutputIsSent(m) \/ OutputWaits(m)
        \/ InputIsAnswered(m) \/ OneIsDone(m) \/ JobIsDone(m)
  BY HostRunsPostCases
<1>2. UNCHANGED <<toHost, link, consumed, granted, finished, out, posts>>
  BY <1>1 DEF HostRuns, PostIsLate, OutputIsDropped, OutputIsSent, OutputWaits, InputIsAnswered,
              OneIsDone, JobIsDone, OneEnd, mainVars, relayVars
<1>3. ToCome' = ToCome /\ ToPost' = ToPost /\ Held' = Held
  BY <1>2 DEF ToCome, ToPost, Held
<1>5. ASSUME Coming' \in Nat, credit' \in Nat, credit' + Coming' <= credit + Coming PROVE CreditInv'
  <2>1. credit' + ToCome + Coming' + consumed <= Window
    <3>1. \A a, b, c, d, e, f, w \in Nat : a + b + c + d <= w /\ e + f <= a + c => e + b + f + d <= w
      OBVIOUS
    <3>2. QED
      BY <1>5, <3>1, CreditTyped DEF CreditInv
  <2>2. QED
    BY <1>2, <1>3, <2>1 DEF CreditInv
<1>6. Coming \in Nat /\ credit \in Nat /\ Ones \in [Msgs -> Nat]
  BY CreditTyped, WeightsAre
<1>7. ASSUME NEW s \in Seq(Msgs), SendToEditor(s), credit' \in Nat,
             credit' + Total(Weights(s, Ones)) <= credit
      PROVE  CreditInv'
  <2>1. Coming' \in Nat /\ Coming' <= Coming + Total(Weights(s, Ones)) /\ Total(Weights(s, Ones)) \in Nat
    BY <1>6, <1>7, SentWeighs DEF Coming
  <2>2. credit' + Coming' <= credit + Coming
    <3>1. \A a, b, c, d, e \in Nat : c <= a + e /\ b + e <= d => b + c <= d + a
      OBVIOUS
    <3>2. QED
      BY <1>6, <1>7, <2>1, <3>1
  <2>3. QED
    BY <1>5, <1>7, <2>1, <2>2
<1>8. CASE PostIsLate(m) \/ OutputIsDropped(m) \/ OutputWaits(m) \/ OneIsDone(m)
  <2>1. UNCHANGED <<toEditor, credit>>
    BY <1>8 DEF PostIsLate, OutputIsDropped, OutputWaits, OneIsDone, OneEnd, flowVars
  <2>2. Coming' = Coming
    BY <2>1 DEF Coming
  <2>3. QED
    BY <1>5, <1>6, <2>1, <2>2
<1>9. CASE OutputIsSent(m)
  <2> DEFINE s == <<Chunk(m.fd, m.n)>>
  <2>1. m.fd \in Fds /\ m.n \in 1..MaxOut + 1
    BY <1>9, HostPostFacts DEF OutputIsSent
  <2>2. Chunk(m.fd, m.n) \in Msgs /\ Ones[Chunk(m.fd, m.n)] = 1
    BY <2>1, EditorMsgFacts, WeightsAre
  <2>3. s \in Seq(Msgs) /\ Total(Weights(s, Ones)) = 1
    BY <1>6, <2>2, WeightOfOne
  <2>4. credit' \in Nat /\ credit' + 1 <= credit /\ SendToEditor(s)
    BY <1>6, <1>9 DEF OutputIsSent
  <2> HIDE DEF s
  <2>5. QED
    BY <1>7, <2>3, <2>4
<1>10. ASSUME NEW s \in Seq(EditorMsgs), SendToEditor(s), credit' = credit,
              \A i \in 1..Len(s) : s[i].kind # "chunk"
       PROVE  CreditInv'
  <2>1. Total(Weights(s, Ones)) = 0 /\ s \in Seq(Msgs)
    BY <1>10, NoneWithoutChunk
  <2>2. QED
    BY <1>6, <1>7, <1>10, <2>1
<1>11. CASE InputIsAnswered(m)
  <2> DEFINE s == <<Answer(Head(answers), m.ok)>>
  <2>1. Answer(Head(answers), m.ok) \in EditorMsgs /\ Answer(Head(answers), m.ok).kind = "answer"
    <3>1. Answer(Head(answers), m.ok) \in EditorMsgs
      BY <1>11, AnswerIsTyped
    <3>2. QED
      BY <3>1 DEF Answer
  <2>2. s \in Seq(EditorMsgs) /\ \A i \in 1..Len(s) : s[i].kind # "chunk"
    BY <2>1
  <2>3. SendToEditor(s) /\ credit' = credit
    BY <1>11 DEF InputIsAnswered, flowVars
  <2> HIDE DEF s
  <2>4. QED
    BY <1>10, <2>2, <2>3
<1>12. CASE JobIsDone(m)
  <2> DEFINE s == LastOnes(~held')
  <2>1. s \in Seq(EditorMsgs) /\ \A i \in 1..Len(s) : s[i].kind # "chunk"
    <3>1. (~held') \in BOOLEAN
      OBVIOUS
    <3>2. s \in Seq(EditorMsgs) /\ \A i \in 1..Len(s) : s[i].kind \in {"answer", "result"}
      BY <3>1, LastOnesCarryNothing
    <3> HIDE DEF s
    <3>3. QED
      BY <3>2
  <2>2. SendToEditor(s) /\ credit' = credit
    BY <1>12 DEF JobIsDone, OneEnd
  <2> HIDE DEF s
  <2>3. QED
    BY <1>10, <2>1, <2>2
<1>13. QED
  BY <1>1, <1>8, <1>9, <1>11, <1>12

LEMMA CreditHostReceives ==
  ASSUME Typed, CreditInv, HostReceives
  PROVE  CreditInv'
<1>1. PICK m \in HostMsgs :
        \/ Spawns(m) \/ SpawnFails(m)
        \/ \E n \in 0..MaxIn : InputIsQueued(m, n) \/ InputIsRefused(m, n)
        \/ JobIsReleased(m) \/ HeardLate(m)
        \/ \E k \in 0..Len(backlog) : LiveCredit(m, k) \/ LateCredit(m, k)
  BY HostReceivesCases
<1>2. Hears(m)
  BY <1>1 DEF Spawns, SpawnFails, InputIsQueued, InputIsRefused, JobIsReleased, HeardLate,
              LiveCredit, LateCredit, CreditArrives
<1>3. UNCHANGED <<link, consumed, granted, finished, out, posts>>
  BY <1>2 DEF Hears, mainVars, relayVars
<1>4. ToPost' = ToPost /\ Held' = Held
  BY <1>3 DEF ToPost, Held
<1>5. ToCome' \in Nat /\ Credits[m] \in Nat /\ ToCome = Credits[m] + ToCome'
  <2>1. toHost \in Seq(Msgs) /\ toHost # <<>> /\ m = Head(toHost) /\ toHost' = Tail(toHost)
    BY <1>2, QueuesOfMsgs DEF Hears
  <2>2. Tail(toHost) \in Seq(Msgs) /\ m \in Msgs
    BY <2>1, TailShrinks
  <2>3. Total(Weights(toHost, Credits)) = Credits[m] + Total(Weights(Tail(toHost), Credits))
    BY <2>1, WeightsAre, WeightOfTail
  <2>4. Total(Weights(Tail(toHost), Credits)) \in Nat
    BY <2>2, WeightsAre, WeightBounds
  <2>5. Credits[m] \in Nat
    BY <2>2, WeightsAre
  <2>6. QED
    BY <2>1, <2>3, <2>4, <2>5 DEF ToCome
<1>6. Coming \in Nat /\ credit \in Nat /\ Ones \in [Msgs -> Nat]
  BY CreditTyped, WeightsAre
<1>7. ASSUME NEW s \in Seq(Msgs), SendToEditor(s), credit' \in Nat,
             credit' + Total(Weights(s, Ones)) <= credit + Credits[m]
      PROVE  CreditInv'
  <2>1. Coming' \in Nat /\ Coming' <= Coming + Total(Weights(s, Ones)) /\ Total(Weights(s, Ones)) \in Nat
    BY <1>6, <1>7, SentWeighs DEF Coming
  <2>2. credit' + ToCome' + Coming' + consumed <= Window
    <3>1. credit + ToCome + Coming + consumed <= Window
      BY DEF CreditInv
    <3>2. \A a, b, b2, c, d, w, x, y, z \in Nat :
            a + b + c + d <= w /\ b = x + b2 /\ y + z <= a + x => y + b2 + (c + z) + d <= w
      OBVIOUS
    <3>3. credit' + ToCome' + (Coming + Total(Weights(s, Ones))) + consumed <= Window
      <4>1. /\ credit \in Nat /\ ToCome \in Nat /\ ToCome' \in Nat /\ Coming \in Nat /\ consumed \in Nat
            /\ Window \in Nat /\ Credits[m] \in Nat /\ credit' \in Nat /\ Total(Weights(s, Ones)) \in Nat
        BY <1>5, <1>6, <1>7, <2>1, CreditTyped
      <4>2. ToCome = Credits[m] + ToCome' /\ credit' + Total(Weights(s, Ones)) <= credit + Credits[m]
        BY <1>5, <1>7
      <4>3. QED
        BY <3>1, <3>2, <4>1, <4>2
    <3>4. \A a, b, c, c2, d, w \in Nat : a + b + c2 + d <= w /\ c <= c2 => a + b + c + d <= w
      OBVIOUS
    <3>5. Coming + Total(Weights(s, Ones)) \in Nat
      BY <1>6, <2>1
    <3>6. QED
      BY <1>5, <1>7, <2>1, <3>3, <3>4, <3>5, CreditTyped
  <2>3. QED
    BY <1>3, <1>4, <2>2 DEF CreditInv
<1>8. ASSUME toEditor' = toEditor, credit' = credit PROVE CreditInv'
  <2>1. Coming' = Coming
    BY <1>8 DEF Coming
  <2>2. credit' + ToCome' + Coming' + consumed <= Window
    <3>1. \A a, b, b2, c, d, w, x \in Nat : a + b + c + d <= w /\ b = x + b2 => a + b2 + c + d <= w
      OBVIOUS
    <3>2. QED
      BY <1>5, <1>8, <2>1, <3>1, CreditTyped DEF CreditInv
  <2>3. QED
    BY <1>3, <1>4, <2>2 DEF CreditInv
<1>9. CASE Spawns(m) \/ JobIsReleased(m) \/ HeardLate(m)
  BY <1>8, <1>9 DEF Spawns, JobIsReleased, HeardLate, flowVars
<1>10. ASSUME NEW n \in 0..MaxIn, InputIsQueued(m, n) PROVE CreditInv'
  BY <1>8, <1>10 DEF InputIsQueued, flowVars
<1>11. ASSUME NEW x \in EditorMsgs, x.kind # "chunk", SendToEditor(<<x>>), credit' = credit
       PROVE  CreditInv'
  <2> DEFINE s == <<x>>
  <2>1. s \in Seq(EditorMsgs) /\ \A i \in 1..Len(s) : s[i].kind # "chunk"
    BY <1>11
  <2>2. SendToEditor(s)
    BY <1>11
  <2> HIDE DEF s
  <2>3. s \in Seq(Msgs) /\ Total(Weights(s, Ones)) = 0
    BY <2>1, NoneWithoutChunk
  <2>4. QED
    BY <1>5, <1>6, <1>7, <1>11, <2>2, <2>3
<1>12. CASE SpawnFails(m)
  BY <1>11, <1>12, EditorMsgFacts DEF SpawnFails, flowVars
<1>13. ASSUME NEW n \in 0..MaxIn, InputIsRefused(m, n) PROVE CreditInv'
  <2>1. Answer(n, FALSE) \in EditorMsgs
    BY EditorMsgFacts
  <2>2. Answer(n, FALSE).kind # "chunk"
    BY DEF Answer
  <2>3. QED
    BY <1>11, <1>13, <2>1, <2>2 DEF InputIsRefused, flowVars
<1>14. ASSUME NEW k \in 0..Len(backlog), LiveCredit(m, k) \/ LateCredit(m, k) PROVE CreditInv'
  <2>1. CreditArrives(m, k)
    BY <1>14 DEF LiveCredit, LateCredit
  <2>2. Credits[m] = m.n /\ m.n \in Nat /\ k \in Nat /\ k <= credit + m.n /\ credit' = credit + m.n - k
    <3>1. Len(backlog) \in Nat
      BY QueuesOfMsgs, LenProperties
    <3>2. QED
      BY <2>1, <3>1, WeightsAre DEF CreditArrives
  <2>3. credit' \in Nat /\ credit' + k <= credit + Credits[m]
    BY <1>6, <2>2
  <2> DEFINE q == SubSeq(backlog, 1, k)
             r == IF backlog' = <<>> THEN <<Result>> ELSE <<>>
  <2>4. q \in Seq(Msgs) /\ Total(Weights(q, Ones)) \in Nat /\ Total(Weights(q, Ones)) <= k
    <3>1. backlog \in Seq(ChunkMsgs)
      BY DEF Typed, JobTyped
    <3>2. q \in Seq(ChunkMsgs) /\ Len(q) = k
      BY <3>1, PartOfQueue
    <3> HIDE DEF q
    <3>3. q \in Seq(Msgs)
      BY <3>2, EditorMsgFacts, WiderQueues
    <3>4. \A i \in 1..Len(q) : q[i] \in ChunkMsgs
      BY <3>2, ElementOfSeq
    <3>5. \A i \in 1..Len(q) : Ones[q[i]] = 1
      BY <3>4, WeightsAre
    <3>6. Total(Weights(q, Ones)) <= Len(q)
      BY <1>6, <3>3, <3>5, WeightOfAlike
    <3>7. Total(Weights(q, Ones)) \in Nat
      BY <1>6, <3>3, WeightBounds
    <3>8. QED
      BY <3>2, <3>3, <3>6, <3>7
  <2>5. r \in Seq(Msgs) /\ Total(Weights(r, Ones)) = 0
    <3>1. r \in Seq(EditorMsgs)
      BY EditorMsgFacts, ShortQueues
    <3>2. \A i \in 1..Len(r) : r[i].kind # "chunk"
      <4>1. Result.kind # "chunk"
        BY DEF Result
      <4>2. CASE backlog' = <<>>
        <5>1. r = <<Result>>
          BY <4>2
        <5> HIDE DEF r
        <5>2. QED
          BY <4>1, <5>1
      <4>3. CASE backlog' # <<>>
        <5>1. r = <<>>
          BY <4>3
        <5> HIDE DEF r
        <5>2. QED
          BY <5>1
      <4>4. QED
        BY <4>2, <4>3
    <3> HIDE DEF r
    <3>3. QED
      BY <3>1, <3>2, NoneWithoutChunk
  <2>6. SendToEditor(q) \/ SendToEditor(q \o r)
    BY <1>14 DEF LiveCredit, LateCredit
  <2> HIDE DEF q, r
  <2>7. credit' + Total(Weights(q, Ones)) <= credit + Credits[m]
    <3>1. \A a, b, c, d \in Nat : a + b <= c /\ d <= b => a + d <= c
      OBVIOUS
    <3>2. credit + Credits[m] \in Nat
      BY <1>5, <1>6
    <3>3. QED
      BY <2>2, <2>3, <2>4, <3>1, <3>2
  <2>8. CASE SendToEditor(q)
    BY <1>7, <2>3, <2>4, <2>7, <2>8
  <2>9. CASE SendToEditor(q \o r)
    <3>1. q \o r \in Seq(Msgs)
      BY <2>4, <2>5, WeightsJoin, WeightsAre
    <3>2. Total(Weights(q \o r, Ones)) = Total(Weights(q, Ones)) + Total(Weights(r, Ones))
      BY <1>6, <2>4, <2>5, WeightsJoin
    <3>3. Total(Weights(q \o r, Ones)) = Total(Weights(q, Ones))
      BY <2>4, <2>5, <3>2
    <3> DEFINE t == q \o r
    <3>4. t \in Seq(Msgs) /\ SendToEditor(t) /\ credit' + Total(Weights(t, Ones)) <= credit + Credits[m]
      BY <2>7, <2>9, <3>1, <3>3
    <3> HIDE DEF t
    <3>5. QED
      BY <1>7, <2>3, <3>4
  <2>10. QED
    BY <2>6, <2>8, <2>9
<1>15. QED
  BY <1>1, <1>9, <1>10, <1>12, <1>13, <1>14

LEMMA CreditAgentSeesEnd ==
  ASSUME Typed, CreditInv, AgentSeesEnd
  PROVE  CreditInv'
<1>1. UNCHANGED <<toEditor, credit, link, consumed, granted, finished, out, posts>>
  BY DEF AgentSeesEnd, editorSide, mainVars, relayVars
<1>2. ToPost' = ToPost /\ Held' = Held /\ Coming' = Coming
  BY <1>1 DEF ToPost, Held, Coming
<1>3. ToCome' = 0
  BY WeightsEmpty DEF AgentSeesEnd, ToCome
<1>4. credit + 0 + Coming + consumed <= Window
  <2>1. \A a, b, c, d, w \in Nat : a + b + c + d <= w => a + 0 + c + d <= w
    OBVIOUS
  <2>2. QED
    BY <2>1, CreditTyped DEF CreditInv
<1>5. QED
  BY <1>1, <1>2, <1>3, <1>4 DEF CreditInv

LEMMA CreditEditorReceives ==
  ASSUME Typed, SpawnInv, AnswerInv, CreditInv, EditorReceives
  PROVE  CreditInv'
<1>1. PICK m \in EditorMsgs :
        \/ ChunkIsKept(m) \/ \E sent \in Seq(HostMsgs) : ChunkIsDiscarded(m, sent)
        \/ SpawnIsAnswered(m) \/ AnswerArrives(m)
  BY EditorReceivesCases
<1>2. Gets(m)
  BY <1>1 DEF ChunkIsKept, ChunkIsDiscarded, SpawnIsAnswered, AnswerArrives
<1>3. credit' = credit /\ link' = link /\ posts' = posts
  BY <1>2 DEF Gets, flowVars
<1>4. ToPost' = ToPost
  BY <1>3 DEF ToPost
<1>5. /\ toEditor \in Seq(EditorMsgs) /\ toEditor # <<>> /\ m = Head(toEditor) /\ toEditor[1] = m
      /\ m \in Members(toEditor) /\ toEditor' = Tail(toEditor)
  BY <1>2, TailShrinks, MembersTail DEF Gets, Typed, EditorTyped
<1>6. link
  BY <1>5 DEF AnswerInv
<1>7. Coming' \in Nat /\ Ones[m] \in Nat /\ Coming = Ones[m] + Coming'
  <2>1. toEditor \in Seq(Msgs)
    BY QueuesOfMsgs
  <2>2. Tail(toEditor) \in Seq(Msgs) /\ m \in Msgs
    BY <1>5, <2>1, TailShrinks
  <2>3. Total(Weights(toEditor, Ones)) = Ones[m] + Total(Weights(Tail(toEditor), Ones))
    BY <1>5, <2>1, WeightsAre, WeightOfTail
  <2>4. Total(Weights(Tail(toEditor), Ones)) \in Nat
    BY <2>2, WeightsAre, WeightBounds
  <2>5. Ones[m] \in Nat
    BY <2>2, WeightsAre
  <2>6. QED
    BY <1>5, <2>3, <2>4, <2>5 DEF Coming
<1>8. /\ credit + ToCome + Coming + consumed <= Window /\ Held <= Window
      /\ finished = "no" => consumed = Held + granted + ToPost
      /\ finished # "no" => consumed = 0 /\ granted = 0
  BY DEF CreditInv
<1>9. CASE ChunkIsKept(m)
  <2>1. m \in ChunkMsgs /\ m.kind = "chunk" /\ m.fd \in Fds /\ m.n \in 1..MaxOut + 1
    BY <1>9, EditorMsgFacts DEF ChunkIsKept
  <2>2. finished = "no" /\ finished' = "no" /\ toHost' = toHost
        /\ consumed' = consumed + 1 /\ granted' = granted
    BY <1>5, <1>9, <2>1 DEF AnswerInv, ChunkIsKept
  <2>3. ToCome' = ToCome /\ Ones[m] = 1
    BY <2>1, <2>2, WeightsAre DEF ToCome
  <2>4. Held' = Held + 1 /\ Held' \in Nat
    <3> DEFINE q == Append(out[m.fd], m.n)
    <3>1. out[m.fd] \in Seq(1..MaxOut + 1)
      BY <2>1 DEF Typed, EditorTyped
    <3>2. Len(q) = Len(out[m.fd]) + 1 /\ Len(out[m.fd]) \in Nat
      BY <2>1, <3>1, MembersGrow
    <3>3. out' = [out EXCEPT ![m.fd] = q]
      BY <1>9 DEF ChunkIsKept
    <3> HIDE DEF q
    <3>4. Len(q) \in Nat
      BY <3>2
    <3>5. Held' + Len(out[m.fd]) = Held + Len(q)
      BY <2>1, <3>3, <3>4, HeldChanges DEF Typed
    <3>6. Typed'
      BY TypedEditorReceives
    <3>7. Held' \in Nat
      BY <3>6, HeldNext DEF Typed
    <3> DEFINE l == Len(out[m.fd])
               k == Len(q)
    <3>8. k = l + 1 /\ l \in Nat /\ Held' + l = Held + k /\ Held \in Nat
      BY <3>2, <3>5, CreditTyped
    <3> HIDE DEF l, k
    <3> DEFINE P(a, b, c, d) == a + c = b + d /\ d = c + 1 => a = b + 1
    <3>9. \A a, b, c, d \in Nat : P(a, b, c, d)
      OBVIOUS
    <3> HIDE DEF P
    <3>10. P(Held', Held, l, k)
      BY <3>4, <3>7, <3>8, <3>9 DEF k
    <3>11. QED
      BY <3>7, <3>8, <3>10 DEF P
  <2>5. credit' + ToCome' + Coming' + consumed' <= Window
    <3>1. \A a, b, c, d, e, w \in Nat : a + b + c + d <= w /\ c = 1 + e => a + b + e + (d + 1) <= w
      OBVIOUS
    <3>2. QED
      BY <1>3, <1>7, <1>8, <2>2, <2>3, <3>1, CreditTyped
  <2>6. consumed' = Held' + granted' + ToPost'
    <3>1. \A a, b, c, d \in Nat : a = b + c + d => a + 1 = (b + 1) + c + d
      OBVIOUS
    <3>2. QED
      BY <1>4, <1>8, <2>2, <2>4, <3>1, CreditTyped
  <2>7. Held' <= Window
    <3>1. \A a, b, c, d, x, y, z, w \in Nat : a + b + c + (d + 1) <= w /\ d + 1 = x + y + z => x <= w
      OBVIOUS
    <3>2. QED
      BY <1>3, <1>4, <1>7, <2>2, <2>3, <2>4, <2>5, <2>6, <3>1, CreditTyped
  <2>8. QED
    BY <1>3, <1>6, <2>2, <2>5, <2>6, <2>7 DEF CreditInv
<1>10. ASSUME NEW sent \in Seq(HostMsgs), ChunkIsDiscarded(m, sent) PROVE CreditInv'
  <2>1. m \in ChunkMsgs /\ m.kind = "chunk"
    BY <1>10, EditorMsgFacts DEF ChunkIsDiscarded
  <2>2. finished = "no" /\ finished' = "no" /\ out' = out /\ toHost' = toHost \o sent
        /\ GrantIs(consumed + 1, 1, sent)
    BY <1>5, <1>10, <2>1 DEF AnswerInv, ChunkIsDiscarded
  <2>3. Ones[m] = 1 /\ Held' = Held
    BY <2>1, <2>2, WeightsAre DEF Held
  <2> DEFINE w == Total(Weights(sent, Credits))
             taken == consumed + 1
  <2>4. consumed' \in Nat /\ granted' \in Nat /\ taken \in Nat
    <3>1. taken \in Nat
      BY CreditTyped
    <3> HIDE DEF taken
    <3>2. GrantIs(taken, 1, sent)
      BY <2>2 DEF taken
    <3>3. QED
      BY <3>1, <3>2, GrantTyped
  <2>5. sent \in Seq(Msgs) /\ w \in Nat /\ consumed' + w <= taken /\ consumed' + granted + 1 = taken + granted'
    <3>1. GrantIs(taken, 1, sent)
      BY <2>2
    <3> HIDE DEF taken
    <3>2. QED
      BY <1>10, <2>2, <2>4, <3>1, GrantWeighs
  <2>6. ToCome' = ToCome + w
    <3>1. Total(Weights(toHost \o sent, Credits)) = Total(Weights(toHost, Credits)) + w
      <4>1. toHost \in Seq(Msgs) /\ sent \in Seq(Msgs) /\ Credits \in [Msgs -> Nat]
        BY <2>5, QueuesOfMsgs, WeightsAre
      <4>2. QED
        BY <4>1, WeightsJoin
    <3> HIDE DEF w
    <3>2. QED
      BY <2>2, <3>1 DEF ToCome
  <2> HIDE DEF w
  <2>7. credit' + ToCome' + Coming' + consumed' <= Window
    <3>1. /\ Coming = 1 + Coming' /\ consumed' + w <= consumed + 1 /\ w \in Nat
          /\ ToCome \in Nat /\ Coming' \in Nat /\ credit \in Nat /\ consumed \in Nat
          /\ consumed' \in Nat /\ Window \in Nat
      BY <1>7, <2>3, <2>4, <2>5, CreditTyped
    <3> DEFINE P(a, b, c, c2, d, d2, x, y) ==
                 a + b + c + d <= y /\ c = 1 + c2 /\ d2 + x <= d + 1 => a + (b + x) + c2 + d2 <= y
    <3>2. \A a, b, c, c2, d, d2, x, y \in Nat : P(a, b, c, c2, d, d2, x, y)
      OBVIOUS
    <3> HIDE DEF P
    <3>3. P(credit, ToCome, Coming, Coming', consumed, consumed', w, Window)
      BY <3>1, <3>2, CreditTyped
    <3>4. credit + (ToCome + w) + Coming' + consumed' <= Window
      BY <1>8, <3>1, <3>3 DEF P
    <3>5. QED
      BY <1>3, <2>6, <3>4
  <2>8. consumed' = Held' + granted' + ToPost'
    <3>1. /\ consumed = Held + granted + ToPost /\ consumed' + granted + 1 = (consumed + 1) + granted'
          /\ consumed \in Nat /\ consumed' \in Nat /\ granted \in Nat /\ granted' \in Nat
          /\ Held \in Nat /\ ToPost \in Nat
      BY <1>8, <2>2, <2>4, <2>5, CreditTyped
    <3> DEFINE P(a, b, c, d, a2, c2) ==
                 a = b + c + d /\ a2 + c + 1 = (a + 1) + c2 => a2 = b + c2 + d
    <3>2. \A a, b, c, d, a2, c2 \in Nat : P(a, b, c, d, a2, c2)
      OBVIOUS
    <3> HIDE DEF P
    <3>3. P(consumed, Held, granted, ToPost, consumed', granted')
      BY <3>1, <3>2
    <3>4. consumed' = Held + granted' + ToPost
      BY <3>1, <3>3 DEF P
    <3>5. QED
      BY <1>4, <2>3, <3>4
  <2>9. QED
    BY <1>3, <1>6, <1>8, <2>2, <2>3, <2>7, <2>8 DEF CreditInv
<1>11. CASE SpawnIsAnswered(m)
  <2>1. Final(m) /\ m \notin ChunkMsgs /\ m.kind # "chunk" /\ m.kind # "answer"
    BY <1>11, EditorMsgFacts DEF SpawnIsAnswered, Final
  <2>2. finished = "no" /\ finished' = "exit" /\ toHost' = toHost /\ consumed' = 0 /\ granted' = 0
    BY <1>5, <1>11, <2>1 DEF AnswerInv, SpawnIsAnswered
  <2>3. ToCome' = ToCome /\ Ones[m] = 0
    BY <2>1, <2>2, WeightsAre DEF ToCome
  <2>4. credit' + ToCome' + Coming' + consumed' <= Window
    <3>1. \A a, b, c, d, e, w \in Nat : a + b + c + d <= w /\ c = 0 + e => a + b + e + 0 <= w
      OBVIOUS
    <3>2. QED
      BY <1>3, <1>7, <1>8, <2>2, <2>3, <3>1, CreditTyped
  <2>5. Held' <= Window
    <3>1. CASE m = Result
      <4>1. out' = out
        BY <1>11, <3>1 DEF SpawnIsAnswered
      <4>2. QED
        BY <1>8, <4>1 DEF Held
    <3>2. CASE m # Result
      <4>1. m = SpawnFailed
        BY <1>11, <3>2 DEF SpawnIsAnswered
      <4>0. m.kind = "spawn failed"
        BY <4>1, EditorMsgFacts
      <4>2. proc = "none"
        BY <1>5, <4>0 DEF AnswerInv
      <4>3. Held = 0
        BY <2>2, <4>2 DEF SpawnInv
      <4>4. out' = [fd \in Fds |-> IF fd = 2 THEN Append(out[2], 1) ELSE out[fd]]
        BY <1>11, <3>2 DEF SpawnIsAnswered
      <4>5. Held \in Nat /\ (2 \notin Fds => Held = Len(out[1]))
            /\ (2 \in Fds => Held = Len(out[1]) + Len(out[2]))
            /\ \A fd \in Fds : Len(out[fd]) \in Nat
        BY HeldNat DEF Typed
      <4>6. CASE 2 \notin Fds
        <5>1. out'[1] = out[1]
          BY <4>4, <4>6, FdFacts
        <5>2. Held' = Len(out[1]) + 0
          BY <4>6, <5>1 DEF Held
        <5>3. QED
          BY <1>8, <4>3, <4>5, <4>6, <5>2
      <4>7. CASE 2 \in Fds
        <5>1. out'[1] = out[1] /\ out'[2] = Append(out[2], 1)
          BY <4>4, <4>7, FdFacts
        <5>2. out[2] \in Seq(1..MaxOut + 1) /\ 1 \in 1..MaxOut + 1
          BY <4>7, FdFacts DEF Typed, EditorTyped
        <5>3. Len(Append(out[2], 1)) = Len(out[2]) + 1
          BY <5>2, MembersGrow
        <5>4. Held' = Len(out[1]) + (Len(out[2]) + 1)
          BY <4>7, <5>1, <5>3 DEF Held
        <5>5. Len(out[1]) = 0 /\ Len(out[2]) = 0
          <6>1. \A a, b \in Nat : 0 = a + b => a = 0 /\ b = 0
            OBVIOUS
          <6>2. Len(out[1]) \in Nat /\ Len(out[2]) \in Nat /\ 0 = Len(out[1]) + Len(out[2])
            BY <4>3, <4>5, <4>7, FdFacts
          <6>3. QED
            BY <6>1, <6>2
        <5>6. QED
          BY <5>4, <5>5, FdFacts
      <4>8. QED
        BY <4>6, <4>7
    <3>3. QED
      BY <3>1, <3>2
  <2>6. QED
    BY <1>3, <1>6, <2>2, <2>4, <2>5 DEF CreditInv
<1>12. CASE AnswerArrives(m)
  <2>1. UNCHANGED <<finished, out, consumed, granted, toHost>> /\ m.kind # "chunk"
    BY <1>12 DEF AnswerArrives
  <2>2. ToCome' = ToCome /\ Held' = Held /\ Ones[m] = 0
    BY <2>1, WeightsAre DEF ToCome, Held
  <2>3. credit' + ToCome' + Coming' + consumed' <= Window
    <3>1. \A a, b, c, d, e, w \in Nat : a + b + c + d <= w /\ c = 0 + e => a + b + e + d <= w
      OBVIOUS
    <3>2. QED
      BY <1>3, <1>7, <1>8, <2>1, <2>2, <3>1, CreditTyped
  <2>4. QED
    BY <1>3, <1>4, <1>6, <1>8, <2>1, <2>2, <2>3 DEF CreditInv
<1>13. QED
  BY <1>1, <1>9, <1>10, <1>11, <1>12

LEMMA CreditEditorRunsPost ==
  ASSUME Typed, CreditInv, EditorRunsPost
  PROVE  CreditInv'
<1>1. PICK m \in RelayPosts :
        \/ PostIsLost(m) \/ PostIsAsked(m)
        \/ \E sent, more \in Seq(HostMsgs) : PostIsGranted(m, sent, more)
  BY EditorRunsPostCases
<1>2. Posted(m)
  BY <1>1 DEF PostIsLost, PostIsAsked, PostIsGranted
<1>3. UNCHANGED <<credit, link, toEditor, finished, out>>
  BY <1>2 DEF Posted, flowVars
<1>4. Coming' = Coming /\ Held' = Held
  BY <1>3 DEF Coming, Held
<1>5. ToPost' \in Nat /\ Grants[m] \in Nat /\ ToPost = Grants[m] + ToPost'
  <2>1. posts \in Seq(Msgs) /\ posts # <<>> /\ m = Head(posts) /\ posts' = Tail(posts)
    BY <1>2, QueuesOfMsgs DEF Posted
  <2>2. Tail(posts) \in Seq(Msgs) /\ m \in Msgs
    BY <2>1, TailShrinks
  <2>3. Total(Weights(posts, Grants)) = Grants[m] + Total(Weights(Tail(posts), Grants))
    BY <2>1, WeightsAre, WeightOfTail
  <2>4. Total(Weights(Tail(posts), Grants)) \in Nat
    BY <2>2, WeightsAre, WeightBounds
  <2>5. Grants[m] \in Nat
    BY <2>2, WeightsAre
  <2>6. QED
    BY <2>1, <2>3, <2>4, <2>5 DEF ToPost
<1>6. /\ credit + ToCome + Coming + consumed <= Window /\ Held <= Window
      /\ finished = "no" => consumed = Held + granted + ToPost
      /\ finished # "no" => consumed = 0 /\ granted = 0
      /\ ~link => finished # "no"
  BY DEF CreditInv
<1>7. CASE PostIsLost(m)
  <2>1. UNCHANGED <<consumed, granted, toHost>> /\ finished # "no"
    BY <1>6, <1>7 DEF PostIsLost
  <2>2. ToCome' = ToCome
    BY <2>1 DEF ToCome
  <2>3. QED
    BY <1>3, <1>4, <1>6, <2>1, <2>2 DEF CreditInv
<1>8. CASE PostIsAsked(m)
  <2>1. UNCHANGED <<consumed, granted>> /\ m.kind \in {"write", "close"} /\ m \in HostMsgs /\ link
        /\ toHost' = Append(toHost, m)
    BY <1>8 DEF PostIsAsked
  <2>2. Grants[m] = 0 /\ Credits[m] = 0 /\ m \in Msgs
    BY <2>1, WeightsAre, HostMsgFacts
  <2>3. ToCome' = ToCome + 0
    <3>1. Total(Weights(Append(toHost, m), Credits)) = Total(Weights(toHost, Credits)) + Credits[m]
      <4>1. toHost \in Seq(Msgs) /\ Credits \in [Msgs -> Nat]
        BY QueuesOfMsgs, WeightsAre
      <4>2. QED
        BY <2>2, <4>1, WeightOfAppend
    <3>2. QED
      BY <2>1, <2>2, <3>1 DEF ToCome
  <2>4. ToPost' = ToPost /\ ToCome' = ToCome
    <3>1. ToPost = 0 + ToPost' /\ ToPost' \in Nat /\ ToCome \in Nat
      BY <1>5, <2>2, CreditTyped
    <3>2. \A a, b \in Nat : a = 0 + b => b = a
      OBVIOUS
    <3>3. \A a \in Nat : a + 0 = a
      OBVIOUS
    <3>4. ToPost' = ToPost
      BY <3>1, <3>2, CreditTyped
    <3>5. ToCome' = ToCome
      BY <2>3, <3>1, <3>3
    <3>6. QED
      BY <3>4, <3>5
  <2>5. QED
    BY <1>3, <1>4, <1>6, <2>1, <2>4 DEF CreditInv
<1>9. ASSUME NEW sent \in Seq(HostMsgs), NEW more \in Seq(HostMsgs), PostIsGranted(m, sent, more)
      PROVE  CreditInv'
  <2>1. link /\ m.n \in Nat /\ GrantIs(consumed, m.n, sent) /\ toHost' = (toHost \o sent) \o more
        /\ (more = <<>> \/ more = <<Release>>) /\ Grants[m] = m.n
    BY <1>9, WeightsAre DEF PostIsGranted
  <2> DEFINE w == Total(Weights(sent, Credits))
             n == m.n
  <2>2. n \in Nat /\ GrantIs(consumed, n, sent) /\ consumed \in Nat
    BY <2>1, CreditTyped
  <2>3. consumed' \in Nat /\ granted' \in Nat
    <3> HIDE DEF n
    <3>1. QED
      BY <2>2, GrantTyped
  <2>4. /\ sent \in Seq(Msgs) /\ w \in Nat /\ consumed' + w <= consumed
        /\ finished = "no" => consumed' + granted + n = consumed + granted'
        /\ finished # "no" => consumed' = 0 /\ granted' = 0
    <3> HIDE DEF n
    <3>1. QED
      BY <1>9, <2>2, GrantWeighs
  <2>5. more \in Seq(Msgs) /\ Total(Weights(more, Credits)) = 0
    <3>1. CASE more = <<>>
      BY <3>1, WeightsEmpty
    <3>2. CASE more = <<Release>>
      <4>1. Release \in Msgs /\ Credits[Release] = 0
        BY HostMsgFacts, WeightsAre
      <4>2. <<Release>> \in Seq(Msgs) /\ Total(Weights(<<Release>>, Credits)) = 0
        BY <4>1, WeightsAre, WeightOfOne
      <4>3. QED
        BY <3>2, <4>2
    <3>3. QED
      BY <2>1, <3>1, <3>2
  <2>6. ToCome' = ToCome + w
    <3> DEFINE q == toHost \o sent
    <3>1. q \in Seq(Msgs) /\ Total(Weights(q, Credits)) = ToCome + w
      <4>1. toHost \in Seq(Msgs) /\ sent \in Seq(Msgs) /\ Credits \in [Msgs -> Nat]
        BY <2>4, QueuesOfMsgs, WeightsAre
      <4>2. q \in Seq(Msgs) /\ Total(Weights(q, Credits)) = Total(Weights(toHost, Credits)) + w
        BY <4>1, WeightsJoin
      <4>3. QED
        BY <4>2 DEF ToCome
    <3>2. toHost' = q \o more
      BY <2>1
    <3> HIDE DEF q
    <3>3. Total(Weights(q \o more, Credits)) = Total(Weights(q, Credits)) + 0
      <4>1. Credits \in [Msgs -> Nat]
        BY WeightsAre
      <4>2. Total(Weights(q \o more, Credits)) = Total(Weights(q, Credits)) + Total(Weights(more, Credits))
        BY <2>5, <3>1, <4>1, WeightsJoin
      <4>3. QED
        BY <2>5, <4>2
    <3>4. ToCome' = (ToCome + w) + 0
      BY <3>1, <3>2, <3>3 DEF ToCome
    <3> HIDE DEF w
    <3>5. QED
      BY <2>4, <3>4, CreditTyped
  <2> HIDE DEF w
  <2>7. credit' + ToCome' + Coming' + consumed' <= Window
    <3>1. /\ consumed' + w <= consumed /\ w \in Nat /\ consumed' \in Nat
          /\ ToCome \in Nat /\ Coming \in Nat /\ credit \in Nat /\ consumed \in Nat /\ Window \in Nat
      BY <2>3, <2>4, CreditTyped
    <3> DEFINE P(a, b, c, d, d2, x, y) ==
                 a + b + c + d <= y /\ d2 + x <= d => a + (b + x) + c + d2 <= y
    <3>2. \A a, b, c, d, d2, x, y \in Nat : P(a, b, c, d, d2, x, y)
      OBVIOUS
    <3> HIDE DEF P
    <3>3. P(credit, ToCome, Coming, consumed, consumed', w, Window)
      BY <3>1, <3>2
    <3>4. credit + (ToCome + w) + Coming + consumed' <= Window
      BY <1>6, <3>1, <3>3 DEF P
    <3>5. QED
      BY <1>3, <1>4, <2>6, <3>4
  <2>8. finished = "no" => consumed' = Held' + granted' + ToPost'
    <3> SUFFICES ASSUME finished = "no" PROVE consumed' = Held' + granted' + ToPost'
      BY <1>3
    <3>1. /\ consumed = Held + granted + ToPost /\ consumed' + granted + n = consumed + granted'
          /\ ToPost = n + ToPost' /\ n \in Nat /\ ToPost' \in Nat
          /\ consumed \in Nat /\ consumed' \in Nat /\ granted \in Nat /\ granted' \in Nat
          /\ Held \in Nat /\ ToPost \in Nat
      BY <1>3, <1>5, <1>6, <2>1, <2>3, <2>4, CreditTyped
    <3> HIDE DEF n
    <3> DEFINE P(a, b, c, d, a2, c2, d2, e) ==
                 a = b + c + d /\ d = e + d2 /\ a2 + c + e = a + c2 => a2 = b + c2 + d2
    <3>2. \A a, b, c, d, a2, c2, d2, e \in Nat : P(a, b, c, d, a2, c2, d2, e)
      OBVIOUS
    <3> HIDE DEF P
    <3>3. P(consumed, Held, granted, ToPost, consumed', granted', ToPost', n)
      BY <3>1, <3>2
    <3>4. consumed' = Held + granted' + ToPost'
      BY <3>1, <3>3 DEF P
    <3>5. QED
      BY <1>4, <3>4
  <2>9. QED
    BY <1>3, <1>4, <1>6, <2>4, <2>7, <2>8 DEF CreditInv
<1>10. QED
  BY <1>1, <1>7, <1>8, <1>9

\* A piece that leaves the editor's hold is granted, or its grant is posted.
LEMMA CreditMoves ==
  ASSUME Typed, CreditInv, UNCHANGED <<credit, toHost, toEditor, consumed, granted, finished, link>>,
         Held' \in Nat, ToPost' \in Nat, Held' <= Held, Held' + ToPost' = Held + ToPost
  PROVE  CreditInv'
<1>1. ToCome' = ToCome /\ Coming' = Coming
  BY DEF ToCome, Coming
<1>2. finished = "no" => consumed = Held' + granted + ToPost'
  <2> DEFINE P(a, b, c, d, b2, d2) == a = b + c + d /\ b2 + d2 = b + d => a = b2 + c + d2
  <2>1. \A a, b, c, d, b2, d2 \in Nat : P(a, b, c, d, b2, d2)
    OBVIOUS
  <2> HIDE DEF P
  <2>2. P(consumed, Held, granted, ToPost, Held', ToPost')
    BY <2>1, CreditTyped
  <2>3. QED
    BY <2>2 DEF P, CreditInv
<1>3. Held' <= Window
  <2> DEFINE P(a, b, c) == a <= b /\ b <= c => a <= c
  <2>1. \A a, b, c \in Nat : P(a, b, c)
    OBVIOUS
  <2> HIDE DEF P
  <2>2. P(Held', Held, Window)
    BY <2>1, CreditTyped
  <2>3. QED
    BY <2>2 DEF P, CreditInv
<1>4. QED
  BY <1>1, <1>2, <1>3 DEF CreditInv

\* What is posted adds its grant.
LEMMA PostWeighs ==
  ASSUME Typed, NEW m \in RelayPosts, posts' = Append(posts, m)
  PROVE  ToPost' = ToPost + Grants[m] /\ Grants[m] \in Nat /\ ToPost' \in Nat
<1>1. posts \in Seq(Msgs) /\ m \in Msgs /\ Grants \in [Msgs -> Nat]
  BY QueuesOfMsgs, WeightsAre, HostMsgFacts
<1>2. Total(Weights(Append(posts, m), Grants)) = Total(Weights(posts, Grants)) + Grants[m]
  BY <1>1, WeightOfAppend
<1>3. ToPost' = ToPost + Grants[m] /\ Grants[m] \in Nat
  BY <1>1, <1>2 DEF ToPost
<1>4. QED
  BY <1>3, CreditTyped

LEMMA GrantsWeigh ==
  \A n \in Nat : /\ Granting(n) \in RelayPosts /\ Grants[Granting(n)] = n
                 /\ Releasing(n) \in RelayPosts /\ Grants[Releasing(n)] = n
<1> SUFFICES ASSUME NEW n \in Nat
             PROVE  /\ Granting(n) \in RelayPosts /\ Grants[Granting(n)] = n
                    /\ Releasing(n) \in RelayPosts /\ Grants[Releasing(n)] = n
  OBVIOUS
<1>1. /\ Granting(n) \in RelayPosts /\ Granting(n).kind = "grant" /\ Granting(n).n = n
      /\ Releasing(n) \in RelayPosts /\ Releasing(n).kind = "releasing" /\ Releasing(n).n = n
  BY HostMsgFacts
<1>2. QED
  BY <1>1, WeightsAre

LEMMA CreditLinkEnds ==
  ASSUME Typed, CreditInv, LinkEnds
  PROVE  CreditInv'
<1>1. /\ link' = FALSE /\ toEditor' = <<>> /\ UNCHANGED <<credit, toHost, out, posts>>
      /\ finished' # "no" /\ consumed' = 0 /\ granted' = 0
  BY DEF LinkEnds, Finish, CreditInv, hostSide, flowVars
<1>2. ToCome' = ToCome /\ Coming' = 0 /\ Held' = Held
  BY <1>1, WeightsEmpty DEF ToCome, Coming, Held
<1>3. credit' + ToCome' + Coming' + consumed' <= Window
  <2> DEFINE P(a, b, c, d, w) == a + b + c + d <= w => a + b + 0 + 0 <= w
  <2>1. \A a, b, c, d, w \in Nat : P(a, b, c, d, w)
    OBVIOUS
  <2> HIDE DEF P
  <2>2. P(credit, ToCome, Coming, consumed, Window)
    BY <2>1, CreditTyped
  <2>3. credit + ToCome + 0 + 0 <= Window
    BY <2>2 DEF P, CreditInv
  <2>4. QED
    BY <1>1, <1>2, <2>3
<1>4. QED
  BY <1>1, <1>2, <1>3 DEF CreditInv

LEMMA CreditDeliver ==
  ASSUME Typed, CreditInv, NEW fd \in Fds, Deliver(fd)
  PROVE  CreditInv'
<1>1. UNCHANGED <<credit, toHost, toEditor, consumed, granted, finished, link>>
  BY DEF Deliver, hostSide, flowVars, mainVars
<1>2. CASE /\ out' = [out EXCEPT ![fd] = Tail(@)] /\ posts' = Append(posts, Granting(1))
  <2>1. Granting(1) \in RelayPosts /\ Grants[Granting(1)] = 1
    BY GrantsWeigh
  <2>2. ToPost' = ToPost + 1 /\ ToPost' \in Nat
    BY <1>2, <2>1, PostWeighs
  <2> DEFINE q == Tail(out[fd])
             l == Len(out[fd])
             k == Len(q)
  <2>3. out[fd] \in Seq(1..MaxOut + 1) /\ out[fd] # <<>>
    BY DEF Typed, EditorTyped, Deliver
  <2>4. l \in Nat /\ k = l - 1 /\ k \in Nat
    <3>1. Len(Tail(out[fd])) = Len(out[fd]) - 1 /\ Len(out[fd]) \in Nat
      BY <2>3, MembersShrink
    <3>2. Tail(out[fd]) \in Seq(1..MaxOut + 1)
      BY <2>3, TailShrinks
    <3>3. Len(Tail(out[fd])) \in Nat
      BY <3>2, LenProperties
    <3>4. QED
      BY <3>1, <3>3
  <2>5. Held' + l = Held + k
    <3>1. out' = [out EXCEPT ![fd] = q]
      BY <1>2
    <3> HIDE DEF q
    <3>2. QED
      BY <2>4, <3>1, HeldChanges DEF Typed, l, k
  <2>6. Held' \in Nat
    BY TypedDeliver, HeldNext DEF Typed
  <2> HIDE DEF q, l, k
  <2>7. Held' + 1 = Held
    <3> DEFINE P(a, b, x, y) == a + x = b + y /\ y = x - 1 => a + 1 = b
    <3>1. \A a, b, x, y \in Nat : P(a, b, x, y)
      OBVIOUS
    <3> HIDE DEF P
    <3>2. P(Held', Held, l, k)
      BY <2>4, <2>6, <3>1, CreditTyped
    <3>3. QED
      BY <2>4, <2>5, <3>2 DEF P
  <2>8. Held' <= Held /\ Held' + ToPost' = Held + ToPost
    <3> DEFINE P(a, b, x, y) == a + 1 = b /\ y = x + 1 => a <= b /\ a + y = b + x
    <3>1. \A a, b, x, y \in Nat : P(a, b, x, y)
      OBVIOUS
    <3> HIDE DEF P
    <3>2. P(Held', Held, ToPost, ToPost')
      BY <2>2, <2>6, <3>1, CreditTyped
    <3>3. QED
      BY <2>2, <2>7, <3>2 DEF P
  <2>9. QED
    BY <1>1, <2>2, <2>6, <2>8, CreditMoves
<1>3. CASE out' = [f \in Fds |-> <<>>] /\ posts' = Append(posts, Granting(Held))
  <2>1. Held \in Nat
    BY CreditTyped
  <2>2. Granting(Held) \in RelayPosts /\ Grants[Granting(Held)] = Held
    BY <2>1, GrantsWeigh
  <2>3. ToPost' = ToPost + Held /\ ToPost' \in Nat /\ Held' = 0
    BY <1>3, <2>2, PostWeighs, HeldNothing
  <2>4. Held' <= Held /\ Held' + ToPost' = Held + ToPost
    BY <2>1, <2>3, CreditTyped
  <2>5. QED
    BY <1>1, <2>3, <2>4, CreditMoves
<1>4. QED
  BY <1>2, <1>3 DEF Deliver

LEMMA CreditRelayAndOwner ==
  ASSUME Typed, CreditInv, RelayReads \/ RelayReadsEnd \/ OwnerReleases
  PROVE  CreditInv'
<1>1. UNCHANGED <<credit, toHost, toEditor, consumed, granted, finished, link>>
  BY DEF RelayReads, RelayReadsEnd, OwnerReleases, hostSide, flowVars, mainVars
<1>2. ASSUME NEW m \in RelayPosts, Grants[m] = 0, posts' = Append(posts, m), out' = out PROVE CreditInv'
  <2>1. ToPost' = ToPost + 0 /\ Held' = Held
    BY <1>2, PostWeighs DEF Held
  <2>2. ToPost' = ToPost /\ Held' <= Held
    BY <2>1, CreditTyped
  <2>3. QED
    BY <1>1, <2>1, <2>2, CreditTyped, CreditMoves
<1>3. CASE RelayReads
  <2>0. /\ fetched < typed /\ typed \in 0..MaxIn /\ fetched \in 0..typed /\ MaxIn \in Nat
        /\ posts' = Append(posts, Write(fetched + 1)) /\ out' = out
    BY <1>3, FdFacts DEF RelayReads, Typed, OwnerTyped
  <2>1. fetched + 1 \in 1..MaxIn
    BY <2>0
  <2>2. Write(fetched + 1) \in RelayPosts /\ Write(fetched + 1).kind = "write"
    BY <2>1, HostMsgFacts
  <2>3. Grants[Write(fetched + 1)] = 0
    BY <2>2, WeightsAre
  <2>4. QED
    BY <1>2, <2>0, <2>2, <2>3
<1>4. CASE RelayReadsEnd
  <2>1. posts' = Append(posts, CloseStdin) /\ out' = out
    BY <1>4 DEF RelayReadsEnd
  <2>2. CloseStdin \in RelayPosts /\ CloseStdin.kind = "close"
    BY HostMsgFacts
  <2>3. Grants[CloseStdin] = 0
    BY <2>2, WeightsAre
  <2>4. QED
    BY <1>2, <2>1, <2>2, <2>3
<1>5. CASE OwnerReleases
  <2>1. Held \in Nat
    BY CreditTyped
  <2>2. Releasing(Held) \in RelayPosts /\ Grants[Releasing(Held)] = Held
    BY <2>1, GrantsWeigh
  <2>3. ToPost' = ToPost + Held /\ ToPost' \in Nat /\ Held' = 0
    BY <1>5, <2>2, PostWeighs, HeldNothing DEF OwnerReleases, Unread
  <2>4. Held' <= Held /\ Held' + ToPost' = Held + ToPost
    BY <2>1, <2>3, CreditTyped
  <2>5. QED
    BY <1>1, <2>3, <2>4, CreditMoves
<1>6. QED
  BY <1>3, <1>4, <1>5

\* Every step keeps the credit.
LEMMA CreditStep ==
  ASSUME Typed, DoneIsAsked, SpawnInv, AnswerInv, CreditInv, [Next]_vars
  PROVE  CreditInv'
<1>1. CASE Process \/ Writer \/ Expire \/ RelayEnds \/ OwnerWrites \/ CloseInput \/ HangUp
  <2>1. UNCHANGED creditVars
    BY <1>1 DEF Process, Writer, Expire, RelayEnds, OwnerWrites, CloseInput, HangUp, creditVars,
                flowVars, mainVars, relayVars, hostSide, editorSide
  <2>2. QED
    BY <2>1, CreditUnchanged
<1>2. ASSUME NEW fd \in Fds, Reader(fd) PROVE CreditInv'
  <2>1. UNCHANGED creditVars
    BY <1>2 DEF Reader, creditVars, flowVars, mainVars, relayVars, editorSide
  <2>2. QED
    BY <2>1, CreditUnchanged
<1>3. CASE UNCHANGED vars
  <2>1. UNCHANGED creditVars
    BY <1>3 DEF vars, creditVars, flowVars, mainVars, relayVars, hostSide, editorSide
  <2>2. QED
    BY <2>1, CreditUnchanged
<1>4. CASE HostRunsPost
  BY <1>4, CreditHostRunsPost
<1>5. CASE HostReceives
  BY <1>5, CreditHostReceives
<1>6. CASE AgentSeesEnd
  BY <1>6, CreditAgentSeesEnd
<1>7. CASE EditorReceives
  BY <1>7, CreditEditorReceives
<1>8. CASE EditorRunsPost
  BY <1>8, CreditEditorRunsPost
<1>9. CASE LinkEnds
  BY <1>9, CreditLinkEnds
<1>10. CASE RelayReads \/ RelayReadsEnd \/ OwnerReleases
  BY <1>10, CreditRelayAndOwner
<1>11. ASSUME NEW fd \in Fds, Deliver(fd) PROVE CreditInv'
  BY <1>11, CreditDeliver
<1>12. QED
  BY <1>1, <1>2, <1>3, <1>4, <1>5, <1>6, <1>7, <1>8, <1>9, <1>10, <1>11 DEF Next

-----------------------------------------------------------------------------
(* The spawn *)

LEMMA SentMembers ==
  ASSUME Typed, NEW s \in Seq(EditorMsgs), SendToEditor(s)
  PROVE  /\ Members(toEditor') \subseteq Members(toEditor) \cup Members(s)
         /\ ~link => toEditor' = toEditor
         /\ link => Members(toEditor') = Members(toEditor) \cup Members(s)
BY MembersOfJoin DEF SendToEditor, Typed, EditorTyped

LEMMA SentOneMembers ==
  ASSUME Typed, NEW x \in EditorMsgs, SendToEditor(<<x>>)
  PROVE  /\ Members(toEditor') \subseteq Members(toEditor) \cup {x}
         /\ ~link => toEditor' = toEditor
<1> DEFINE s == <<x>>
<1>1. s \in Seq(EditorMsgs) /\ SendToEditor(s) /\ Members(s) = {x}
  BY MembersOne
<1> HIDE DEF s
<1>2. QED
  BY <1>1, SentMembers

spawnVars == <<toHost, job, agent, proc, wrote, toEditor, backlog, hostPosts, items, answers, held,
               finished, read, link, out>>

\* What the host is sent after the spawn.
LEMMA SpawnStaysFirst ==
  ASSUME Typed, SpawnInv, NEW more \in Seq(HostMsgs), toHost' = toHost \o more, Spawn \notin Members(more)
  PROVE  /\ \A i \in 1..Len(toHost') : toHost'[i] = Spawn => i = 1
         /\ Spawn \in Members(toHost') => Spawn \in Members(toHost)
         /\ toHost # <<>> => toHost' # <<>> /\ Head(toHost') = Head(toHost)
<1> DEFINE t == toHost \o more
           n == Len(toHost)
<1>1. toHost \in Seq(HostMsgs)
  BY DEF Typed, EditorTyped
<1>2. /\ t \in Seq(HostMsgs) /\ Len(t) = n + Len(more) /\ n \in Nat /\ Len(more) \in Nat
      /\ \A i \in 1..n : t[i] = toHost[i] /\ i \in 1..Len(t)
      /\ \A i \in 1..Len(t) :
           \/ i \in 1..n /\ t[i] = toHost[i]
           \/ i > n /\ i - n \in 1..Len(more) /\ t[i] = more[i - n]
  BY <1>1, MembersJoin
<1>3. Members(t) = Members(toHost) \cup Members(more)
  BY <1>1, MembersOfJoin
<1> HIDE DEF t
<1>4. \A i \in 1..Len(t) : t[i] = Spawn => i = 1
  <2>1. \A i \in 1..n : toHost[i] = Spawn => i = 1
    BY DEF SpawnInv
  <2>2. \A i \in 1..Len(more) : more[i] # Spawn
    BY DEF Members
  <2>3. QED
    BY <1>2, <2>1, <2>2
<1>5. toHost # <<>> => t # <<>> /\ Head(t) = Head(toHost)
  <2> SUFFICES ASSUME toHost # <<>> PROVE t # <<>> /\ Head(t) = Head(toHost)
    OBVIOUS
  <2>1. 1 \in 1..n /\ Head(toHost) = toHost[1]
    BY <1>1, TailShrinks
  <2>2. 1 \in 1..Len(t) /\ t[1] = toHost[1]
    BY <1>2, <2>1
  <2>3. t # <<>>
    BY <2>2
  <2>4. Head(t) = t[1]
    BY <1>2, <2>3, TailShrinks
  <2>5. QED
    BY <2>1, <2>2, <2>3, <2>4
<1>6. toHost' = t
  BY DEF t
<1>7. QED
  BY <1>3, <1>4, <1>5, <1>6

LEMMA SpawnHostRunsPost ==
  ASSUME Typed, DoneIsAsked, SpawnInv, HostRunsPost
  PROVE  SpawnInv'
<1>1. PICK m \in HostPosts :
        \/ PostIsLate(m) \/ OutputIsDropped(m) \/ OutputIsSent(m) \/ OutputWaits(m)
        \/ InputIsAnswered(m) \/ OneIsDone(m) \/ JobIsDone(m)
  BY HostRunsPostCases
<1>2. HostRuns(m)
  BY <1>1 DEF PostIsLate, OutputIsDropped, OutputIsSent, OutputWaits, InputIsAnswered,
              OneIsDone, JobIsDone, OneEnd
<1>3. /\ UNCHANGED <<toHost, agent, proc, wrote, finished, read, link, out>>
      /\ agent /\ hostPosts # <<>> /\ Held' = Held
  BY <1>2 DEF HostRuns, procVars, relayVars, Held
<1>4. proc # "none" /\ job # "none"
  BY <1>3 DEF SpawnInv
<1>5. ASSUME job' # "none", held' => job' = "gone" PROVE SpawnInv'
  BY <1>3, <1>4, <1>5 DEF SpawnInv
<1>6. held' => job' = "gone"
  BY <1>1 DEF PostIsLate, OutputIsDropped, OutputIsSent, OutputWaits, InputIsAnswered,
              OneIsDone, JobIsDone, OneEnd, flowVars, SpawnInv
<1>7. job' # "none"
  BY <1>1, <1>4 DEF PostIsLate, OutputIsDropped, OutputIsSent, OutputWaits, InputIsAnswered,
              OneIsDone, JobIsDone, OneEnd, flowVars
<1>8. QED
  BY <1>5, <1>6, <1>7

LEMMA SpawnHostReceives ==
  ASSUME Typed, SpawnInv, HostReceives
  PROVE  SpawnInv'
<1>1. PICK m \in HostMsgs :
        \/ Spawns(m) \/ SpawnFails(m)
        \/ \E n \in 0..MaxIn : InputIsQueued(m, n) \/ InputIsRefused(m, n)
        \/ JobIsReleased(m) \/ HeardLate(m)
        \/ \E k \in 0..Len(backlog) : LiveCredit(m, k) \/ LateCredit(m, k)
  BY HostReceivesCases
<1>2. Hears(m)
  BY <1>1 DEF Spawns, SpawnFails, InputIsQueued, InputIsRefused, JobIsReleased, HeardLate,
              LiveCredit, LateCredit, CreditArrives
<1>3. /\ UNCHANGED <<agent, hostPosts, finished, read, link, out>> /\ Held' = Held
      /\ agent /\ toHost # <<>> /\ toHost' = Tail(toHost) /\ m = Head(toHost) /\ toHost \in Seq(HostMsgs)
  BY <1>2 DEF Hears, relayVars, Held, Typed, EditorTyped
<1>4. /\ m \in Members(toHost) /\ Members(toHost') \subseteq Members(toHost)
      /\ \A i \in 1..Len(toHost') : toHost'[i] # Spawn
  <2>1. m \in Members(toHost) /\ Members(toHost') \subseteq Members(toHost)
    BY <1>3, MembersTail
  <2>2. /\ Len(toHost) \in Nat /\ Len(Tail(toHost)) = Len(toHost) - 1
        /\ \A i \in 1 .. Len(Tail(toHost)) : Tail(toHost)[i] = toHost[i + 1] /\ i + 1 \in 1 .. Len(toHost)
    BY <1>3, MembersShrink
  <2>3. \A i \in 1 .. Len(Tail(toHost)) : i + 1 # 1
    BY <2>2
  <2>4. QED
    BY <1>3, <2>1, <2>2, <2>3 DEF SpawnInv
<1>5. Spawn \notin Members(toHost')
  BY <1>4 DEF Members
<1>6. m = Spawn => job = "none"
  BY <1>4 DEF SpawnInv
<1>7. m # Spawn => job # "none"
  BY <1>3 DEF SpawnInv
<1>8. CASE Spawns(m)
  <2>1. proc' = "running" /\ job' = "live" /\ UNCHANGED <<wrote, held>> /\ job = "none"
    BY <1>6, <1>8 DEF Spawns, flowVars
  <2>2. \A fd \in Fds : wrote[fd] <= MaxOut
    BY <2>1, FdFacts DEF SpawnInv
  <2>3. ~held
    BY <2>1 DEF SpawnInv
  <2>4. QED
    BY <1>3, <1>4, <1>5, <2>1, <2>2, <2>3 DEF SpawnInv
<1>9. CASE SpawnFails(m)
  <2>1. proc' = proc /\ job' = "gone" /\ UNCHANGED <<held, backlog>> /\ job = "none" /\ SendToEditor(<<SpawnFailed>>)
    BY <1>6, <1>9 DEF SpawnFails, flowVars
  <2>2. proc = "none" /\ toEditor = <<>>
    BY <2>1 DEF SpawnInv
  <2>3. Members(toEditor') \subseteq {SpawnFailed}
    BY <2>1, <2>2, EditorMsgFacts, SentOneMembers, MembersNone
  <2>4. \A x \in Members(toEditor') : x.kind # "chunk"
    BY <2>3, EditorMsgFacts
  <2>5. QED
    BY <1>3, <1>4, <1>5, <2>1, <2>2, <2>4 DEF SpawnInv
<1>10. ASSUME job # "none", UNCHANGED <<proc, wrote, job>>, held' => job' = "gone",
              proc = "none" => /\ backlog' = <<>>
                               /\ \A x \in Members(toEditor') : x.kind # "chunk"
       PROVE  SpawnInv'
  BY <1>3, <1>4, <1>5, <1>10 DEF SpawnInv
<1>11. \A n \in 0..MaxIn : Answer(n, FALSE) \in EditorMsgs /\ Answer(n, FALSE).kind # "chunk"
  <2>1. \A n \in 0..MaxIn : Answer(n, FALSE) \in EditorMsgs
    BY EditorMsgFacts
  <2>2. QED
    BY <2>1 DEF Answer
<1>12. ASSUME NEW n \in 0..MaxIn, InputIsQueued(m, n) \/ InputIsRefused(m, n) PROVE SpawnInv'
  <2>1. m # Spawn
    BY <1>12, HostMsgFacts DEF InputIsQueued, InputIsRefused, Asking
  <2>2. UNCHANGED <<proc, wrote, job, backlog, held>>
    BY <1>12 DEF InputIsQueued, InputIsRefused, flowVars
  <2>3. Members(toEditor') \subseteq Members(toEditor) \cup {Answer(n, FALSE)}
    <3>1. CASE InputIsQueued(m, n)
      BY <3>1 DEF InputIsQueued
    <3>2. CASE InputIsRefused(m, n)
      BY <1>11, <3>2, SentOneMembers DEF InputIsRefused
    <3>3. QED
      BY <1>12, <3>1, <3>2
  <2>4. held' => job' = "gone"
    BY <2>2 DEF SpawnInv
  <2>5. proc = "none" => backlog' = <<>> /\ \A x \in Members(toEditor') : x.kind # "chunk"
    BY <1>11, <2>2, <2>3 DEF SpawnInv
  <2>6. QED
    BY <1>7, <1>10, <2>1, <2>2, <2>4, <2>5
<1>13. CASE JobIsReleased(m) \/ HeardLate(m)
  <2>1. m # Spawn
    BY <1>13, HostMsgFacts DEF JobIsReleased, HeardLate
  <2>2. UNCHANGED <<proc, wrote, job, backlog, held, toEditor>>
    BY <1>13 DEF JobIsReleased, HeardLate, flowVars
  <2>3. QED
    BY <1>7, <1>10, <2>1, <2>2 DEF SpawnInv
<1>14. ASSUME NEW k \in 0..Len(backlog), LiveCredit(m, k) \/ LateCredit(m, k) PROVE SpawnInv'
  <2>1. CreditArrives(m, k)
    BY <1>14 DEF LiveCredit, LateCredit
  <2>2. m # Spawn /\ UNCHANGED <<proc, wrote, job>>
    BY <2>1, HostMsgFacts DEF CreditArrives
  <2>3. held' => job' = "gone"
    BY <1>14, <2>2 DEF LiveCredit, LateCredit, SpawnInv
  <2>4. ASSUME proc = "none" PROVE backlog' = <<>> /\ \A x \in Members(toEditor') : x.kind # "chunk"
    <3>1. backlog = <<>> /\ job = "gone" /\ \A x \in Members(toEditor) : x.kind # "chunk"
      BY <1>7, <2>2, <2>4 DEF SpawnInv, Typed, JobTyped
    <3>2. SubSeq(backlog, 1, k) = <<>> /\ SubSeq(backlog, k + 1, Len(backlog)) = <<>>
      BY <3>1
    <3>3. backlog' = <<>>
      BY <2>1, <3>2 DEF CreditArrives
    <3>4. SendToEditor(<<>> \o <<Result>>)
      BY <1>14, <3>1, <3>2, <3>3 DEF LiveCredit, LateCredit
    <3>5. <<>> \o <<Result>> = <<Result>>
      OBVIOUS
    <3>6. Members(toEditor') \subseteq Members(toEditor) \cup {Result} /\ Result.kind # "chunk"
      <4>1. SendToEditor(<<Result>>)
        BY <3>4, <3>5
      <4>2. Result \in EditorMsgs /\ Result.kind # "chunk"
        BY EditorMsgFacts
      <4>3. QED
        BY <4>1, <4>2, SentOneMembers
    <3>7. QED
      BY <3>1, <3>3, <3>6
  <2>5. QED
    BY <1>7, <1>10, <2>2, <2>3, <2>4
<1>15. QED
  BY <1>1, <1>8, <1>9, <1>12, <1>13, <1>14

LEMMA GrantedMembers ==
  ASSUME NEW taken, NEW n, NEW sent, GrantIs(taken, n, sent)
  PROVE  \A x \in Members(sent) : x.kind = "credit" /\ x # Spawn /\ x # Release
<1>1. CASE sent = <<>>
  BY <1>1, MembersNone
<1>2. ASSUME NEW k \in Nat, sent = <<Credit(k)>>
      PROVE  \A x \in Members(sent) : x.kind = "credit" /\ x # Spawn /\ x # Release
  <2>1. Members(<<Credit(k)>>) = {Credit(k)}
    BY MembersOne
  <2>2. Credit(k).kind = "credit" /\ Spawn.kind = "spawn" /\ Release.kind = "release"
    BY HostMsgFacts
  <2>3. QED
    BY <1>2, <2>1, <2>2
<1>3. QED
  BY <1>1, <1>2 DEF GrantIs

LEMMA HeldOfEach ==
  ASSUME EditorTyped
  PROVE  \A fd \in Fds : Len(out[fd]) \in Nat /\ Len(out[fd]) <= Held
<1>1. /\ (2 \notin Fds => Held = Len(out[1])) /\ (2 \in Fds => Held = Len(out[1]) + Len(out[2]))
      /\ \A fd \in Fds : Len(out[fd]) \in Nat
  BY HeldNat
<1>2. \A a, b \in Nat : a <= a + b /\ b <= a + b /\ a <= a
  OBVIOUS
<1>3. 1 \in Fds /\ \A fd \in Fds : fd = 1 \/ (fd = 2 /\ 2 \in Fds)
  BY FdFacts
<1>4. CASE 2 \notin Fds
  <2>1. Held = Len(out[1]) /\ Len(out[1]) \in Nat
    BY <1>1, <1>3, <1>4
  <2>2. Len(out[1]) <= Held
    BY <1>2, <2>1
  <2>3. QED
    BY <1>1, <1>3, <1>4, <2>2
<1>5. CASE 2 \in Fds
  <2>1. Held = Len(out[1]) + Len(out[2]) /\ Len(out[1]) \in Nat /\ Len(out[2]) \in Nat
    BY <1>1, <1>3, <1>5
  <2>2. Len(out[1]) <= Held /\ Len(out[2]) <= Held
    BY <1>2, <2>1
  <2>3. QED
    BY <1>1, <1>3, <2>2
<1>6. QED
  BY <1>4, <1>5

LEMMA SpawnEditorReceives ==
  ASSUME Typed, SpawnInv, EditorReceives
  PROVE  SpawnInv'
<1>1. PICK m \in EditorMsgs :
        \/ ChunkIsKept(m) \/ \E sent \in Seq(HostMsgs) : ChunkIsDiscarded(m, sent)
        \/ SpawnIsAnswered(m) \/ AnswerArrives(m)
  BY EditorReceivesCases
<1>2. Gets(m)
  BY <1>1 DEF ChunkIsKept, ChunkIsDiscarded, SpawnIsAnswered, AnswerArrives
<1>3. /\ UNCHANGED <<job, agent, proc, wrote, backlog, hostPosts, items, answers, held, read, link>>
      /\ toEditor \in Seq(EditorMsgs) /\ toEditor # <<>> /\ m = Head(toEditor) /\ toEditor' = Tail(toEditor)
  BY <1>2 DEF Gets, jobVars, flowVars, procVars, Typed, EditorTyped
<1>4. m \in Members(toEditor) /\ Members(toEditor') \subseteq Members(toEditor) /\ job # "none"
  BY <1>3, MembersTail DEF SpawnInv
<1>5. ASSUME NEW more \in Seq(HostMsgs), toHost' = toHost \o more, Spawn \notin Members(more),
             proc = "none" /\ finished' # "exit" => Held' = 0
      PROVE  SpawnInv'
  <2>1. /\ \A i \in 1..Len(toHost') : toHost'[i] = Spawn => i = 1
        /\ Spawn \in Members(toHost') => Spawn \in Members(toHost)
    BY <1>5, SpawnStaysFirst
  <2>2. QED
    BY <1>3, <1>4, <1>5, <2>1 DEF SpawnInv
<1>6. ASSUME toHost' = toHost, proc = "none" /\ finished' # "exit" => Held' = 0
      PROVE  SpawnInv'
  BY <1>3, <1>4, <1>6 DEF SpawnInv
<1>7. CASE ChunkIsKept(m)
  <2>1. m.kind = "chunk"
    BY <1>7, EditorMsgFacts DEF ChunkIsKept
  <2>2. proc # "none"
    BY <1>4, <2>1 DEF SpawnInv
  <2>3. QED
    BY <1>6, <1>7, <2>2 DEF ChunkIsKept
<1>8. ASSUME NEW sent \in Seq(HostMsgs), ChunkIsDiscarded(m, sent) PROVE SpawnInv'
  <2>1. m.kind = "chunk"
    BY <1>8, EditorMsgFacts DEF ChunkIsDiscarded
  <2>2. proc # "none"
    BY <1>4, <2>1 DEF SpawnInv
  <2>3. Spawn \notin Members(sent)
    BY <1>8, GrantedMembers DEF ChunkIsDiscarded
  <2>4. QED
    BY <1>5, <1>8, <2>2, <2>3 DEF ChunkIsDiscarded
<1>9. CASE SpawnIsAnswered(m)
  BY <1>6, <1>9 DEF SpawnIsAnswered
<1>10. CASE AnswerArrives(m)
  <2>1. UNCHANGED <<finished, out, toHost>>
    BY <1>10 DEF AnswerArrives
  <2>2. Held' = Held
    BY <2>1 DEF Held
  <2>3. QED
    BY <1>6, <2>1, <2>2 DEF SpawnInv
<1>11. QED
  BY <1>1, <1>7, <1>8, <1>9, <1>10

LEMMA SpawnEditorRunsPost ==
  ASSUME Typed, SpawnInv, EditorRunsPost
  PROVE  SpawnInv'
<1>1. PICK m \in RelayPosts :
        \/ PostIsLost(m) \/ PostIsAsked(m)
        \/ \E sent, more \in Seq(HostMsgs) : PostIsGranted(m, sent, more)
  BY EditorRunsPostCases
<1>2. Posted(m)
  BY <1>1 DEF PostIsLost, PostIsAsked, PostIsGranted
<1>3. UNCHANGED <<job, agent, proc, wrote, toEditor, backlog, hostPosts, items, answers, held,
                  finished, read, link, out>>
  BY <1>2 DEF Posted, jobVars, flowVars, procVars
<1>4. Held' = Held
  BY <1>3 DEF Held
<1>5. ASSUME NEW more \in Seq(HostMsgs), toHost' = toHost \o more, Spawn \notin Members(more)
      PROVE  SpawnInv'
  <2>1. /\ \A i \in 1..Len(toHost') : toHost'[i] = Spawn => i = 1
        /\ Spawn \in Members(toHost') => Spawn \in Members(toHost)
        /\ toHost # <<>> => toHost' # <<>> /\ Head(toHost') = Head(toHost)
    BY <1>5, SpawnStaysFirst
  <2>2. QED
    BY <1>3, <1>4, <2>1 DEF SpawnInv
<1>6. CASE PostIsLost(m)
  BY <1>3, <1>4, <1>6 DEF PostIsLost, SpawnInv
<1>7. CASE PostIsAsked(m)
  <2> DEFINE more == <<m>>
  <2>1. m \in HostMsgs /\ m.kind \in {"write", "close"} /\ toHost' = Append(toHost, m)
    BY <1>7 DEF PostIsAsked
  <2>2. m # Spawn
    BY <2>1, HostMsgFacts
  <2>3. more \in Seq(HostMsgs) /\ Members(more) = {m}
    BY <2>1, MembersOne
  <2>4. toHost' = toHost \o more
    <3>1. toHost \in Seq(HostMsgs)
      BY DEF Typed, EditorTyped
    <3>2. Append(toHost, m) = toHost \o <<m>>
      BY <2>1, <3>1, AppendIsConcat
    <3>3. QED
      BY <2>1, <3>2
  <2> HIDE DEF more
  <2>5. QED
    BY <1>5, <2>2, <2>3, <2>4
<1>8. ASSUME NEW sent \in Seq(HostMsgs), NEW more \in Seq(HostMsgs), PostIsGranted(m, sent, more)
      PROVE  SpawnInv'
  <2> DEFINE both == sent \o more
  <2>1. both \in Seq(HostMsgs) /\ Members(both) = Members(sent) \cup Members(more)
    BY MembersOfJoin, ConcatProperties
  <2>2. Spawn \notin Members(sent)
    BY <1>8, GrantedMembers DEF PostIsGranted
  <2>3. Spawn \notin Members(more)
    <3>1. Members(<<Release>>) = {Release} /\ Spawn # Release
      BY HostMsgFacts, MembersOne
    <3>2. QED
      BY <1>8, <3>1, MembersNone DEF PostIsGranted
  <2>4. toHost' = toHost \o both
    <3>1. toHost \in Seq(HostMsgs)
      BY DEF Typed, EditorTyped
    <3>2. (toHost \o sent) \o more = toHost \o (sent \o more)
      <4>1. \A x, y, z \in Seq(HostMsgs) : (x \o y) \o z = x \o (y \o z)
        BY ConcatAssociative, SMTT(30)
      <4>2. sent \in Seq(HostMsgs) /\ more \in Seq(HostMsgs)
        OBVIOUS
      <4>3. QED
        BY <3>1, <4>1, <4>2
    <3>3. QED
      BY <1>8, <3>2 DEF PostIsGranted
  <2> HIDE DEF both
  <2>5. QED
    BY <1>5, <2>1, <2>2, <2>3, <2>4
<1>9. QED
  BY <1>1, <1>6, <1>7, <1>8

LEMMA SpawnAgentSeesEnd ==
  ASSUME Typed, SpawnInv, AgentSeesEnd
  PROVE  SpawnInv'
<1>1. /\ UNCHANGED <<wrote, read, toEditor, finished, link, out>>
      /\ ~agent' /\ toHost' = <<>> /\ hostPosts' = <<>> /\ backlog' = <<>> /\ ~held' /\ ~link
  BY DEF AgentSeesEnd, editorSide, relayVars
<1>2. Held' = Held /\ Members(toHost') = {} /\ Len(toHost') = 0
  BY <1>1, MembersNone DEF Held
<1>3. \/ job = "live" /\ job' = "gone" /\ proc' = "ended" /\ items' = <<>> /\ answers' = <<>>
      \/ job # "live" /\ UNCHANGED <<job, proc, items, answers>>
  BY DEF AgentSeesEnd
<1>4. QED
  BY <1>1, <1>2, <1>3 DEF SpawnInv

LEMMA SpawnThreads ==
  ASSUME Typed, SpawnInv, Process \/ Writer \/ \E fd \in Fds : Reader(fd)
  PROVE  SpawnInv'
<1>1. CASE Process
  <2>1. /\ UNCHANGED <<toHost, job, agent, toEditor, backlog, hostPosts, items, answers, held,
                       finished, read, link, out>>
        /\ proc = "running" /\ proc' # "none"
    BY <1>1 DEF Process, ProcessEnds, ProcessWrites, jobVars, flowVars, editorSide, relayVars
  <2>2. \A fd \in Fds : wrote'[fd] <= MaxOut
    <3>1. \A fd \in Fds : wrote[fd] <= MaxOut
      BY <2>1 DEF SpawnInv
    <3>2. CASE ProcessEnds
      BY <3>1, <3>2 DEF ProcessEnds
    <3>3. ASSUME NEW f \in Fds, ProcessWrites(f) PROVE \A fd \in Fds : wrote'[fd] <= MaxOut
      <4>1. wrote \in [Fds -> 0..MaxOut + 1] /\ MaxOut \in Nat
        BY FdFacts DEF Typed, ProcTyped
      <4>2. wrote[f] \in Nat /\ wrote[f] < MaxOut /\ wrote' = [wrote EXCEPT ![f] = @ + 1]
        BY <3>3, <4>1 DEF ProcessWrites
      <4>3. wrote[f] + 1 <= MaxOut
        BY <4>1, <4>2
      <4>4. QED
        BY <3>1, <4>1, <4>2, <4>3
    <3>4. QED
      BY <1>1, <3>2, <3>3 DEF Process
  <2>3. job # "none"
    BY <2>1 DEF SpawnInv
  <2>4. QED
    BY <2>1, <2>2, <2>3 DEF SpawnInv
<1>2. CASE Writer
  <2>1. /\ UNCHANGED <<toHost, job, agent, wrote, toEditor, backlog, held, finished, read, link, out>>
        /\ job = "live"
    BY <1>2 DEF Writer, flowVars, editorSide, relayVars
  <2>2. proc # "none" /\ agent
    BY <2>1 DEF SpawnInv
  <2>3. proc' # "none"
    BY <1>2, <2>2 DEF Writer, KilledUnlessExited
  <2>4. QED
    BY <2>1, <2>2, <2>3 DEF SpawnInv
<1>3. ASSUME NEW fd \in Fds, Reader(fd) PROVE SpawnInv'
  <2>1. /\ UNCHANGED <<toHost, job, agent, proc, wrote, toEditor, backlog, items, answers, held,
                       finished, link, out>>
        /\ job = "live"
    BY <1>3 DEF Reader, procVars, flowVars, editorSide, relayVars
  <2>2. proc # "none" /\ agent
    BY <2>1 DEF SpawnInv
  <2>3. QED
    BY <2>1, <2>2 DEF SpawnInv
<1>4. QED
  BY <1>1, <1>2, <1>3

LEMMA SpawnStep ==
  ASSUME Typed, DoneIsAsked, SpawnInv, [Next]_vars
  PROVE  SpawnInv'
<1>1. CASE \/ UNCHANGED vars \/ Expire \/ RelayEnds \/ RelayReads \/ RelayReadsEnd
           \/ OwnerWrites \/ CloseInput \/ HangUp
  <2>1. UNCHANGED spawnVars
    BY <1>1 DEF vars, Expire, RelayEnds, RelayReads, RelayReadsEnd, OwnerWrites, CloseInput, HangUp,
                spawnVars, hostSide, editorSide, procVars, jobVars, flowVars, relayVars
  <2>2. Held' = Held
    BY <2>1 DEF spawnVars, Held
  <2>3. QED
    BY <2>1, <2>2 DEF SpawnInv, spawnVars
<1>2. CASE LinkEnds
  <2>1. /\ UNCHANGED <<toHost, job, agent, proc, wrote, backlog, hostPosts, items, answers, held, read, out>>
        /\ toEditor' = <<>> /\ ~link' /\ (finished' = "exit" => finished = "exit")
        /\ (finished # "no" => finished' = finished)
    BY <1>2 DEF LinkEnds, hostSide, procVars, jobVars, flowVars, Finish
  <2>2. Held' = Held /\ Members(toEditor') = {}
    BY <2>1, MembersNone DEF Held
  <2>3. finished' = "exit" \/ finished # "exit"
    BY <2>1
  <2>4. QED
    BY <2>1, <2>2, <2>3 DEF SpawnInv
<1>3. CASE OwnerReleases
  <2>1. /\ UNCHANGED <<toHost, job, agent, proc, wrote, toEditor, backlog, hostPosts, items, answers, held,
                       finished, read, link>>
        /\ Held' = 0
    BY <1>3, HeldNothing DEF OwnerReleases, hostSide, procVars, jobVars, flowVars
  <2>2. QED
    BY <2>1 DEF SpawnInv
<1>4. ASSUME NEW fd \in Fds, Deliver(fd) PROVE SpawnInv'
  <2>1. UNCHANGED <<toHost, job, agent, proc, wrote, toEditor, backlog, hostPosts, items, answers, held,
                    finished, read, link>>
    BY <1>4 DEF Deliver, hostSide, procVars, jobVars, flowVars
  <2>2. Held # 0
    <3>1. out[fd] \in Seq(1..MaxOut + 1) /\ out[fd] # <<>>
      BY <1>4 DEF Deliver, Typed, EditorTyped
    <3>2. Len(out[fd]) \in Nat /\ Len(out[fd]) # 0
      BY <3>1, EmptySeq, LenProperties
    <3>3. Len(out[fd]) <= Held
      BY HeldOfEach DEF Typed
    <3>4. QED
      BY <3>2, <3>3
  <2>3. QED
    BY <2>1, <2>2 DEF SpawnInv
<1>5. QED
  BY <1>1, <1>2, <1>3, <1>4, SpawnThreads, SpawnHostRunsPost, SpawnHostReceives,
     SpawnEditorReceives, SpawnEditorRunsPost, SpawnAgentSeesEnd DEF Next

-----------------------------------------------------------------------------
(* The owner *)

LEMMA OwnerUnchanged ==
  ASSUME OwnerInv, UNCHANGED <<owner, released, toHost, posts, discarding, relay>>
  PROVE  OwnerInv'
BY DEF OwnerInv

LEMMA OwnerHostReceives ==
  ASSUME Typed, OwnerInv, HostReceives
  PROVE  OwnerInv'
<1>1. PICK m \in HostMsgs :
        \/ Spawns(m) \/ SpawnFails(m)
        \/ \E n \in 0..MaxIn : InputIsQueued(m, n) \/ InputIsRefused(m, n)
        \/ JobIsReleased(m) \/ HeardLate(m)
        \/ \E k \in 0..Len(backlog) : LiveCredit(m, k) \/ LateCredit(m, k)
  BY HostReceivesCases
<1>2. Hears(m)
  BY <1>1 DEF Spawns, SpawnFails, InputIsQueued, InputIsRefused, JobIsReleased, HeardLate,
              LiveCredit, LateCredit, CreditArrives
<1>3. /\ UNCHANGED <<owner, posts, discarding, relay>>
      /\ m \in Members(toHost) /\ Members(toHost') \subseteq Members(toHost)
  BY <1>2, MembersTail DEF Hears, relayVars, ownerVars, Typed, EditorTyped
<1>4. owner # "released" => released' = released
  BY <1>1, <1>3 DEF Spawns, SpawnFails, InputIsQueued, InputIsRefused, JobIsReleased, HeardLate,
              LiveCredit, LateCredit, CreditArrives, OwnerInv
<1>5. QED
  BY <1>3, <1>4 DEF OwnerInv

LEMMA OwnerEditorReceives ==
  ASSUME Typed, OwnerInv, EditorReceives
  PROVE  OwnerInv'
<1>1. PICK m \in EditorMsgs :
        \/ ChunkIsKept(m) \/ \E sent \in Seq(HostMsgs) : ChunkIsDiscarded(m, sent)
        \/ SpawnIsAnswered(m) \/ AnswerArrives(m)
  BY EditorReceivesCases
<1>2. Gets(m)
  BY <1>1 DEF ChunkIsKept, ChunkIsDiscarded, SpawnIsAnswered, AnswerArrives
<1>3. UNCHANGED <<owner, released, posts, discarding, relay>>
  BY <1>2 DEF Gets, jobVars, ownerVars
<1>4. ASSUME NEW sent \in Seq(HostMsgs), ChunkIsDiscarded(m, sent) PROVE OwnerInv'
  <2>1. Members(toHost') = Members(toHost) \cup Members(sent)
    BY <1>4, MembersOfJoin DEF ChunkIsDiscarded, Typed, EditorTyped
  <2>2. Release \notin Members(sent)
    BY <1>4, GrantedMembers DEF ChunkIsDiscarded
  <2>3. QED
    BY <1>3, <2>1, <2>2 DEF OwnerInv
<1>5. CASE ChunkIsKept(m) \/ SpawnIsAnswered(m) \/ AnswerArrives(m)
  <2>1. toHost' = toHost
    BY <1>5 DEF ChunkIsKept, SpawnIsAnswered, AnswerArrives
  <2>2. QED
    BY <1>3, <2>1, OwnerUnchanged
<1>6. QED
  BY <1>1, <1>4, <1>5

LEMMA OwnerEditorRunsPost ==
  ASSUME Typed, OwnerInv, EditorRunsPost
  PROVE  OwnerInv'
<1>1. PICK m \in RelayPosts :
        \/ PostIsLost(m) \/ PostIsAsked(m)
        \/ \E sent, more \in Seq(HostMsgs) : PostIsGranted(m, sent, more)
  BY EditorRunsPostCases
<1>2. Posted(m)
  BY <1>1 DEF PostIsLost, PostIsAsked, PostIsGranted
<1>3. /\ UNCHANGED <<owner, released, discarding, relay>>
      /\ m \in Members(posts) /\ Members(posts') \subseteq Members(posts)
  BY <1>2, MembersTail DEF Posted, jobVars, ownerVars, Typed, EditorTyped
<1>4. toHost \in Seq(HostMsgs)
  BY DEF Typed, EditorTyped
<1>5. owner # "released" => m.kind # "releasing" /\ Release \notin Members(toHost)
  BY <1>3 DEF OwnerInv
<1>6. ASSUME owner # "released" => Release \notin Members(toHost') PROVE OwnerInv'
  BY <1>3, <1>6 DEF OwnerInv
<1>7. CASE PostIsLost(m)
  BY <1>5, <1>6, <1>7 DEF PostIsLost
<1>8. CASE PostIsAsked(m)
  <2>1. Members(toHost') = Members(toHost) \cup {m}
    BY <1>4, <1>8, MembersAppend DEF PostIsAsked
  <2>2. m # Release
    BY <1>8, HostMsgFacts DEF PostIsAsked
  <2>3. QED
    BY <1>5, <1>6, <2>1, <2>2
<1>9. ASSUME NEW sent \in Seq(HostMsgs), NEW more \in Seq(HostMsgs), PostIsGranted(m, sent, more)
      PROVE  OwnerInv'
  <2>1. toHost \o sent \in Seq(HostMsgs) /\ Members(toHost \o sent) = Members(toHost) \cup Members(sent)
    BY <1>4, MembersOfJoin, ConcatProperties
  <2>2. Members((toHost \o sent) \o more) = Members(toHost \o sent) \cup Members(more)
    <3> DEFINE q == toHost \o sent
    <3>1. q \in Seq(HostMsgs)
      BY <2>1
    <3> HIDE DEF q
    <3>2. Members(q \o more) = Members(q) \cup Members(more)
      BY <3>1, MembersOfJoin
    <3>3. QED
      BY <3>2 DEF q
  <2>3. Release \notin Members(sent)
    BY <1>9, GrantedMembers DEF PostIsGranted
  <2>4. owner # "released" => Members(more) = {}
    BY <1>5, <1>9, MembersNone DEF PostIsGranted
  <2>5. toHost' = (toHost \o sent) \o more
    BY <1>9 DEF PostIsGranted
  <2>6. QED
    BY <1>5, <1>6, <2>1, <2>2, <2>3, <2>4, <2>5
<1>10. QED
  BY <1>1, <1>7, <1>8, <1>9

LEMMA PostMembers ==
  ASSUME Typed, NEW m \in RelayPosts, posts' = Append(posts, m)
  PROVE  Members(posts') = Members(posts) \cup {m}
BY MembersAppend DEF Typed, EditorTyped

LEMMA OwnerStep ==
  ASSUME Typed, OwnerInv, [Next]_vars
  PROVE  OwnerInv'
<1>1. CASE \/ UNCHANGED vars \/ Process \/ Writer \/ HostRunsPost \/ Expire \/ LinkEnds
           \/ OwnerWrites \/ CloseInput
  <2>1. UNCHANGED <<owner, released, toHost, posts, discarding, relay>>
    BY <1>1 DEF vars, Process, Writer, HostRunsPost, Expire, LinkEnds, OwnerWrites, CloseInput,
                hostSide, editorSide, jobVars, relayVars, ownerVars
  <2>2. QED
    BY <2>1, OwnerUnchanged
<1>2. ASSUME NEW fd \in Fds, Reader(fd) PROVE OwnerInv'
  <2>1. UNCHANGED <<owner, released, toHost, posts, discarding, relay>>
    BY <1>2 DEF Reader, editorSide, relayVars, ownerVars
  <2>2. QED
    BY <2>1, OwnerUnchanged
<1>3. CASE AgentSeesEnd
  <2>1. UNCHANGED <<owner, released, posts, discarding, relay>> /\ Members(toHost') = {}
    BY <1>3, MembersNone DEF AgentSeesEnd, editorSide, relayVars, ownerVars
  <2>2. QED
    BY <2>1 DEF OwnerInv
<1>4. CASE RelayReads \/ RelayReadsEnd
  <2>1. PICK m \in RelayPosts : posts' = Append(posts, m) /\ m.kind \in {"write", "close"}
    <3>1. CASE RelayReads
      <4>1. /\ fetched < typed /\ typed \in 0..MaxIn /\ fetched \in 0..typed /\ MaxIn \in Nat
            /\ posts' = Append(posts, Write(fetched + 1))
        BY <3>1, FdFacts DEF RelayReads, Typed, OwnerTyped
      <4>2. fetched + 1 \in 1..MaxIn
        BY <4>1
      <4>3. QED
        BY <4>1, <4>2, HostMsgFacts
    <3>2. CASE RelayReadsEnd
      BY <3>2, HostMsgFacts DEF RelayReadsEnd
    <3>3. QED
      BY <1>4, <3>1, <3>2
  <2>2. UNCHANGED <<owner, released, toHost, discarding, relay>>
    BY <1>4 DEF RelayReads, RelayReadsEnd, hostSide, jobVars, ownerVars
  <2>3. Members(posts') = Members(posts) \cup {m}
    BY <2>1, PostMembers
  <2>4. QED
    BY <2>1, <2>2, <2>3 DEF OwnerInv
<1>5. ASSUME NEW fd \in Fds, Deliver(fd) PROVE OwnerInv'
  <2>1. UNCHANGED <<owner, released, toHost, relay>> /\ owner # "released"
        /\ (owner = "up" => discarding' = discarding)
    BY <1>5 DEF Deliver, RelayRuns, hostSide, jobVars
  <2>2. PICK n \in Nat : posts' = Append(posts, Granting(n))
    <3>1. Held \in Nat /\ 1 \in Nat
      BY CreditTyped
    <3>2. QED
      BY <1>5, <3>1 DEF Deliver
  <2>3. Granting(n) \in RelayPosts /\ Granting(n).kind # "releasing"
    BY HostMsgFacts
  <2>4. Members(posts') = Members(posts) \cup {Granting(n)}
    BY <2>2, <2>3, PostMembers
  <2>5. QED
    BY <2>1, <2>3, <2>4 DEF OwnerInv
<1>6. CASE RelayEnds
  <2>1. UNCHANGED <<owner, released, toHost, posts, discarding>>
        /\ (owner = "up" => relay' # "dropped") /\ owner # "released"
    BY <1>6 DEF RelayEnds, RelayRuns, hostSide, jobVars, ownerVars
  <2>2. QED
    BY <2>1 DEF OwnerInv
<1>7. CASE HangUp
  <2>1. UNCHANGED <<released, toHost, posts>> /\ owner # "released" /\ owner' # "up"
    BY <1>7 DEF HangUp, hostSide, jobVars
  <2>2. QED
    BY <2>1 DEF OwnerInv
<1>8. CASE OwnerReleases
  BY <1>8 DEF OwnerReleases, OwnerInv
<1>9. QED
  BY <1>1, <1>2, <1>3, <1>4, <1>5, <1>6, <1>7, <1>8, OwnerHostReceives, OwnerEditorReceives,
     OwnerEditorRunsPost DEF Next

-----------------------------------------------------------------------------
(* The answer of the spawn *)

LEMMA FollowOne == \A x : AnswersFollow(<<x>>)
<1> SUFFICES ASSUME NEW x, NEW i \in 1..Len(<<x>>), NEW j \in 1..Len(<<x>>), i < j PROVE FALSE
  BY DEF AnswersFollow
<1>1. Len(<<x>>) = 1
  OBVIOUS
<1>2. QED
  BY <1>1

LEMMA FollowTail ==
  ASSUME NEW q \in Seq(EditorMsgs), q # <<>>, AnswersFollow(q)
  PROVE  /\ AnswersFollow(Tail(q))
         /\ Final(Head(q)) => \A m \in Members(Tail(q)) : m.kind = "answer"
<1> DEFINE t == Tail(q)
<1>1. /\ Len(q) \in Nat /\ Len(t) = Len(q) - 1
      /\ \A i \in 1 .. Len(t) : t[i] = q[i + 1] /\ i + 1 \in 1 .. Len(q)
  BY MembersShrink
<1>2. 1 \in 1..Len(q) /\ Head(q) = q[1]
  BY TailShrinks
<1> HIDE DEF t
<1>3. \A i, j \in 1..Len(t) : i < j => i + 1 < j + 1
  BY <1>1
<1>4. AnswersFollow(t)
  BY <1>1, <1>3 DEF AnswersFollow
<1>5. \A i \in 1..Len(t) : 1 < i + 1
  BY <1>1
<1>6. Final(Head(q)) => \A i \in 1..Len(t) : t[i].kind = "answer"
  BY <1>1, <1>2, <1>5 DEF AnswersFollow
<1>7. Final(Head(q)) => \A m \in Members(t) : m.kind = "answer"
  BY <1>6 DEF Members
<1>8. QED
  BY <1>4, <1>7 DEF t

LEMMA FollowJoin ==
  ASSUME NEW q \in Seq(EditorMsgs), NEW u \in Seq(EditorMsgs), AnswersFollow(q), AnswersFollow(u),
         (\A m \in Members(q) : ~Final(m)) \/ (\A m \in Members(u) : m.kind = "answer")
  PROVE  AnswersFollow(q \o u)
<1> DEFINE t == q \o u
           n == Len(q)
<1>1. /\ Len(t) = n + Len(u) /\ n \in Nat /\ Len(u) \in Nat
      /\ \A i \in 1 .. Len(t) :
           \/ i \in 1 .. n /\ t[i] = q[i]
           \/ i > n /\ i - n \in 1 .. Len(u) /\ t[i] = u[i - n]
  BY MembersJoin
<1> HIDE DEF t
<1>2. SUFFICES ASSUME NEW i \in 1..Len(t), NEW j \in 1..Len(t), Final(t[i]), i < j
               PROVE  t[j].kind = "answer"
  BY DEF AnswersFollow, t
<1>3. CASE j \in 1..n /\ t[j] = q[j]
  <2>1. i \in 1..n /\ t[i] = q[i]
    BY <1>1, <1>2, <1>3
  <2>2. QED
    BY <1>2, <1>3, <2>1 DEF AnswersFollow
<1>4. CASE j > n /\ j - n \in 1 .. Len(u) /\ t[j] = u[j - n]
  <2>1. CASE i \in 1..n /\ t[i] = q[i]
    <3>1. q[i] \in Members(q) /\ u[j - n] \in Members(u)
      BY <1>4, <2>1 DEF Members
    <3>2. QED
      BY <1>2, <1>4, <2>1, <3>1
  <2>2. CASE i > n /\ i - n \in 1 .. Len(u) /\ t[i] = u[i - n]
    <3>1. i - n < j - n
      BY <1>1, <1>2, <1>4, <2>2
    <3>2. QED
      BY <1>2, <1>4, <2>2, <3>1 DEF AnswersFollow
  <2>3. QED
    BY <1>1, <2>1, <2>2
<1>5. QED
  BY <1>1, <1>3, <1>4

LEMMA AnswerUnchanged ==
  ASSUME AnswerInv,
         UNCHANGED <<toEditor, backlog, held, job, exited, stderrDone, finished, link>>,
         proc' = "none" <=> proc = "none"
  PROVE  AnswerInv'
BY DEF AnswerInv, Over

\* What is sent when there was no answer of the spawn yet, or is an answer.
LEMMA AnswerSent ==
  ASSUME Typed, AnswerInv, NEW s \in Seq(EditorMsgs), SendToEditor(s), AnswersFollow(s),
         \/ (\A m \in Members(toEditor) : ~Final(m)) /\ finished # "exit"
         \/ \A m \in Members(s) : m.kind = "answer"
  PROVE  /\ AnswersFollow(toEditor')
         /\ \A m \in Members(toEditor') : m \in Members(toEditor) \/ m \in Members(s)
         /\ \A m \in Members(toEditor') : finished # "no" => m.kind = "answer"
         /\ ~link => toEditor' = <<>>
<1>1. toEditor \in Seq(EditorMsgs) /\ link \in BOOLEAN /\ finished \in {"no", "exit", "lost"}
  BY DEF Typed, EditorTyped
<1>2. AnswersFollow(toEditor')
  <2>1. AnswersFollow(toEditor \o s)
    BY <1>1, FollowJoin DEF AnswerInv
  <2>2. QED
    BY <2>1 DEF SendToEditor, AnswerInv
<1>3. Members(toEditor') \subseteq Members(toEditor) \cup Members(s) /\ (~link => toEditor' = toEditor)
  BY SentMembers
<1>4. ~link => toEditor' = <<>> /\ Members(toEditor') = {}
  BY <1>3, MembersNone DEF AnswerInv
<1>5. link => finished # "lost"
  BY DEF AnswerInv
<1>6. \A m \in Members(toEditor') : finished # "no" => m.kind = "answer"
  BY <1>1, <1>3, <1>4, <1>5 DEF AnswerInv
<1>7. QED
  BY <1>2, <1>3, <1>4, <1>6

LEMMA AnswerHostRunsPost ==
  ASSUME Typed, DoneIsAsked, SpawnInv, AnswerInv, HostRunsPost
  PROVE  AnswerInv'
<1>1. PICK m \in HostPosts :
        \/ PostIsLate(m) \/ OutputIsDropped(m) \/ OutputIsSent(m) \/ OutputWaits(m)
        \/ InputIsAnswered(m) \/ OneIsDone(m) \/ JobIsDone(m)
  BY HostRunsPostCases
<1>2. HostRuns(m)
  BY <1>1 DEF PostIsLate, OutputIsDropped, OutputIsSent, OutputWaits, InputIsAnswered,
              OneIsDone, JobIsDone, OneEnd
<1>3. UNCHANGED <<proc, finished, link>>
  BY <1>2 DEF HostRuns, procVars, relayVars
<1>4. CASE PostIsLate(m) \/ OutputIsDropped(m)
  <2>1. UNCHANGED <<toEditor, backlog, held, job, exited, stderrDone>>
    BY <1>4 DEF PostIsLate, OutputIsDropped, flowVars
  <2>2. QED
    BY <1>3, <2>1, AnswerUnchanged
<1>5. CASE job = "live"
  <2>1. /\ \A x \in Members(toEditor) : ~Final(x)
        /\ ~held /\ finished # "exit"
    BY <1>5 DEF AnswerInv, Over
  <2>2. ASSUME NEW s \in Seq(EditorMsgs), SendToEditor(s), AnswersFollow(s),
               \A x \in Members(s) : x.kind \in {"chunk", "answer"}, ~held'
        PROVE  AnswerInv'
    <3>1. /\ AnswersFollow(toEditor')
          /\ \A x \in Members(toEditor') : x \in Members(toEditor) \/ x \in Members(s)
          /\ \A x \in Members(toEditor') : finished # "no" => x.kind = "answer"
          /\ ~link => toEditor' = <<>>
      BY <2>1, <2>2, AnswerSent
    <3>2. \A x \in Members(toEditor') : ~Final(x)
      BY <2>1, <2>2, <3>1 DEF Final
    <3>3. \A x \in Members(toEditor') : x.kind # "result" /\ x.kind # "spawn failed"
      BY <3>2 DEF Final
    <3>4. QED
      BY <1>3, <2>1, <2>2, <3>1, <3>2, <3>3 DEF AnswerInv
  <2>3. ASSUME toEditor' = toEditor, ~held' PROVE AnswerInv'
    <3>1. \A x \in Members(toEditor) : x.kind # "result" /\ x.kind # "spawn failed"
      BY <2>1 DEF Final
    <3>2. QED
      BY <1>3, <2>1, <2>3, <3>1 DEF AnswerInv
  <2>4. CASE OutputWaits(m) \/ OneIsDone(m)
    <3>1. toEditor' = toEditor /\ held' = held
      BY <2>4 DEF OutputWaits, OneIsDone
    <3>2. QED
      BY <2>1, <2>3, <3>1
  <2>5. ASSUME NEW x \in EditorMsgs, x.kind \in {"chunk", "answer"}, SendToEditor(<<x>>), held' = held
        PROVE  AnswerInv'
    <3> DEFINE s == <<x>>
    <3>1. s \in Seq(EditorMsgs) /\ SendToEditor(s) /\ Members(s) = {x} /\ AnswersFollow(s)
      <4>1. s \in Seq(EditorMsgs) /\ Len(s) = 1 /\ SendToEditor(s)
        BY <2>5
      <4>2. Members(s) = {x}
        BY MembersOne
      <4>3. AnswersFollow(s)
        BY FollowOne
      <4>4. QED
        BY <4>1, <4>2, <4>3
    <3> HIDE DEF s
    <3>2. QED
      BY <2>1, <2>2, <2>5, <3>1
  <2>6. CASE OutputIsSent(m)
    <3>1. m.fd \in Fds /\ m.n \in 1..MaxOut + 1
      BY <2>6, HostPostFacts DEF OutputIsSent
    <3>2. Chunk(m.fd, m.n) \in EditorMsgs /\ Chunk(m.fd, m.n).kind = "chunk"
      BY <3>1, EditorMsgFacts
    <3>3. QED
      BY <2>5, <2>6, <3>2 DEF OutputIsSent
  <2>7. CASE InputIsAnswered(m)
    <3>1. Answer(Head(answers), m.ok) \in EditorMsgs
      BY <2>7, AnswerIsTyped
    <3>2. Answer(Head(answers), m.ok).kind = "answer"
      BY DEF Answer
    <3>3. QED
      BY <2>5, <2>7, <3>1, <3>2 DEF InputIsAnswered, flowVars
  <2>8. CASE JobIsDone(m)
    <3> DEFINE s == LastOnes(~held')
    <3>1. /\ s \in Seq(EditorMsgs) /\ Len(s) \in Nat
          /\ \A i \in 1..Len(s) : s[i].kind = "answer" \/ (~held' /\ i = 1 /\ s[i] = Result)
      BY LastOnesTyped
    <3>2. /\ SendToEditor(s) /\ held' = (backlog # <<>>) /\ backlog' = backlog
          /\ job' = "gone" /\ exited' /\ stderrDone'
      BY <2>8 DEF JobIsDone, OneEnd
    <3> HIDE DEF s
    <3>3. \A i \in 1..Len(s) : Final(s[i]) => i = 1 /\ ~held' /\ s[i].kind # "spawn failed"
      BY <3>1, EditorMsgFacts DEF Final
    <3>4. \A x \in Members(s) : Final(x) => ~held' /\ x.kind # "spawn failed"
      BY <3>3 DEF Members
    <3>5. \A i \in 1..Len(s) : 1 < i => s[i].kind = "answer"
      BY <3>1
    <3>6. AnswersFollow(s)
      BY <3>3, <3>5 DEF AnswersFollow
    <3>7. /\ AnswersFollow(toEditor')
          /\ \A x \in Members(toEditor') : x \in Members(toEditor) \/ x \in Members(s)
          /\ \A x \in Members(toEditor') : finished # "no" => x.kind = "answer"
          /\ ~link => toEditor' = <<>>
      BY <2>1, <3>1, <3>2, <3>6, AnswerSent
    <3>8. Over'
      BY <3>2 DEF Over
    <3>9. \A x \in Members(toEditor') : Final(x) => backlog' = <<>> /\ ~held' /\ job' = "gone"
      BY <2>1, <3>2, <3>4, <3>7
    <3>10. \A x \in Members(toEditor') : x.kind # "spawn failed"
      BY <2>1, <3>4, <3>7 DEF Final
    <3>11. QED
      BY <1>3, <2>1, <3>2, <3>7, <3>8, <3>9, <3>10 DEF AnswerInv
  <2>9. QED
    BY <1>1, <1>4, <2>4, <2>6, <2>7, <2>8
<1>6. CASE job # "live"
  <2>1. PostIsLate(m)
    BY <1>1, <1>6 DEF OutputIsDropped, OutputIsSent, OutputWaits, InputIsAnswered,
              OneIsDone, JobIsDone, OneEnd
  <2>2. QED
    BY <1>4, <2>1
<1>7. QED
  BY <1>5, <1>6

LEMMA AnswerHostReceives ==
  ASSUME Typed, SpawnInv, AnswerInv, HostReceives
  PROVE  AnswerInv'
<1>1. PICK m \in HostMsgs :
        \/ Spawns(m) \/ SpawnFails(m)
        \/ \E n \in 0..MaxIn : InputIsQueued(m, n) \/ InputIsRefused(m, n)
        \/ JobIsReleased(m) \/ HeardLate(m)
        \/ \E k \in 0..Len(backlog) : LiveCredit(m, k) \/ LateCredit(m, k)
  BY HostReceivesCases
<1>2. Hears(m)
  BY <1>1 DEF Spawns, SpawnFails, InputIsQueued, InputIsRefused, JobIsReleased, HeardLate,
              LiveCredit, LateCredit, CreditArrives
<1>3. UNCHANGED <<exited, stderrDone, finished, link>> /\ m \in Members(toHost)
  BY <1>2, MembersTail DEF Hears, relayVars, Typed, EditorTyped
<1>4. m = Spawn => /\ job = "none" /\ proc = "none" /\ toEditor = <<>> /\ backlog = <<>> /\ ~held
                   /\ finished # "exit"
  BY <1>3 DEF SpawnInv
<1>5. CASE Spawns(m)
  <2>1. /\ UNCHANGED <<toEditor, backlog, held>> /\ toEditor = <<>> /\ ~held /\ finished # "exit"
    BY <1>4, <1>5 DEF Spawns, flowVars
  <2>2. Members(toEditor') = {} /\ AnswersFollow(toEditor')
    BY <2>1, MembersNone DEF AnswerInv
  <2>3. QED
    BY <1>3, <2>1, <2>2 DEF AnswerInv
<1>6. ASSUME NEW x \in EditorMsgs
      PROVE  <<x>> \in Seq(EditorMsgs) /\ Members(<<x>>) = {x} /\ AnswersFollow(<<x>>)
  <2> DEFINE s == <<x>>
  <2>1. s \in Seq(EditorMsgs) /\ Len(s) = 1
    OBVIOUS
  <2>2. Members(s) = {x}
    BY MembersOne
  <2>3. AnswersFollow(s)
    BY FollowOne
  <2>4. QED
    BY <2>1, <2>2, <2>3
<1>7. CASE SpawnFails(m)
  <2>1. /\ UNCHANGED <<proc, backlog, held>> /\ proc = "none" /\ toEditor = <<>> /\ backlog = <<>>
        /\ ~held /\ finished # "exit" /\ job' = "gone" /\ SendToEditor(<<SpawnFailed>>)
    BY <1>4, <1>7 DEF SpawnFails, flowVars
  <2> DEFINE s == <<SpawnFailed>>
  <2>2. /\ s \in Seq(EditorMsgs) /\ SendToEditor(s) /\ Members(s) = {SpawnFailed} /\ AnswersFollow(s)
        /\ SpawnFailed.kind = "spawn failed"
    BY <1>6, <2>1, EditorMsgFacts
  <2>3. Members(toEditor) = {}
    BY <2>1, MembersNone
  <2> HIDE DEF s
  <2>4. /\ AnswersFollow(toEditor')
        /\ \A x \in Members(toEditor') : x \in Members(toEditor) \/ x \in Members(s)
        /\ \A x \in Members(toEditor') : finished # "no" => x.kind = "answer"
        /\ ~link => toEditor' = <<>>
    BY <2>1, <2>2, <2>3, AnswerSent
  <2>5. \A x \in Members(toEditor') : x.kind = "spawn failed"
    BY <2>2, <2>3, <2>4
  <2>6. QED
    BY <1>3, <2>1, <2>4, <2>5 DEF AnswerInv
<1>8. proc = "none" <=> proc' = "none" \/ m = Spawn
  BY <1>1, <1>4 DEF Spawns, SpawnFails, InputIsQueued, InputIsRefused, JobIsReleased, HeardLate,
              LiveCredit, LateCredit, CreditArrives
<1>9. ASSUME NEW n \in 0..MaxIn, InputIsQueued(m, n) PROVE AnswerInv'
  BY <1>3, <1>9, AnswerUnchanged DEF InputIsQueued, flowVars
<1>10. CASE JobIsReleased(m) \/ HeardLate(m)
  BY <1>3, <1>10, AnswerUnchanged DEF JobIsReleased, HeardLate, flowVars
<1>11. ASSUME NEW n \in 0..MaxIn, InputIsRefused(m, n) PROVE AnswerInv'
  <2>1. Answer(n, FALSE) \in EditorMsgs
    BY EditorMsgFacts
  <2>2. Answer(n, FALSE).kind = "answer"
    BY DEF Answer
  <2> DEFINE s == <<Answer(n, FALSE)>>
  <2>3. s \in Seq(EditorMsgs) /\ Members(s) = {Answer(n, FALSE)} /\ AnswersFollow(s)
    BY <1>6, <2>1
  <2>4. SendToEditor(s) /\ UNCHANGED <<proc, job, backlog, held>>
    BY <1>11 DEF InputIsRefused, flowVars
  <2> HIDE DEF s
  <2>5. /\ AnswersFollow(toEditor')
        /\ \A x \in Members(toEditor') : x \in Members(toEditor) \/ x \in Members(s)
        /\ \A x \in Members(toEditor') : finished # "no" => x.kind = "answer"
        /\ ~link => toEditor' = <<>>
    BY <2>2, <2>3, <2>4, AnswerSent
  <2>6. \A x \in Members(toEditor') : x \in Members(toEditor) \/ x.kind = "answer"
    BY <2>2, <2>3, <2>5
  <2>7. \A x \in Members(toEditor') : Final(x) => x \in Members(toEditor)
    BY <2>6 DEF Final
  <2>8. QED
    BY <1>3, <2>4, <2>5, <2>6, <2>7 DEF AnswerInv, Over
<1>12. ASSUME NEW k \in 0..Len(backlog), LiveCredit(m, k) \/ LateCredit(m, k) PROVE AnswerInv'
  <2>1. CreditArrives(m, k) /\ UNCHANGED <<proc, job>>
    BY <1>12 DEF LiveCredit, LateCredit, CreditArrives
  <2>2. /\ \A x \in Members(toEditor) : ~Final(x)
        /\ finished # "exit"
    BY <1>12 DEF LiveCredit, LateCredit, AnswerInv, Over
  <2> DEFINE q == SubSeq(backlog, 1, k)
  <2>3. q \in Seq(EditorMsgs) /\ \A x \in Members(q) : x.kind = "chunk"
    <3>1. backlog \in Seq(ChunkMsgs)
      BY DEF Typed, JobTyped
    <3>2. q \in Seq(ChunkMsgs)
      BY <3>1, PartOfQueue
    <3> HIDE DEF q
    <3>3. q \in Seq(EditorMsgs)
      BY <3>2, EditorMsgFacts, WiderQueues
    <3>4. Members(q) \subseteq ChunkMsgs
      BY <3>2, MembersTyped
    <3>5. QED
      BY <3>3, <3>4, EditorMsgFacts
  <2> HIDE DEF q
  <2>4. \A x \in Members(q) : ~Final(x)
    BY <2>3 DEF Final
  <2>5. AnswersFollow(q)
    BY <2>4 DEF AnswersFollow, Members
  <2>6. CASE SendToEditor(q) /\ held' = held /\ ~held
    <3>1. /\ AnswersFollow(toEditor')
          /\ \A x \in Members(toEditor') : x \in Members(toEditor) \/ x \in Members(q)
          /\ \A x \in Members(toEditor') : finished # "no" => x.kind = "answer"
          /\ ~link => toEditor' = <<>>
      BY <2>2, <2>3, <2>5, <2>6, AnswerSent
    <3>2. \A x \in Members(toEditor') : ~Final(x)
      BY <2>2, <2>4, <3>1
    <3>3. \A x \in Members(toEditor') : x.kind # "result" /\ x.kind # "spawn failed"
      BY <3>2 DEF Final
    <3>4. QED
      BY <1>3, <2>2, <2>6, <3>1, <3>2, <3>3 DEF AnswerInv
  <2>7. CASE SendToEditor(q) /\ held' /\ held
    <3>1. /\ AnswersFollow(toEditor')
          /\ \A x \in Members(toEditor') : x \in Members(toEditor) \/ x \in Members(q)
          /\ \A x \in Members(toEditor') : finished # "no" => x.kind = "answer"
          /\ ~link => toEditor' = <<>>
      BY <2>2, <2>3, <2>5, <2>7, AnswerSent
    <3>2. \A x \in Members(toEditor') : ~Final(x)
      BY <2>2, <2>4, <3>1
    <3>3. \A x \in Members(toEditor') : x.kind # "result" /\ x.kind # "spawn failed"
      BY <3>2 DEF Final
    <3>4. Over'
      BY <1>3, <2>1, <2>7 DEF AnswerInv, Over
    <3>5. QED
      BY <1>3, <2>2, <2>7, <3>1, <3>2, <3>3, <3>4 DEF AnswerInv
  <2>8. CASE SendToEditor(q \o <<Result>>) /\ held /\ ~held' /\ backlog' = <<>>
    <3> DEFINE u == <<Result>>
               s == q \o u
    <3>1. u \in Seq(EditorMsgs) /\ Members(u) = {Result} /\ AnswersFollow(u) /\ Result.kind = "result"
      BY <1>6, EditorMsgFacts
    <3>2. s \in Seq(EditorMsgs) /\ SendToEditor(s)
      BY <2>3, <2>8, <3>1, ConcatProperties
    <3> HIDE DEF u
    <3>3. AnswersFollow(s) /\ Members(s) = Members(q) \cup Members(u)
      BY <2>3, <2>4, <2>5, <3>1, FollowJoin, MembersOfJoin
    <3> HIDE DEF s
    <3>4. /\ AnswersFollow(toEditor')
          /\ \A x \in Members(toEditor') : x \in Members(toEditor) \/ x \in Members(s)
          /\ \A x \in Members(toEditor') : finished # "no" => x.kind = "answer"
          /\ ~link => toEditor' = <<>>
      BY <2>2, <3>2, <3>3, AnswerSent
    <3>5. \A x \in Members(toEditor') : ~Final(x) \/ x = Result
      BY <2>2, <2>4, <3>1, <3>3, <3>4
    <3>6. \A x \in Members(toEditor') : x.kind # "spawn failed"
      BY <3>1, <3>5 DEF Final
    <3>7. Over' /\ job' = "gone"
      BY <1>3, <2>1, <2>8 DEF AnswerInv, Over
    <3>8. QED
      BY <1>3, <2>2, <2>8, <3>4, <3>6, <3>7 DEF AnswerInv
  <2>9. CASE LiveCredit(m, k)
    BY <2>6, <2>9 DEF LiveCredit, q
  <2>10. CASE LateCredit(m, k)
    <3>1. held /\ held' = (backlog' # <<>>) /\ SendToEditor(q \o IF backlog' = <<>> THEN <<Result>> ELSE <<>>)
      BY <2>10 DEF LateCredit, q
    <3>2. CASE backlog' = <<>>
      BY <2>8, <3>1, <3>2
    <3>3. CASE backlog' # <<>>
      <4>1. q \o <<>> = q
        BY <2>3, ConcatEmptySeq
      <4>2. QED
        BY <2>7, <3>1, <3>3, <4>1
    <3>4. QED
      BY <3>2, <3>3
  <2>11. QED
    BY <1>12, <2>9, <2>10
<1>13. QED
  BY <1>1, <1>5, <1>7, <1>9, <1>10, <1>11, <1>12

LEMMA AnswerEditorReceives ==
  ASSUME Typed, AnswerInv, EditorReceives
  PROVE  AnswerInv'
<1>1. PICK m \in EditorMsgs :
        \/ ChunkIsKept(m) \/ \E sent \in Seq(HostMsgs) : ChunkIsDiscarded(m, sent)
        \/ SpawnIsAnswered(m) \/ AnswerArrives(m)
  BY EditorReceivesCases
<1>2. Gets(m)
  BY <1>1 DEF ChunkIsKept, ChunkIsDiscarded, SpawnIsAnswered, AnswerArrives
<1>3. /\ UNCHANGED <<job, proc, backlog, held, exited, stderrDone, link>>
      /\ toEditor \in Seq(EditorMsgs) /\ toEditor # <<>> /\ m = Head(toEditor) /\ toEditor' = Tail(toEditor)
      /\ link
  BY <1>2 DEF Gets, jobVars, flowVars, procVars, Typed, EditorTyped, AnswerInv
<1>4. m \in Members(toEditor) /\ Members(toEditor') \subseteq Members(toEditor)
  BY <1>3, MembersTail
<1>5. AnswersFollow(toEditor') /\ (Final(m) => \A x \in Members(toEditor') : x.kind = "answer")
  BY <1>3, FollowTail DEF AnswerInv
<1>6. CASE finished' = finished
  BY <1>3, <1>4, <1>5, <1>6 DEF AnswerInv, Over
<1>7. CASE SpawnIsAnswered(m)
  <2>1. (m.kind = "result" \/ m.kind = "spawn failed") /\ finished' = "exit"
    BY <1>7, EditorMsgFacts DEF SpawnIsAnswered
  <2>2. \A x \in Members(toEditor') : x.kind = "answer"
    BY <1>5, <2>1 DEF Final
  <2>3. job = "gone" /\ backlog = <<>> /\ ~held /\ (Over \/ proc = "none")
    BY <1>4, <2>1 DEF AnswerInv, Final
  <2>4. Over' \/ proc' = "none"
    BY <1>3, <2>3 DEF Over
  <2>5. QED
    BY <1>3, <1>5, <2>1, <2>2, <2>3, <2>4 DEF AnswerInv, Final
<1>8. QED
  BY <1>1, <1>6, <1>7 DEF ChunkIsKept, ChunkIsDiscarded, AnswerArrives

LEMMA AnswerStep ==
  ASSUME Typed, DoneIsAsked, SpawnInv, AnswerInv, [Next]_vars
  PROVE  AnswerInv'
<1>1. CASE \/ UNCHANGED vars \/ EditorRunsPost \/ Expire \/ RelayEnds \/ RelayReads \/ RelayReadsEnd
           \/ OwnerWrites \/ CloseInput \/ HangUp \/ OwnerReleases
  <2>1. UNCHANGED <<toEditor, backlog, held, job, exited, stderrDone, finished, link, proc>>
    BY <1>1 DEF vars, EditorRunsPost, Expire, RelayEnds, RelayReads, RelayReadsEnd, OwnerWrites, CloseInput,
                HangUp, OwnerReleases, hostSide, editorSide, procVars, jobVars, flowVars, relayVars
  <2>2. QED
    BY <2>1, AnswerUnchanged
<1>2. ASSUME NEW fd \in Fds, Reader(fd) \/ Deliver(fd) PROVE AnswerInv'
  <2>1. UNCHANGED <<toEditor, backlog, held, job, exited, stderrDone, finished, link, proc>>
    BY <1>2 DEF Reader, Deliver, hostSide, editorSide, procVars, jobVars, flowVars, relayVars
  <2>2. QED
    BY <2>1, AnswerUnchanged
<1>3. CASE Process \/ Writer
  <2>1. UNCHANGED <<toEditor, backlog, held, job, exited, stderrDone, finished, link>>
    BY <1>3 DEF Process, Writer, jobVars, flowVars, editorSide, relayVars
  <2>2. proc' = "none" <=> proc = "none"
    BY <1>3 DEF Process, ProcessEnds, ProcessWrites, Writer, KilledUnlessExited, SpawnInv
  <2>3. QED
    BY <2>1, <2>2, AnswerUnchanged
<1>4. CASE LinkEnds
  <2>1. /\ UNCHANGED <<backlog, held, job, exited, stderrDone, proc>>
        /\ toEditor' = <<>> /\ ~link' /\ finished' # "no" /\ (finished' = "exit" => finished = "exit")
    BY <1>4 DEF LinkEnds, hostSide, procVars, jobVars, flowVars, Finish
  <2>2. Members(toEditor') = {} /\ Len(toEditor') = 0
    BY <2>1, MembersNone
  <2>3. AnswersFollow(toEditor')
    BY <2>2 DEF AnswersFollow
  <2>4. QED
    BY <2>1, <2>2, <2>3 DEF AnswerInv, Over
<1>5. CASE AgentSeesEnd
  <2>1. /\ UNCHANGED <<toEditor, exited, stderrDone, finished, link>>
        /\ ~held' /\ backlog' = <<>> /\ ~link
    BY <1>5 DEF AgentSeesEnd, editorSide, relayVars
  <2>2. toEditor = <<>> /\ Members(toEditor') = {}
    BY <2>1, MembersNone DEF AnswerInv
  <2>3. finished = "exit" => job' = "gone" /\ proc' = proc
    BY <1>5 DEF AgentSeesEnd, AnswerInv
  <2>4. QED
    BY <2>1, <2>2, <2>3 DEF AnswerInv, Over
<1>6. QED
  BY <1>1, <1>2, <1>3, <1>4, <1>5, AnswerHostRunsPost, AnswerHostReceives, AnswerEditorReceives DEF Next

-----------------------------------------------------------------------------
(* The input *)

LEMMA QueuesNext ==
  ASSUME Typed'
  PROVE  /\ toEditor' \in Seq(Msgs) /\ toHost' \in Seq(Msgs) /\ posts' \in Seq(Msgs)
         /\ items' \in Seq(Msgs) /\ hostPosts' \in Seq(Msgs) /\ backlog' \in Seq(Msgs)
<1>1. /\ Seq(EditorMsgs) \subseteq Seq(Msgs) /\ Seq(HostMsgs) \subseteq Seq(Msgs)
      /\ Seq(RelayPosts) \subseteq Seq(Msgs) /\ Seq(Items) \subseteq Seq(Msgs)
      /\ Seq(HostPosts) \subseteq Seq(Msgs) /\ Seq(ChunkMsgs) \subseteq Seq(Msgs)
  BY EditorMsgFacts, HostMsgFacts, HostPostFacts, WiderQueues
<1>2. QED
  BY <1>1 DEF Typed, JobTyped, EditorTyped

LEMMA InIs ==
  /\ In \in [Msgs -> Nat]
  /\ \A m \in Msgs : In[m] = (IF m.kind \in Input THEN 1 ELSE 0)
BY DEF In

LEMMA InNat ==
  \A q \in Seq(Msgs) : Total(Weights(q, In)) \in Nat
BY InIs, WeightBounds

LEMMA SumFacts ==
  /\ \A a, b, c, d \in Nat : Sum(a, b, c, d) \in Nat
  /\ \A a, b, c, d, a2, b2, c2, d2 \in Nat :
       /\ a2 <= a /\ b2 <= b /\ c2 <= c /\ d2 <= d => Sum(a2, b2, c2, d2) <= Sum(a, b, c, d)
       /\ a = 1 + a2 /\ b2 <= b + 1 /\ c2 <= c /\ d2 <= d => Sum(a2, b2, c2, d2) <= Sum(a, b, c, d)
       /\ a2 <= a /\ b = 1 + b2 /\ c2 <= c + 1 /\ d2 <= d => Sum(a2, b2, c2, d2) <= Sum(a, b, c, d)
       /\ a2 <= a /\ b = 1 + b2 /\ c2 <= c /\ d2 <= d + 1 => Sum(a2, b2, c2, d2) <= Sum(a, b, c, d)
       /\ a2 <= a /\ b2 <= b /\ c2 <= c + 1 /\ d = 1 + d2 => Sum(a2, b2, c2, d2) <= Sum(a, b, c, d)
       /\ a2 <= a /\ b2 <= b /\ c2 <= c + d /\ d2 = 0 => Sum(a2, b2, c2, d2) <= Sum(a, b, c, d)
       /\ a2 <= a /\ b2 <= b /\ c = 1 + c2 /\ d2 <= d => Sum(a2, b2, c2, d2) + 1 <= Sum(a, b, c, d)
       /\ a2 = a + 1 /\ b2 <= b /\ c2 <= c /\ d2 <= d => Sum(a2, b2, c2, d2) <= Sum(a, b, c, d) + 1
BY DEF Sum

LEMMA SumZero ==
  \A a, b, c, d \in Nat :
    /\ Sum(a, b, c, d) <= 0 => a = 0 /\ b = 0 /\ c = 0 /\ d = 0
    /\ Sum(a, b, c, d) <= 1 /\ d >= 1 => a = 0 /\ b = 0 /\ c = 0 /\ d = 1
BY DEF Sum

LEMMA InTyped ==
  ASSUME Typed
  PROVE  /\ InPosts \in Nat /\ InSent \in Nat /\ InAnswers \in Nat /\ InHand \in Nat
         /\ Total(Weights(items, In)) \in Nat /\ Total(Weights(hostPosts, In)) \in Nat
         /\ Count \in Nat /\ Allowed \in {0, 1}
<1>1. /\ InPosts \in Nat /\ InSent \in Nat /\ InAnswers \in Nat
      /\ Total(Weights(items, In)) \in Nat /\ Total(Weights(hostPosts, In)) \in Nat
  BY InNat, QueuesOfMsgs DEF InPosts, InSent, InAnswers
<1>2. InHand \in Nat
  <2>1. \A a, b \in Nat : a + b \in Nat
    OBVIOUS
  <2>2. QED
    BY <1>1, <2>1 DEF InHand
<1>3. QED
  BY <1>1, <1>2, SumFacts DEF Count, Allowed

LEMMA InTypedNext ==
  ASSUME Typed'
  PROVE  /\ InPosts' \in Nat /\ InSent' \in Nat /\ InAnswers' \in Nat /\ InHand' \in Nat
         /\ Total(Weights(items', In)) \in Nat /\ Total(Weights(hostPosts', In)) \in Nat
         /\ Count' \in Nat /\ Allowed' \in {0, 1}
<1>0. \A a, b \in Nat : a + b \in Nat
  OBVIOUS
<1>1. /\ InPosts' \in Nat /\ InSent' \in Nat /\ InAnswers' \in Nat
      /\ Total(Weights(items', In)) \in Nat /\ Total(Weights(hostPosts', In)) \in Nat
  BY InNat, QueuesNext DEF InPosts, InSent, InAnswers
<1>2. InHand' \in Nat
  BY <1>0, <1>1 DEF InHand
<1>3. QED
  BY <1>1, <1>2, SumFacts DEF Count, Allowed

\* A queue whose input comes to nothing has none.
LEMMA WithoutInput ==
  ASSUME NEW q \in Seq(Msgs), Total(Weights(q, In)) = 0
  PROVE  \A m \in Members(q) : m.kind \notin Input
<1>1. \A i \in 1..Len(q) : In[q[i]] <= 0 /\ q[i] \in Msgs
  BY InIs, WeightBounds, ElementOfSeq
<1>2. \A i \in 1..Len(q) : q[i].kind \notin Input
  BY <1>1, InIs
<1>3. QED
  BY <1>2 DEF Members

LEMMA AsksWithout == \A m : m.kind \notin Input => Asks(m)
BY DEF Asks, Input

LEMMA AsksWithoutNext == \A m : m.kind \notin Input => Asks(m)'
BY DEF Asks, Input

LEMMA InputIsAsked ==
  ASSUME Typed, InputInv
  PROVE  DoneIsAsked
<1> SUFFICES ASSUME job = "live", NEW i \in 1..Len(hostPosts), hostPosts[i].kind = "written"
             PROVE  answers # <<>>
  BY DEF DoneIsAsked
<1>1. hostPosts \in Seq(Msgs)
  BY QueuesOfMsgs
<1>2. hostPosts[i] \in Msgs /\ In[hostPosts[i]] <= Total(Weights(hostPosts, In))
  BY <1>1, InIs, WeightBounds, ElementOfSeq
<1>3. In[hostPosts[i]] = 1
  BY <1>2, InIs DEF Input
<1>4. Total(Weights(items, In)) \in Nat /\ Total(Weights(hostPosts, In)) \in Nat
  BY InTyped
<1>5. \A a, b \in Nat : 1 <= b => a + b # 0
  OBVIOUS
<1>6. InHand # 0
  BY <1>2, <1>3, <1>4, <1>5 DEF InHand
<1>7. Len(answers) # 0
  BY <1>6 DEF InputInv
<1>8. QED
  BY <1>7

\* What changes of the counts and of who is asked, when no piece of input moves.
inputVars == <<fetched, input, typed, typing, stdin>>

LEMMA InputKept ==
  ASSUME InputInv, UNCHANGED inputVars, Count' <= Allowed',
         job' = "live" => Len(answers') = InHand',
         job' # "live" => items' = <<>> /\ answers' = <<>>,
         ~inFlight' /\ ~inputDone' => Len(input) = fetched,
         \A m \in Members(posts') \cup Members(toHost') \cup Members(toEditor') : Asks(m),
         job' = "live" => \A m \in Members(items') \cup Members(hostPosts') : Asks(m),
         owner' # "up" => owner # "up"
  PROVE  InputInv'
<1>1. \A m : Asks(m) => Asks(m)'
  BY DEF inputVars, Asks
<1>2. QED
  BY <1>1 DEF InputInv, inputVars

LEMMA InputHead ==
  ASSUME NEW q \in Seq(Msgs), q # <<>>
  PROVE  /\ Total(Weights(q, In)) \in Nat /\ Total(Weights(Tail(q), In)) \in Nat
         /\ Head(q).kind \in Input => Total(Weights(q, In)) = 1 + Total(Weights(Tail(q), In))
         /\ Head(q).kind \notin Input => Total(Weights(Tail(q), In)) = Total(Weights(q, In))
<1>1. Tail(q) \in Seq(Msgs) /\ Head(q) \in Msgs
  BY TailShrinks
<1>2. Total(Weights(q, In)) \in Nat /\ Total(Weights(Tail(q), In)) \in Nat
  BY <1>1, InNat
<1>3. Total(Weights(q, In)) = In[Head(q)] + Total(Weights(Tail(q), In))
  BY InIs, WeightOfTail
<1>4. /\ Head(q).kind \in Input => In[Head(q)] = 1
      /\ Head(q).kind \notin Input => In[Head(q)] = 0
  BY <1>1, InIs
<1>5. QED
  BY <1>2, <1>3, <1>4

LEMMA InputAppend ==
  ASSUME NEW q \in Seq(Msgs), NEW x \in Msgs
  PROVE  /\ Total(Weights(q, In)) \in Nat
         /\ x.kind \in Input => Total(Weights(Append(q, x), In)) = Total(Weights(q, In)) + 1
         /\ x.kind \notin Input => Total(Weights(Append(q, x), In)) = Total(Weights(q, In))
<1>1. Total(Weights(q, In)) \in Nat
  BY InNat
<1>2. Total(Weights(Append(q, x), In)) = Total(Weights(q, In)) + In[x]
  BY InIs, WeightOfAppend
<1>3. /\ x.kind \in Input => In[x] = 1
      /\ x.kind \notin Input => In[x] = 0
  BY InIs
<1>4. QED
  BY <1>1, <1>2, <1>3

LEMMA InputSent ==
  ASSUME Typed, NEW x \in EditorMsgs, SendToEditor(<<x>>)
  PROVE  /\ InAnswers' <= InAnswers + 1
         /\ x.kind \notin Input => InAnswers' <= InAnswers
<1> DEFINE s == <<x>>
<1>0. x \in Msgs /\ In \in [Msgs -> Nat]
  BY EditorMsgFacts, InIs
<1>1. s \in Seq(Msgs) /\ SendToEditor(s) /\ Total(Weights(s, In)) = In[x]
  BY <1>0, WeightOfOne
<1> HIDE DEF s
<1>2. InAnswers' <= InAnswers + In[x] /\ InAnswers' \in Nat
  BY <1>1, InIs, SentWeighs DEF InAnswers
<1>4. /\ x.kind \in Input => In[x] = 1
      /\ x.kind \notin Input => In[x] = 0
  BY <1>0, InIs
<1>5. InAnswers \in Nat
  BY InTyped
<1>6. QED
  BY <1>2, <1>4, <1>5

\* The four places a piece of input goes through: what each step of it adds up to.
LEMMA CountKept ==
  ASSUME Typed, Typed', InputInv, Allowed' = Allowed \/ Allowed' = 1,
         \/ /\ InPosts' <= InPosts /\ InSent' <= InSent
            /\ InAnswers' <= InAnswers /\ InHand' <= InHand
         \/ /\ InPosts = 1 + InPosts' /\ InSent' <= InSent + 1
            /\ InAnswers' <= InAnswers /\ InHand' <= InHand
         \/ /\ InPosts' <= InPosts /\ InSent = 1 + InSent'
            /\ InAnswers' <= InAnswers + 1 /\ InHand' <= InHand
         \/ /\ InPosts' <= InPosts /\ InSent = 1 + InSent'
            /\ InAnswers' <= InAnswers /\ InHand' <= InHand + 1
         \/ /\ InPosts' <= InPosts /\ InSent' <= InSent
            /\ InAnswers' <= InAnswers + 1 /\ InHand = 1 + InHand'
         \/ /\ InPosts' <= InPosts /\ InSent' <= InSent
            /\ InAnswers' <= InAnswers + InHand /\ InHand' = 0
  PROVE  Count' <= Allowed'
<1>1. /\ InPosts \in Nat /\ InSent \in Nat /\ InAnswers \in Nat /\ InHand \in Nat
      /\ InPosts' \in Nat /\ InSent' \in Nat /\ InAnswers' \in Nat /\ InHand' \in Nat
  BY InTyped, InTypedNext
<1>2. Count' <= Count
  BY <1>1, SumFacts DEF Count
<1>3. /\ Count \in Nat /\ Count' \in Nat /\ Allowed \in {0, 1} /\ Allowed' \in {0, 1}
      /\ Count <= Allowed
  BY InTyped, InTypedNext DEF InputInv
<1>4. \A a, b \in Nat, c, d \in {0, 1} : a <= b /\ b <= c /\ (d = c \/ d = 1) => a <= d
  OBVIOUS
<1>5. QED
  BY <1>2, <1>3, <1>4

LEMMA LastOnesWeigh ==
  ASSUME Typed, NEW first \in BOOLEAN
  PROVE  Total(Weights(LastOnes(first), In)) <= Len(answers)
<1> DEFINE a == IF first THEN <<Result>> ELSE <<>>
           b == Refused(answers)
<1>1. answers \in Seq(0..MaxIn) /\ Len(answers) \in Nat
  BY LenProperties DEF Typed, JobTyped
<1>2. b \in Seq(Msgs) /\ Len(b) = Len(answers)
  <2>1. b \in Seq(EditorMsgs) /\ Len(b) = Len(answers)
    BY <1>1, RefusedTyped
  <2>2. QED
    BY <2>1, EditorMsgFacts, WiderQueues
<1>3. Result \in Msgs /\ In[Result] = 0 /\ In \in [Msgs -> Nat]
  <2>1. Result \in Msgs
    BY EditorMsgFacts
  <2>2. Result.kind \notin Input
    BY EditorMsgFacts DEF Input
  <2>3. QED
    BY <2>1, <2>2, InIs
<1>4. a \in Seq(Msgs) /\ Total(Weights(a, In)) = 0
  <2>1. CASE first
    BY <1>3, <2>1, WeightOfOne
  <2>2. CASE ~first
    BY <2>2, WeightsEmpty
  <2>3. QED
    BY <2>1, <2>2
<1>5. LastOnes(first) = a \o b
  BY DEF LastOnes
<1> HIDE DEF a, b
<1>6. Total(Weights(a \o b, In)) = Total(Weights(a, In)) + Total(Weights(b, In))
  BY <1>2, <1>3, <1>4, WeightsJoin
<1>7. Total(Weights(b, In)) <= Len(b) /\ Total(Weights(b, In)) \in Nat
  <2>1. \A i \in 1..Len(b) : In[b[i]] <= 1
    BY <1>2, InIs, ElementOfSeq
  <2>2. QED
    BY <1>2, <1>3, <2>1, WeightBounds
<1>8. QED
  BY <1>1, <1>2, <1>4, <1>5, <1>6, <1>7

LEMMA InputHostRunsPost ==
  ASSUME Typed, Typed', InputInv, HostRunsPost
  PROVE  InputInv'
<1>0. DoneIsAsked
  BY InputIsAsked
<1>1. PICK m \in HostPosts :
        \/ PostIsLate(m) \/ OutputIsDropped(m) \/ OutputIsSent(m) \/ OutputWaits(m)
        \/ InputIsAnswered(m) \/ OneIsDone(m) \/ JobIsDone(m)
  BY <1>0, HostRunsPostCases
<1>2. HostRuns(m)
  BY <1>1 DEF PostIsLate, OutputIsDropped, OutputIsSent, OutputWaits, InputIsAnswered,
              OneIsDone, JobIsDone, OneEnd
<1>3. /\ UNCHANGED inputVars /\ UNCHANGED <<posts, toHost, owner, inFlight, inputDone>>
      /\ hostPosts # <<>> /\ m = Head(hostPosts) /\ hostPosts' = Tail(hostPosts)
  BY <1>2 DEF HostRuns, inputVars, procVars, relayVars, ownerVars
<1>4. InPosts' = InPosts /\ InSent' = InSent /\ Allowed' = Allowed
  BY <1>3 DEF InPosts, InSent, Allowed
<1>5. /\ Total(Weights(items, In)) \in Nat
      /\ Total(Weights(hostPosts, In)) \in Nat /\ Total(Weights(hostPosts', In)) \in Nat
      /\ m.kind \in Input => Total(Weights(hostPosts, In)) = 1 + Total(Weights(hostPosts', In))
      /\ m.kind \notin Input => Total(Weights(hostPosts', In)) = Total(Weights(hostPosts, In))
  <2>1. hostPosts \in Seq(Msgs)
    BY QueuesOfMsgs
  <2>2. QED
    BY <1>3, <2>1, InTyped, InputHead
<1>6. m \in Members(hostPosts) /\ Members(hostPosts') \subseteq Members(hostPosts)
  BY <1>3, MembersTail DEF Typed, JobTyped
<1>7. /\ InPosts \in Nat /\ InSent \in Nat /\ InAnswers \in Nat /\ InHand \in Nat
      /\ InAnswers' \in Nat /\ InHand' \in Nat
  BY InTyped, InTypedNext
<1>8. ASSUME Count' <= Allowed',
             job' = "live" => Len(answers') = InHand' /\ items' = items /\ job = "live",
             job' # "live" => items' = <<>> /\ answers' = <<>>,
             \A x \in Members(toEditor') : x \in Members(toEditor) \/ Asks(x)
      PROVE  InputInv'
  <2>1. \A x \in Members(posts') \cup Members(toHost') \cup Members(toEditor') : Asks(x)
    BY <1>3, <1>8 DEF InputInv
  <2>2. job' = "live" => \A x \in Members(items') \cup Members(hostPosts') : Asks(x)
    BY <1>6, <1>8 DEF InputInv
  <2>3. ~inFlight' /\ ~inputDone' => Len(input) = fetched
    BY <1>3 DEF InputInv
  <2>4. QED
    BY <1>3, <1>8, <2>1, <2>2, <2>3, InputKept
<1>9. CASE PostIsLate(m)
  <2>1. UNCHANGED <<job, items, answers, toEditor>> /\ job # "live"
    BY <1>9 DEF PostIsLate
  <2>2. InAnswers' = InAnswers /\ InHand' = InHand
    BY <2>1 DEF InAnswers, InHand
  <2>3. Count' <= Allowed'
    BY <1>4, <1>7, <2>2, CountKept
  <2>4. QED
    BY <1>8, <2>1, <2>3 DEF InputInv
\* A post that is no input, of a job that goes on.
<1>10. ASSUME UNCHANGED <<job, items, answers>>, job = "live", m.kind \notin Input,
              InAnswers' <= InAnswers, \A x \in Members(toEditor') : x \in Members(toEditor) \/ Asks(x)
       PROVE  InputInv'
  <2>1. InHand' = InHand
    BY <1>5, <1>10 DEF InHand
  <2>2. Count' <= Allowed'
    BY <1>4, <1>7, <1>10, <2>1, CountKept
  <2>3. QED
    BY <1>8, <1>10, <2>1, <2>2 DEF InputInv
<1>11. CASE OutputIsDropped(m) \/ OutputWaits(m) \/ OneIsDone(m)
  <2>1. UNCHANGED <<job, items, answers, toEditor>> /\ job = "live"
    BY <1>11 DEF OutputIsDropped, OutputWaits, OneIsDone, OneEnd
  <2>2. m.kind \notin Input
    BY <1>11, HostPostFacts DEF OutputIsDropped, OutputWaits, OneIsDone, OneEnd, Input
  <2>3. InAnswers' <= InAnswers
    BY <1>7, <2>1 DEF InAnswers
  <2>4. QED
    BY <1>10, <2>1, <2>2, <2>3
<1>12. CASE OutputIsSent(m)
  <2>1. m.fd \in Fds /\ m.n \in 1..MaxOut + 1
    BY <1>12, HostPostFacts DEF OutputIsSent
  <2> DEFINE c == Chunk(m.fd, m.n)
  <2>2. c \in EditorMsgs /\ c.kind = "chunk" /\ SendToEditor(<<c>>)
        /\ UNCHANGED <<job, items, answers>> /\ job = "live"
    BY <1>12, <2>1, EditorMsgFacts DEF OutputIsSent
  <2>3. m.kind \notin Input
    BY <1>12 DEF OutputIsSent, Input
  <2> HIDE DEF c
  <2>4. c.kind \notin Input
    BY <2>2 DEF Input
  <2>5. InAnswers' <= InAnswers
    BY <2>2, <2>4, InputSent
  <2>6. Members(toEditor') \subseteq Members(toEditor) \cup {c}
    BY <2>2, SentOneMembers
  <2>7. Asks(c)
    BY <2>4, AsksWithout
  <2>8. QED
    BY <1>10, <2>2, <2>3, <2>5, <2>6, <2>7
<1>13. CASE InputIsAnswered(m)
  <2> DEFINE c == Answer(Head(answers), m.ok)
  <2>1. answers \in Seq(0..MaxIn) /\ answers # <<>> /\ c \in EditorMsgs /\ m.ok \in BOOLEAN
    BY <1>0, <1>13, AnswerIsTyped
  <2>2. c.kind = "answer" /\ c.ok = m.ok
    BY DEF Answer
  <2>3. /\ SendToEditor(<<c>>) /\ UNCHANGED <<job, items>> /\ job = "live" /\ m.kind = "written"
        /\ answers' = Tail(answers)
    BY <1>13 DEF InputIsAnswered
  <2> HIDE DEF c
  <2>4. InAnswers' <= InAnswers + 1
    BY <2>1, <2>3, InputSent
  <2>5. Members(toEditor') \subseteq Members(toEditor) \cup {c}
    BY <2>1, <2>3, SentOneMembers
  <2>6. Asks(c)
    <3>1. Asks(m)
      BY <1>6, <2>3 DEF InputInv
    <3>2. m.ok => Len(input) = fetched
      BY <2>3, <3>1 DEF Asks
    <3>3. c.kind # "write" /\ c.kind # "close" /\ (c.ok => Len(input) = fetched)
      BY <2>2, <3>2
    <3>4. QED
      BY <3>3 DEF Asks
  <2>7. InHand = 1 + InHand'
    <3>1. Total(Weights(hostPosts, In)) = 1 + Total(Weights(hostPosts', In))
      BY <1>5, <2>3 DEF Input
    <3>2. \A a, b \in Nat : a + (1 + b) = 1 + (a + b)
      OBVIOUS
    <3>3. QED
      BY <1>5, <2>3, <3>1, <3>2 DEF InHand
  <2>8. Count' <= Allowed'
    BY <1>4, <1>7, <2>4, <2>7, CountKept
  <2>9. Len(answers') = InHand'
    <3>1. Len(answers) = InHand
      BY <2>3 DEF InputInv
    <3>2. Len(answers') = Len(answers) - 1
      <4>1. answers \in Seq(0..MaxIn) /\ answers # <<>> /\ answers' = Tail(answers)
        BY <2>1, <2>3
      <4>2. Len(Tail(answers)) = Len(answers) - 1
        BY <4>1, MembersShrink
      <4>3. QED
        BY <4>1, <4>2
    <3>3. Len(answers') = (1 + InHand') - 1
      BY <2>7, <3>1, <3>2
    <3>4. \A d \in Nat : (1 + d) - 1 = d
      OBVIOUS
    <3>5. QED
      BY <1>7, <3>3, <3>4
  <2>10. QED
    BY <1>8, <2>3, <2>5, <2>6, <2>8, <2>9
<1>14. CASE JobIsDone(m)
  <2> DEFINE s == LastOnes(~held')
  <2>1. /\ s \in Seq(EditorMsgs)
        /\ \A i \in 1..Len(s) : (s[i].kind = "answer" /\ s[i].ok = FALSE) \/ s[i] = Result
    BY LastOnesTyped
  <2>2. /\ SendToEditor(s) /\ job' = "gone" /\ items' = <<>> /\ answers' = <<>> /\ job = "live"
    BY <1>14 DEF JobIsDone, OneEnd
  <2>3. Total(Weights(s, In)) <= Len(answers)
    BY LastOnesWeigh
  <2> HIDE DEF s
  <2>4. \A x \in Members(s) : Asks(x)
    <3>1. \A i \in 1..Len(s) : Asks(s[i])
      <4>1. ASSUME NEW i \in 1..Len(s) PROVE Asks(s[i])
        <5>1. CASE s[i].kind = "answer" /\ s[i].ok = FALSE
          <6>1. s[i].kind # "write" /\ s[i].kind # "close" /\ ~s[i].ok
            BY <5>1
          <6>2. QED
            BY <6>1 DEF Asks
        <5>2. CASE s[i] = Result
          <6>1. s[i].kind \notin Input
            BY <5>2, EditorMsgFacts DEF Input
          <6>2. QED
            BY <6>1, AsksWithout
        <5>3. QED
          BY <2>1, <5>1, <5>2
      <4>2. QED
        BY <4>1
    <3>2. QED
      BY <3>1 DEF Members
  <2>5. Members(toEditor') \subseteq Members(toEditor) \cup Members(s)
    BY <2>1, <2>2, SentMembers
  <2>6. InAnswers' <= InAnswers + InHand /\ InHand' = 0
    <3>1. s \in Seq(Msgs)
      BY <2>1, EditorMsgFacts, WiderQueues
    <3>2. InAnswers' <= InAnswers + Total(Weights(s, In)) /\ Total(Weights(s, In)) \in Nat
      BY <2>2, <3>1, InIs, SentWeighs DEF InAnswers
    <3>3. Len(answers) = InHand
      BY <2>2 DEF InputInv
    <3>4. InHand' = 0
      BY <2>2 DEF InHand
    <3>5. QED
      BY <1>7, <2>3, <3>2, <3>3, <3>4
  <2>7. Count' <= Allowed'
    BY <1>4, <1>7, <2>6, CountKept
  <2>8. QED
    BY <1>8, <2>2, <2>4, <2>5, <2>7
<1>15. QED
  BY <1>1, <1>9, <1>11, <1>12, <1>13, <1>14

\* What is sent that is no answer of a write.
LEMMA NoInputSent ==
  ASSUME Typed, NEW s \in Seq(EditorMsgs), SendToEditor(s), \A x \in Members(s) : x.kind \notin Input
  PROVE  /\ InAnswers' <= InAnswers
         /\ \A x \in Members(toEditor') : x \in Members(toEditor) \/ Asks(x)
<1>1. s \in Seq(Msgs)
  BY EditorMsgFacts, WiderQueues
<1>2. \A i \in 1..Len(s) : In[s[i]] = 0
  <2>1. ASSUME NEW i \in 1..Len(s) PROVE In[s[i]] = 0
    <3>1. s[i] \in Msgs /\ s[i] \in Members(s)
      BY <1>1, ElementOfSeq DEF Members
    <3>2. s[i].kind \notin Input
      BY <3>1
    <3>3. QED
      BY <3>1, <3>2, InIs
  <2>2. QED
    BY <2>1
<1>3. Total(Weights(s, In)) = 0
  BY <1>1, <1>2, InIs, WeightOfAlike
<1>4. InAnswers' <= InAnswers
  <2>1. InAnswers' <= InAnswers + Total(Weights(s, In)) /\ InAnswers' \in Nat
    BY <1>1, InIs, SentWeighs DEF InAnswers
  <2>2. InAnswers \in Nat
    BY InTyped
  <2>3. QED
    BY <1>3, <2>1, <2>2
<1>5. Members(toEditor') \subseteq Members(toEditor) \cup Members(s)
  BY SentMembers
<1>6. QED
  BY <1>4, <1>5, AsksWithout

LEMMA CreditSends ==
  ASSUME Typed, NEW m \in HostMsgs, NEW k \in 0..Len(backlog), LiveCredit(m, k) \/ LateCredit(m, k)
  PROVE  \E s \in Seq(EditorMsgs) :
           SendToEditor(s) /\ \A x \in Members(s) : x.kind \in {"chunk", "result"}
<1> DEFINE q == SubSeq(backlog, 1, k)
           r == <<Result>>
<1>1. q \in Seq(ChunkMsgs)
  BY PartOfQueue DEF Typed, JobTyped
<1>2. r \in Seq(EditorMsgs) /\ Members(r) = {Result} /\ Result.kind = "result"
  <2>1. Result \in EditorMsgs /\ Result.kind = "result"
    BY EditorMsgFacts
  <2>2. r \in Seq(EditorMsgs)
    BY <2>1
  <2>3. Members(r) = {Result}
    BY MembersOne
  <2>4. QED
    BY <2>1, <2>2, <2>3
<1>3. \/ SendToEditor(q) \/ SendToEditor(q \o r) \/ SendToEditor(q \o <<>>)
  BY DEF LiveCredit, LateCredit
<1> HIDE DEF q, r
<1>4. q \in Seq(EditorMsgs) /\ q \o <<>> = q /\ q \o r \in Seq(EditorMsgs)
  <2>1. q \in Seq(EditorMsgs)
    BY <1>1, EditorMsgFacts, WiderQueues
  <2>2. QED
    BY <1>2, <2>1, ConcatEmptySeq, ConcatProperties
<1>5. \A x \in Members(q) : x.kind = "chunk"
  <2>1. Members(q) \subseteq ChunkMsgs
    BY <1>1, MembersTyped
  <2>2. QED
    BY <2>1, EditorMsgFacts
<1>6. Members(q \o r) = Members(q) \cup Members(r)
  BY <1>2, <1>4, MembersOfJoin
<1>7. CASE SendToEditor(q)
  BY <1>4, <1>5, <1>7
<1>8. CASE SendToEditor(q \o r)
  <2> DEFINE s == q \o r
  <2>1. s \in Seq(EditorMsgs) /\ SendToEditor(s) /\ Members(s) = Members(q) \cup Members(r)
    BY <1>4, <1>6, <1>8
  <2> HIDE DEF s
  <2>2. QED
    BY <1>2, <1>5, <2>1
<1>9. QED
  BY <1>3, <1>4, <1>7, <1>8

LEMMA InputHostReceives ==
  ASSUME Typed, Typed', SpawnInv, InputInv, HostReceives
  PROVE  InputInv'
<1>1. PICK m \in HostMsgs :
        \/ Spawns(m) \/ SpawnFails(m)
        \/ \E n \in 0..MaxIn : InputIsQueued(m, n) \/ InputIsRefused(m, n)
        \/ JobIsReleased(m) \/ HeardLate(m)
        \/ \E k \in 0..Len(backlog) : LiveCredit(m, k) \/ LateCredit(m, k)
  BY HostReceivesCases
<1>2. Hears(m)
  BY <1>1 DEF Spawns, SpawnFails, InputIsQueued, InputIsRefused, JobIsReleased, HeardLate,
              LiveCredit, LateCredit, CreditArrives
<1>3. /\ UNCHANGED inputVars /\ UNCHANGED <<posts, hostPosts, owner, inFlight, inputDone>>
      /\ toHost # <<>> /\ m = Head(toHost) /\ toHost' = Tail(toHost)
  BY <1>2 DEF Hears, inputVars, relayVars, ownerVars
<1>4. InPosts' = InPosts /\ Allowed' = Allowed
  BY <1>3 DEF InPosts, Allowed
<1>5. /\ m.kind \in Input => InSent = 1 + InSent'
      /\ m.kind \notin Input => InSent' = InSent
  <2>1. toHost \in Seq(Msgs)
    BY QueuesOfMsgs
  <2>2. QED
    BY <1>3, <2>1, InputHead DEF InSent
<1>6. m \in Members(toHost) /\ Members(toHost') \subseteq Members(toHost)
  BY <1>3, MembersTail DEF Typed, EditorTyped
<1>7. /\ InPosts \in Nat /\ InSent \in Nat /\ InAnswers \in Nat /\ InHand \in Nat
      /\ InSent' \in Nat /\ InAnswers' \in Nat /\ InHand' \in Nat
  BY InTyped, InTypedNext
<1>8. ASSUME Count' <= Allowed',
             job' = "live" => Len(answers') = InHand',
             job' # "live" => items' = <<>> /\ answers' = <<>>,
             \A x \in Members(toEditor') : x \in Members(toEditor) \/ Asks(x),
             job' = "live" => \A x \in Members(items') \cup Members(hostPosts) : Asks(x)
      PROVE  InputInv'
  <2>1. \A x \in Members(posts') \cup Members(toHost') \cup Members(toEditor') : Asks(x)
    BY <1>3, <1>6, <1>8 DEF InputInv
  <2>2. ~inFlight' /\ ~inputDone' => Len(input) = fetched
    BY <1>3 DEF InputInv
  <2>3. QED
    BY <1>3, <1>8, <2>1, <2>2, InputKept
<1>9. CASE Spawns(m)
  <2>1. m = Spawn /\ job' = "live" /\ UNCHANGED <<items, answers, toEditor>>
    BY <1>9 DEF Spawns
  <2>2. items = <<>> /\ hostPosts = <<>> /\ answers = <<>>
    BY <1>6, <2>1 DEF SpawnInv
  <2>3. InHand' = 0
    BY <1>3, <2>1, <2>2, WeightsEmpty DEF InHand
  <2>4. m.kind \notin Input
    BY <2>1, HostMsgFacts DEF Input
  <2>5. InAnswers' = InAnswers
    BY <2>1 DEF InAnswers
  <2>6. Count' <= Allowed'
    <3>1. InPosts' <= InPosts /\ InSent' <= InSent /\ InAnswers' <= InAnswers /\ InHand' <= InHand
      BY <1>4, <1>5, <1>7, <2>3, <2>4, <2>5
    <3>2. QED
      BY <1>4, <3>1, CountKept
  <2>7. Members(items') = {} /\ Members(hostPosts) = {} /\ Len(answers') = 0
    BY <2>1, <2>2, MembersNone
  <2>8. QED
    BY <1>8, <2>1, <2>3, <2>6, <2>7
\* A message that is no input, when the job is as it was.
<1>10. ASSUME (job' = "live") = (job = "live"), answers' = answers, m.kind \notin Input,
              Total(Weights(items', In)) = Total(Weights(items, In)),
              job' # "live" => items' = items,
              \A x \in Members(items') : x \in Members(items) \/ Asks(x),
              InAnswers' <= InAnswers,
              \A x \in Members(toEditor') : x \in Members(toEditor) \/ Asks(x)
       PROVE  InputInv'
  <2>1. InHand' = InHand
    BY <1>3, <1>10 DEF InHand
  <2>2. Count' <= Allowed'
    <3>1. InPosts' <= InPosts /\ InSent' <= InSent /\ InAnswers' <= InAnswers /\ InHand' <= InHand
      BY <1>4, <1>5, <1>7, <1>10, <2>1
    <3>2. QED
      BY <1>4, <3>1, CountKept
  <2>3. job' = "live" => \A x \in Members(items') \cup Members(hostPosts) : Asks(x)
    BY <1>10 DEF InputInv
  <2>4. QED
    BY <1>8, <1>10, <2>1, <2>2, <2>3 DEF InputInv
<1>11. CASE SpawnFails(m)
  <2>1. /\ m = Spawn /\ job' = "gone" /\ UNCHANGED <<items, answers>> /\ SendToEditor(<<SpawnFailed>>)
    BY <1>11 DEF SpawnFails
  <2>2. job = "none"
    BY <1>6, <2>1 DEF SpawnInv
  <2>3. m.kind \notin Input /\ SpawnFailed.kind \notin Input /\ SpawnFailed \in EditorMsgs
    BY <2>1, HostMsgFacts, EditorMsgFacts DEF Input
  <2> DEFINE s == <<SpawnFailed>>
  <2>4. s \in Seq(EditorMsgs) /\ Members(s) = {SpawnFailed} /\ SendToEditor(s)
    BY <2>1, <2>3, MembersOne
  <2> HIDE DEF s
  <2>5. /\ InAnswers' <= InAnswers
        /\ \A x \in Members(toEditor') : x \in Members(toEditor) \/ Asks(x)
    BY <2>3, <2>4, NoInputSent
  <2>6. QED
    BY <1>10, <2>1, <2>2, <2>3, <2>5
<1>12. ASSUME NEW n \in 0..MaxIn, InputIsQueued(m, n) PROVE InputInv'
  <2>1. /\ m.kind \in Input /\ job = "live" /\ job' = "live" /\ toEditor' = toEditor
        /\ answers' = Append(answers, n) /\ items' = Append(items, m)
    BY <1>12 DEF InputIsQueued, Asking, Input
  <2>2. InHand' = InHand + 1
    <3>1. items \in Seq(Msgs) /\ m \in Msgs
      BY QueuesOfMsgs, HostMsgFacts
    <3>2. Total(Weights(items', In)) = Total(Weights(items, In)) + 1
      BY <2>1, <3>1, InputAppend
    <3>3. Total(Weights(items, In)) \in Nat /\ Total(Weights(hostPosts, In)) \in Nat
      BY InTyped
    <3>4. \A a, b \in Nat : (a + 1) + b = (a + b) + 1
      OBVIOUS
    <3>5. QED
      BY <1>3, <2>1, <3>2, <3>3, <3>4 DEF InHand
  <2>3. InAnswers' = InAnswers
    BY <2>1 DEF InAnswers
  <2>4. Count' <= Allowed'
    <3>1. /\ InPosts' <= InPosts /\ InSent = 1 + InSent'
          /\ InAnswers' <= InAnswers /\ InHand' <= InHand + 1
      <4>1. \A a, b \in Nat : a = b => a <= b
        OBVIOUS
      <4>2. InSent = 1 + InSent'
        BY <1>5, <2>1
      <4>3. QED
        BY <1>4, <1>7, <4>1, <4>2, <2>1, <2>2, <2>3
    <3>2. QED
      BY <1>4, <3>1, CountKept
  <2>5. Len(answers') = InHand'
    <3>1. Len(answers) = InHand
      BY <2>1 DEF InputInv
    <3>2. Len(Append(answers, n)) = Len(answers) + 1
      BY MembersGrow DEF Typed, JobTyped
    <3>3. QED
      BY <2>1, <2>2, <3>1, <3>2
  <2>6. Members(items') = Members(items) \cup {m}
    <3>1. items \in Seq(Msgs) /\ m \in Msgs
      BY QueuesOfMsgs, HostMsgFacts
    <3>2. QED
      BY <2>1, <3>1, MembersAppend
  <2>7. \A x \in Members(items') \cup Members(hostPosts) : Asks(x)
    BY <1>6, <2>1, <2>6 DEF InputInv
  <2>8. QED
    BY <1>8, <2>1, <2>4, <2>5, <2>7
<1>13. ASSUME NEW n \in 0..MaxIn, InputIsRefused(m, n) PROVE InputInv'
  <2> DEFINE c == Answer(n, FALSE)
  <2>1. /\ m.kind \in Input /\ job # "live" /\ job' = job /\ UNCHANGED <<items, answers>>
        /\ SendToEditor(<<c>>)
    BY <1>13 DEF InputIsRefused, Asking, Input
  <2>2. c \in EditorMsgs
    BY EditorMsgFacts
  <2>3. c.kind = "answer" /\ c.ok = FALSE
    BY DEF Answer
  <2> HIDE DEF c
  <2>4. Asks(c)
    <3>1. c.kind # "write" /\ c.kind # "close" /\ ~c.ok
      BY <2>3
    <3>2. QED
      BY <3>1 DEF Asks
  <2>5. InAnswers' <= InAnswers + 1
    BY <2>1, <2>2, InputSent
  <2>6. Members(toEditor') \subseteq Members(toEditor) \cup {c}
    BY <2>1, <2>2, SentOneMembers
  <2>7. InHand' = InHand
    BY <2>1 DEF InHand
  <2>8. Count' <= Allowed'
    <3>1. /\ InPosts' <= InPosts /\ InSent = 1 + InSent'
          /\ InAnswers' <= InAnswers + 1 /\ InHand' <= InHand
      <4>1. \A a, b \in Nat : a = b => a <= b
        OBVIOUS
      <4>2. InSent = 1 + InSent'
        BY <1>5, <2>1
      <4>3. QED
        BY <1>4, <1>7, <4>1, <4>2, <2>1, <2>5, <2>7
    <3>2. QED
      BY <1>4, <3>1, CountKept
  <2>9. QED
    BY <1>8, <2>1, <2>4, <2>6, <2>8 DEF InputInv
<1>14. CASE JobIsReleased(m)
  <2>1. m = Release /\ UNCHANGED <<job, answers, toEditor>> /\ job = "live" /\ items' = Append(items, Release)
    BY <1>14 DEF JobIsReleased
  <2>2. Release \in Msgs /\ Release.kind \notin Input /\ items \in Seq(Msgs)
    BY HostMsgFacts, QueuesOfMsgs DEF Input
  <2>3. Members(items') = Members(items) \cup {Release}
    BY <2>1, <2>2, MembersAppend
  <2>4. Total(Weights(items', In)) = Total(Weights(items, In))
    BY <2>1, <2>2, InputAppend
  <2>5. InAnswers' <= InAnswers
    BY <1>7, <2>1 DEF InAnswers
  <2>6. \A x \in Members(items') : x \in Members(items) \/ Asks(x)
    BY <2>2, <2>3, AsksWithout
  <2>7. QED
    BY <1>10, <2>1, <2>2, <2>4, <2>5, <2>6
<1>15. CASE HeardLate(m)
  <2>1. UNCHANGED <<job, answers, toEditor, items>>
    BY <1>15 DEF HeardLate
  <2>2. m.kind \notin Input
    BY <1>15, HostMsgFacts DEF HeardLate, Input
  <2>3. InAnswers' <= InAnswers
    BY <1>7, <2>1 DEF InAnswers
  <2>4. QED
    BY <1>10, <2>1, <2>2, <2>3
<1>16. ASSUME NEW k \in 0..Len(backlog), LiveCredit(m, k) \/ LateCredit(m, k) PROVE InputInv'
  <2>1. UNCHANGED <<job, answers, items>> /\ m.kind \notin Input
    BY <1>16 DEF LiveCredit, LateCredit, CreditArrives, Input
  <2>2. PICK s \in Seq(EditorMsgs) :
          SendToEditor(s) /\ \A x \in Members(s) : x.kind \in {"chunk", "result"}
    BY <1>16, CreditSends
  <2>3. \A x \in Members(s) : x.kind \notin Input
    BY <2>2 DEF Input
  <2>4. /\ InAnswers' <= InAnswers
        /\ \A x \in Members(toEditor') : x \in Members(toEditor) \/ Asks(x)
    BY <2>2, <2>3, NoInputSent
  <2>5. QED
    BY <1>10, <2>1, <2>4
<1>17. QED
  BY <1>1, <1>9, <1>11, <1>12, <1>13, <1>14, <1>15, <1>16

\* A queue that is joined by what is no input.
LEMMA NoInputJoins ==
  ASSUME NEW S, S \subseteq Msgs, NEW q \in Seq(S), NEW u \in Seq(S),
         \A x \in Members(u) : x.kind \notin Input
  PROVE  /\ Total(Weights(q \o u, In)) = Total(Weights(q, In))
         /\ \A x \in Members(q \o u) : x \in Members(q) \/ Asks(x)
<1>1. q \in Seq(Msgs) /\ u \in Seq(Msgs) /\ In \in [Msgs -> Nat]
  BY WiderQueues, InIs
<1>2. \A i \in 1..Len(u) : In[u[i]] = 0
  <2>1. ASSUME NEW i \in 1..Len(u) PROVE In[u[i]] = 0
    <3>1. u[i] \in Msgs /\ u[i] \in Members(u)
      BY <1>1, ElementOfSeq DEF Members
    <3>2. u[i].kind \notin Input
      BY <3>1
    <3>3. QED
      BY <3>1, <3>2, InIs
  <2>2. QED
    BY <2>1
<1>3. Total(Weights(u, In)) = 0
  BY <1>1, <1>2, WeightOfAlike
<1>4. Total(Weights(q \o u, In)) = Total(Weights(q, In)) + Total(Weights(u, In))
  BY <1>1, WeightsJoin
<1>5. Total(Weights(q, In)) \in Nat
  BY <1>1, InNat
<1>6. Members(q \o u) = Members(q) \cup Members(u)
  BY MembersOfJoin
<1>7. QED
  BY <1>3, <1>4, <1>5, <1>6, AsksWithout

LEMMA InputEditorReceives ==
  ASSUME Typed, Typed', InputInv, EditorReceives
  PROVE  InputInv'
<1>1. PICK m \in EditorMsgs :
        \/ ChunkIsKept(m) \/ \E sent \in Seq(HostMsgs) : ChunkIsDiscarded(m, sent)
        \/ SpawnIsAnswered(m) \/ AnswerArrives(m)
  BY EditorReceivesCases
<1>2. Gets(m)
  BY <1>1 DEF ChunkIsKept, ChunkIsDiscarded, SpawnIsAnswered, AnswerArrives
<1>3. /\ UNCHANGED inputVars /\ UNCHANGED <<job, items, answers, hostPosts, posts, owner>>
      /\ toEditor # <<>> /\ m = Head(toEditor) /\ toEditor' = Tail(toEditor)
  BY <1>2 DEF Gets, inputVars, procVars, jobVars, ownerVars
<1>4. InPosts' = InPosts /\ InHand' = InHand
  BY <1>3 DEF InPosts, InHand
<1>5. /\ m.kind \in Input => InAnswers = 1 + InAnswers'
      /\ m.kind \notin Input => InAnswers' = InAnswers
  <2>1. toEditor \in Seq(Msgs)
    BY QueuesOfMsgs
  <2>2. QED
    BY <1>3, <2>1, InputHead DEF InAnswers
<1>6. m \in Members(toEditor) /\ Members(toEditor') \subseteq Members(toEditor)
  BY <1>3, MembersTail DEF Typed, EditorTyped
<1>7. /\ InPosts \in Nat /\ InSent \in Nat /\ InAnswers \in Nat /\ InHand \in Nat
      /\ InPosts' \in Nat /\ InSent' \in Nat /\ InAnswers' \in Nat /\ InHand' \in Nat
      /\ Count \in Nat /\ Count' \in Nat /\ Allowed \in {0, 1} /\ Allowed' \in {0, 1}
  BY InTyped, InTypedNext
<1>8. ASSUME Count' <= Allowed', ~inFlight' /\ ~inputDone' => Len(input) = fetched,
             \A x \in Members(toHost') : x \in Members(toHost) \/ Asks(x)
      PROVE  InputInv'
  <2>1. \A x \in Members(posts') \cup Members(toHost') \cup Members(toEditor') : Asks(x)
    BY <1>3, <1>6, <1>8 DEF InputInv
  <2>2. /\ job' = "live" => Len(answers') = InHand'
        /\ job' # "live" => items' = <<>> /\ answers' = <<>>
        /\ job' = "live" => \A x \in Members(items') \cup Members(hostPosts') : Asks(x)
    BY <1>3, <1>4 DEF InputInv
  <2>3. QED
    BY <1>3, <1>8, <2>1, <2>2, InputKept
<1>9. ASSUME m.kind \notin Input, UNCHANGED <<inFlight, inputDone>>, InSent' = InSent,
             \A x \in Members(toHost') : x \in Members(toHost) \/ Asks(x)
      PROVE  InputInv'
  <2>1. Allowed' = Allowed
    BY <1>9 DEF Allowed
  <2>2. InPosts' <= InPosts /\ InSent' <= InSent /\ InAnswers' <= InAnswers /\ InHand' <= InHand
    BY <1>4, <1>5, <1>7, <1>9
  <2>3. Count' <= Allowed'
    BY <2>1, <2>2, CountKept
  <2>4. QED
    BY <1>8, <1>9, <2>3 DEF InputInv
<1>10. CASE ChunkIsKept(m) \/ SpawnIsAnswered(m)
  <2>1. UNCHANGED <<toHost, inFlight, inputDone>> /\ m.kind \notin Input
    BY <1>10, EditorMsgFacts DEF ChunkIsKept, SpawnIsAnswered, Input
  <2>2. InSent' = InSent
    BY <2>1 DEF InSent
  <2>3. QED
    BY <1>9, <2>1, <2>2
<1>11. ASSUME NEW sent \in Seq(HostMsgs), ChunkIsDiscarded(m, sent) PROVE InputInv'
  <2>1. /\ UNCHANGED <<inFlight, inputDone>> /\ m.kind \notin Input /\ toHost' = toHost \o sent
        /\ GrantIs(consumed + 1, 1, sent)
    BY <1>11, EditorMsgFacts DEF ChunkIsDiscarded, Input
  <2>2. \A x \in Members(sent) : x.kind \notin Input
    <3>1. \A x \in Members(sent) : x.kind = "credit"
      BY <2>1, GrantedMembers
    <3>2. QED
      BY <3>1 DEF Input
  <2>3. toHost \in Seq(HostMsgs) /\ HostMsgs \subseteq Msgs
    BY HostMsgFacts DEF Typed, EditorTyped
  <2>4. /\ Total(Weights(toHost', In)) = Total(Weights(toHost, In))
        /\ \A x \in Members(toHost') : x \in Members(toHost) \/ Asks(x)
    BY <2>1, <2>2, <2>3, NoInputJoins
  <2>5. QED
    BY <1>9, <2>1, <2>4 DEF InSent
<1>12. CASE AnswerArrives(m)
  <2>1. m.kind \in Input /\ m.kind = "answer" /\ toHost' = toHost
    BY <1>12 DEF AnswerArrives, Input
  <2>2. Count' + 1 <= Count
    <3>1. InSent' = InSent
      BY <2>1 DEF InSent
    <3>2. InPosts' <= InPosts /\ InSent' <= InSent /\ InHand' <= InHand /\ InAnswers = 1 + InAnswers'
      BY <1>4, <1>5, <1>7, <2>1, <3>1
    <3>3. QED
      BY <1>7, <3>2, SumFacts DEF Count
  <2>3. Count' <= Allowed'
    <3>1. Count <= Allowed
      BY DEF InputInv
    <3> DEFINE P(a, b, c, d) == a + 1 <= b /\ b <= c => a <= d
    <3>2. \A a, b \in Nat, c, d \in {0, 1} : P(a, b, c, d)
      OBVIOUS
    <3> HIDE DEF P
    <3>3. P(Count', Count, Allowed, Allowed')
      BY <1>7, <3>2
    <3>4. QED
      BY <2>2, <3>1, <3>3 DEF P
  <2>4. ~inFlight' /\ ~inputDone' => Len(input) = fetched
    <3>1. CASE UNCHANGED <<inFlight, inputDone>>
      BY <3>1 DEF InputInv
    <3>2. CASE inputDone' = (inputDone \/ ~m.ok)
      <4>1. Asks(m)
        BY <1>6 DEF InputInv
      <4>2. m.ok => Len(input) = fetched
        BY <2>1, <4>1 DEF Asks
      <4>3. QED
        BY <3>2, <4>2
    <3>3. QED
      BY <1>12, <3>1, <3>2 DEF AnswerArrives
  <2>5. QED
    BY <1>8, <2>1, <2>3, <2>4
<1>13. QED
  BY <1>1, <1>10, <1>11, <1>12

LEMMA InputEditorRunsPost ==
  ASSUME Typed, Typed', InputInv, EditorRunsPost
  PROVE  InputInv'
<1>1. PICK m \in RelayPosts :
        \/ PostIsLost(m) \/ PostIsAsked(m)
        \/ \E sent, more \in Seq(HostMsgs) : PostIsGranted(m, sent, more)
  BY EditorRunsPostCases
<1>2. Posted(m)
  BY <1>1 DEF PostIsLost, PostIsAsked, PostIsGranted
<1>3. /\ UNCHANGED inputVars /\ UNCHANGED <<job, items, answers, hostPosts, toEditor, owner>>
      /\ posts # <<>> /\ m = Head(posts) /\ posts' = Tail(posts)
  BY <1>2 DEF Posted, inputVars, procVars, jobVars, ownerVars
<1>4. InAnswers' = InAnswers /\ InHand' = InHand
  BY <1>3 DEF InAnswers, InHand
<1>5. /\ InPosts \in Nat /\ InSent \in Nat /\ InAnswers \in Nat /\ InHand \in Nat
      /\ InPosts' \in Nat /\ InSent' \in Nat
  BY InTyped, InTypedNext
<1>6. /\ m.kind \in Input => InPosts = 1 + InPosts'
      /\ InPosts' <= InPosts
  <2>1. posts \in Seq(Msgs)
    BY QueuesOfMsgs
  <2>2. /\ m.kind \in Input => InPosts = 1 + InPosts'
        /\ m.kind \notin Input => InPosts' = InPosts
    BY <1>3, <2>1, InputHead DEF InPosts
  <2>3. \A a, b \in Nat : a = 1 + b \/ b = a => b <= a
    OBVIOUS
  <2>4. QED
    BY <1>5, <2>2, <2>3
<1>7. m \in Members(posts) /\ Members(posts') \subseteq Members(posts)
  BY <1>3, MembersTail DEF Typed, EditorTyped
<1>8. ASSUME Count' <= Allowed',
             inputDone' \/ UNCHANGED <<inFlight, inputDone>>,
             \A x \in Members(toHost') : x \in Members(toHost) \/ Asks(x)
      PROVE  InputInv'
  <2>1. \A x \in Members(posts') \cup Members(toHost') \cup Members(toEditor') : Asks(x)
    BY <1>3, <1>7, <1>8 DEF InputInv
  <2>2. /\ job' = "live" => Len(answers') = InHand'
        /\ job' # "live" => items' = <<>> /\ answers' = <<>>
        /\ job' = "live" => \A x \in Members(items') \cup Members(hostPosts') : Asks(x)
    BY <1>3, <1>4 DEF InputInv
  <2>3. ~inFlight' /\ ~inputDone' => Len(input) = fetched
    BY <1>8 DEF InputInv
  <2>4. QED
    BY <1>3, <1>8, <2>1, <2>2, <2>3, InputKept
<1>9. CASE PostIsLost(m)
  <2>1. toHost' = toHost /\ (inputDone' \/ UNCHANGED <<inFlight, inputDone>>)
    BY <1>9 DEF PostIsLost
  <2>2. Allowed' = Allowed \/ Allowed' = 1
    BY <2>1 DEF Allowed
  <2>3. InSent' = InSent
    BY <2>1 DEF InSent
  <2>4. InPosts' <= InPosts /\ InSent' <= InSent /\ InAnswers' <= InAnswers /\ InHand' <= InHand
    BY <1>4, <1>5, <1>6, <2>3
  <2>5. Count' <= Allowed'
    BY <2>2, <2>4, CountKept
  <2>6. QED
    BY <1>8, <2>1, <2>5
<1>10. CASE PostIsAsked(m)
  <2>1. /\ m.kind \in Input /\ m \in HostMsgs /\ toHost' = Append(toHost, m)
        /\ UNCHANGED <<inFlight, inputDone>>
    BY <1>10 DEF PostIsAsked, Input
  <2>2. toHost \in Seq(Msgs) /\ m \in Msgs
    BY <2>1, HostMsgFacts, QueuesOfMsgs
  <2>3. Members(toHost') = Members(toHost) \cup {m}
    BY <2>1, <2>2, MembersAppend
  <2>4. InSent' = InSent + 1
    BY <2>1, <2>2, InputAppend DEF InSent
  <2>5. /\ InPosts = 1 + InPosts' /\ InSent' <= InSent + 1
        /\ InAnswers' <= InAnswers /\ InHand' <= InHand
    <3>1. InPosts = 1 + InPosts'
      BY <1>6, <2>1
    <3>2. \A a \in Nat : a + 1 \in Nat /\ a + 1 <= a + 1
      OBVIOUS
    <3>3. InSent' <= InSent + 1
      BY <1>5, <2>4, <3>2
    <3>4. InAnswers' <= InAnswers /\ InHand' <= InHand
      BY <1>4, <1>5
    <3>5. QED
      BY <3>1, <3>3, <3>4
  <2>6. Allowed' = Allowed
    BY <2>1 DEF Allowed
  <2>7. Count' <= Allowed'
    BY <2>5, <2>6, CountKept
  <2>8. Asks(m)
    BY <1>7 DEF InputInv
  <2>9. QED
    BY <1>8, <2>1, <2>3, <2>7, <2>8
<1>11. ASSUME NEW sent \in Seq(HostMsgs), NEW more \in Seq(HostMsgs), PostIsGranted(m, sent, more)
       PROVE  InputInv'
  <2>1. /\ toHost' = (toHost \o sent) \o more /\ UNCHANGED <<inFlight, inputDone>>
        /\ GrantIs(consumed, m.n, sent) /\ (more = <<>> \/ more = <<Release>>)
    BY <1>11 DEF PostIsGranted
  <2>2. \A x \in Members(sent) : x.kind \notin Input
    <3>1. \A x \in Members(sent) : x.kind = "credit"
      BY <2>1, GrantedMembers
    <3>2. QED
      BY <3>1 DEF Input
  <2>3. \A x \in Members(more) : x.kind \notin Input
    <3>1. Members(<<Release>>) = {Release} /\ Members(<<>>) = {}
      BY MembersOne, MembersNone
    <3>2. Release.kind \notin Input
      BY HostMsgFacts DEF Input
    <3>3. QED
      BY <2>1, <3>1, <3>2
  <2>4. toHost \in Seq(HostMsgs) /\ HostMsgs \subseteq Msgs
    BY HostMsgFacts DEF Typed, EditorTyped
  <2> DEFINE q == toHost \o sent
  <2>5. q \in Seq(HostMsgs)
    BY <2>4, ConcatProperties
  <2>6. /\ Total(Weights(q, In)) = Total(Weights(toHost, In))
        /\ \A x \in Members(q) : x \in Members(toHost) \/ Asks(x)
    BY <2>2, <2>4, NoInputJoins
  <2> HIDE DEF q
  <2>7. /\ Total(Weights(q \o more, In)) = Total(Weights(q, In))
        /\ \A x \in Members(q \o more) : x \in Members(q) \/ Asks(x)
    BY <2>3, <2>4, <2>5, NoInputJoins
  <2>8. toHost' = q \o more
    BY <2>1 DEF q
  <2>9. InSent' = InSent
    BY <2>6, <2>7, <2>8 DEF InSent
  <2>10. InPosts' <= InPosts /\ InSent' <= InSent /\ InAnswers' <= InAnswers /\ InHand' <= InHand
    BY <1>4, <1>5, <1>6, <2>9
  <2>11. Allowed' = Allowed
    BY <2>1 DEF Allowed
  <2>12. Count' <= Allowed'
    BY <2>10, <2>11, CountKept
  <2>13. \A x \in Members(toHost') : x \in Members(toHost) \/ Asks(x)
    BY <2>6, <2>7, <2>8
  <2>14. QED
    BY <1>8, <2>1, <2>12, <2>13
<1>12. QED
  BY <1>1, <1>9, <1>10, <1>11

\* The writer's item is all the input there is.
LEMMA OnlyItem ==
  ASSUME Typed, InputInv, job = "live", items # <<>>, Head(items).kind \in Input
  PROVE  /\ Allowed = 1 /\ InPosts = 0 /\ InSent = 0 /\ InAnswers = 0 /\ InHand = 1
         /\ Total(Weights(Tail(items), In)) = 0 /\ Total(Weights(hostPosts, In)) = 0
         /\ \A x \in Members(posts) \cup Members(toHost) \cup Members(toEditor)
                     \cup Members(Tail(items)) \cup Members(hostPosts) : x.kind \notin Input
<1> DEFINE a == Total(Weights(Tail(items), In))
           b == Total(Weights(hostPosts, In))
<1>1. Total(Weights(items, In)) = 1 + a /\ a \in Nat /\ b \in Nat
  <2>1. items \in Seq(Msgs)
    BY QueuesOfMsgs
  <2>2. QED
    BY <2>1, InTyped, InputHead
<1>2. InHand = (1 + a) + b
  BY <1>1 DEF InHand
<1> HIDE DEF a, b
<1>3. InHand \in Nat /\ InHand >= 1
  BY <1>1, <1>2
<1>4. /\ InPosts \in Nat /\ InSent \in Nat /\ InAnswers \in Nat
      /\ Count \in Nat /\ Allowed \in {0, 1} /\ Count <= Allowed
  BY InTyped DEF InputInv
<1>5. Count <= 1
  <2>1. \A x \in Nat, y \in {0, 1} : x <= y => x <= 1
    OBVIOUS
  <2>2. QED
    BY <1>4, <2>1
<1>6. InPosts = 0 /\ InSent = 0 /\ InAnswers = 0 /\ InHand = 1
  BY <1>3, <1>4, <1>5, SumZero DEF Count
<1>7. a = 0 /\ b = 0
  BY <1>1, <1>2, <1>6
<1>8. Allowed = 1
  <2>1. Count = Sum(0, 0, 0, 1)
    BY <1>6 DEF Count
  <2>2. Count = 1
    BY <2>1 DEF Sum
  <2>3. QED
    BY <1>4, <2>2
<1>9. /\ posts \in Seq(Msgs) /\ toHost \in Seq(Msgs) /\ toEditor \in Seq(Msgs)
      /\ Tail(items) \in Seq(Msgs) /\ hostPosts \in Seq(Msgs)
  <2>1. items \in Seq(Msgs)
    BY QueuesOfMsgs
  <2>2. QED
    BY <2>1, QueuesOfMsgs, TailShrinks
<1>10. \A x \in Members(posts) \cup Members(toHost) \cup Members(toEditor) : x.kind \notin Input
  BY <1>6, <1>9, WithoutInput DEF InPosts, InSent, InAnswers
<1>11. \A x \in Members(Tail(items)) \cup Members(hostPosts) : x.kind \notin Input
  BY <1>7, <1>9, WithoutInput DEF a, b
<1>12. QED
  BY <1>6, <1>7, <1>8, <1>10, <1>11 DEF a, b

\* The first item is written, or its pipe is closed.
LEMMA ItemIsDone ==
  ASSUME Typed, Typed', InputInv, job = "live", items # <<>>, Head(items).kind \in Input,
         UNCHANGED <<job, answers, posts, toHost, toEditor, fetched, typed, typing, inFlight, inputDone,
                     owner>>,
         items' = Tail(items),
         NEW ok \in BOOLEAN, hostPosts' = Append(hostPosts, Written(ok)),
         ok => Len(input') = fetched,
         Len(input') <= fetched, \A i \in 1..Len(input') : input'[i] = i,
         stdin' = "closed" => Len(input') = typed /\ ~typing
  PROVE  InputInv'
<1>1. /\ Allowed = 1 /\ InPosts = 0 /\ InSent = 0 /\ InAnswers = 0 /\ InHand = 1
      /\ Total(Weights(Tail(items), In)) = 0 /\ Total(Weights(hostPosts, In)) = 0
      /\ \A x \in Members(posts) \cup Members(toHost) \cup Members(toEditor)
                  \cup Members(Tail(items)) \cup Members(hostPosts) : x.kind \notin Input
  BY OnlyItem
<1>2. Written(ok) \in Msgs /\ Written(ok).kind = "written" /\ hostPosts \in Seq(Msgs)
  BY HostPostFacts, QueuesOfMsgs
<1>3. Members(hostPosts') = Members(hostPosts) \cup {Written(ok)}
  BY <1>2, MembersAppend
<1>4. Total(Weights(hostPosts', In)) = 1
  BY <1>1, <1>2, InputAppend DEF Input
<1>5. InHand' = 1
  BY <1>1, <1>4 DEF InHand
<1>6. InPosts' = 0 /\ InSent' = 0 /\ InAnswers' = 0 /\ Allowed' = 1
  BY <1>1 DEF InPosts, InSent, InAnswers, Allowed
<1>7. Count' <= Allowed'
  <2>1. InPosts' <= InPosts /\ InSent' <= InSent /\ InAnswers' <= InAnswers /\ InHand' <= InHand
    BY <1>1, <1>5, <1>6
  <2>2. QED
    BY <1>6, <2>1, CountKept
<1>8. Asks(Written(ok))'
  <2>1. Written(ok).ok = ok
    BY HostPostFacts
  <2> DEFINE w == Written(ok)
  <2>2. w.kind = "written" /\ w.ok = ok
    BY <1>2, <2>1
  <2> HIDE DEF w
  <2>3. w.kind # "write" /\ w.kind # "close" /\ (w.ok => Len(input') = fetched')
    BY <2>2
  <2>4. Asks(w)'
    BY <2>3 DEF Asks
  <2>5. w = Written(ok)
    BY DEF w
  <2>6. QED
    BY <2>4, <2>5
<1>9. \A x \in Members(posts') \cup Members(toHost') \cup Members(toEditor') : Asks(x)'
  BY <1>1, AsksWithoutNext
<1>10. \A x \in Members(items') \cup Members(hostPosts') : Asks(x)'
  BY <1>1, <1>3, <1>8, AsksWithoutNext
<1>11. ~(~inFlight' /\ ~inputDone')
  BY <1>6 DEF Allowed
<1>12. Len(answers') = InHand'
  BY <1>1, <1>5 DEF InputInv
<1>13. owner' # "up" => ~typing'
  BY DEF InputInv
<1>14. QED
  BY <1>7, <1>9, <1>10, <1>11, <1>12, <1>13 DEF InputInv

LEMMA InputWriter ==
  ASSUME Typed, Typed', InputInv, Writer
  PROVE  InputInv'
<1> DEFINE m == Head(items)
<1>1. /\ job = "live" /\ items # <<>>
      /\ UNCHANGED <<job, answers, posts, toHost, toEditor, fetched, typed, typing, inFlight, inputDone,
                     owner>>
  BY DEF Writer, editorSide, relayVars, ownerVars
<1>2. items \in Seq(Items) /\ m \in Items /\ m \in Members(items) /\ Members(Tail(items)) \subseteq Members(items)
  BY <1>1, TailShrinks, MembersTail DEF Typed, JobTyped
<1>3. Asks(m)
  BY <1>1, <1>2 DEF InputInv
<1>4. input \in Seq(1..MaxIn) /\ Len(input) \in Nat /\ fetched \in Nat
  <2>1. input \in Seq(1..MaxIn) /\ typed \in 0..MaxIn /\ fetched \in 0..typed
    BY DEF Typed, ProcTyped, OwnerTyped
  <2>2. fetched \in Nat
    BY <2>1, FdFacts
  <2>3. QED
    BY <2>1, <2>2, LenProperties
<1>5. CASE m.kind = "write" /\ WriteInput(m.n) /\ items' = Tail(items) /\ UNCHANGED <<proc, stdin>>
  <2>1. m.kind \in Input /\ m.n = fetched /\ Len(input) + 1 = fetched
    BY <1>3, <1>5 DEF Asks, Input
  <2>2. m.n \in 1..MaxIn
    BY <1>2, <1>5, HostMsgFacts
  <2> HIDE DEF m
  <2>3. ASSUME NEW ok \in BOOLEAN, proc = "running", stdin = "open", input' = Append(input, m.n),
               hostPosts' = Append(hostPosts, Written(ok))
        PROVE  InputInv'
    <3> DEFINE t == Append(input, m.n)
    <3>1. /\ Len(t) = Len(input) + 1 /\ t[Len(input) + 1] = m.n
          /\ \A i \in 1..Len(input) : t[i] = input[i]
          /\ \A i \in 1..Len(t) : i \in 1..Len(input) \/ i = Len(input) + 1
      BY <1>4, <2>2, MembersGrow
    <3> HIDE DEF t
    <3>2. Len(t) = fetched /\ Len(t) <= fetched
      BY <1>4, <2>1, <3>1
    <3>3. \A i \in 1..Len(t) : t[i] = i
      BY <2>1, <3>1 DEF InputInv
    <3>4. input' = t
      BY <2>3 DEF t
    <3>5. stdin' # "closed"
      BY <1>5, <2>3
    <3>6. QED
      BY <1>1, <1>5, <2>1, <2>3, <3>2, <3>3, <3>4, <3>5, ItemIsDone DEF m
  <2>4. CASE hostPosts' = Append(hostPosts, Written(FALSE)) /\ UNCHANGED input
    <3>1. /\ Len(input') <= fetched /\ \A i \in 1..Len(input') : input'[i] = i
          /\ stdin' = "closed" => Len(input') = typed /\ ~typing
      BY <1>5, <2>4 DEF InputInv
    <3> DEFINE ok == FALSE
    <3>2. ok \in BOOLEAN /\ ~ok /\ hostPosts' = Append(hostPosts, Written(ok))
      BY <2>4
    <3> HIDE DEF ok
    <3>3. QED
      BY <1>1, <1>5, <2>1, <3>1, <3>2, ItemIsDone DEF m
  <2>5. QED
    BY <1>5, <2>3, <2>4 DEF WriteInput
<1>6. CASE /\ m = CloseStdin /\ stdin' = (IF stdin = "open" THEN "closed" ELSE stdin)
           /\ hostPosts' = Append(hostPosts, Written(TRUE))
           /\ items' = Tail(items) /\ UNCHANGED <<proc, input>>
  <2>1. m.kind = "close"
    BY <1>6, HostMsgFacts
  <2>2. m.kind \in Input /\ Len(input) = typed /\ fetched = typed /\ ~typing
    BY <1>3, <2>1 DEF Asks, Input
  <2>3. /\ Len(input') <= fetched /\ \A i \in 1..Len(input') : input'[i] = i
        /\ stdin' = "closed" => Len(input') = typed /\ ~typing
    BY <1>6, <2>2 DEF InputInv
  <2> DEFINE ok == TRUE
  <2>4. ok \in BOOLEAN /\ Len(input') = fetched /\ hostPosts' = Append(hostPosts, Written(ok))
    BY <1>6, <2>2
  <2> HIDE DEF ok, m
  <2>5. QED
    BY <1>1, <1>6, <2>2, <2>3, <2>4, ItemIsDone DEF m
\* A release, and the time it gives.
<1>7. ASSUME m.kind \notin Input, UNCHANGED <<input, hostPosts>>,
             Total(Weights(items', In)) = Total(Weights(Tail(items), In)),
             \A x \in Members(items') : x \in Members(Tail(items)) \/ Asks(x),
             stdin' = "closed" => stdin = "closed"
      PROVE  InputInv'
  <2>1. Total(Weights(items', In)) = Total(Weights(items, In))
    <3>1. items \in Seq(Msgs)
      BY QueuesOfMsgs
    <3>2. QED
      BY <1>1, <1>7, <3>1, InputHead
  <2>2. InHand' = InHand
    BY <1>1, <1>7, <2>1 DEF InHand
  <2>3. Count' = Count /\ Allowed' = Allowed
    BY <1>1, <2>2 DEF Count, InPosts, InSent, InAnswers, Allowed
  <2>4. \A x : Asks(x) => Asks(x)'
    BY <1>1, <1>7 DEF Asks
  <2>5. \A x \in Members(items') \cup Members(hostPosts') : Asks(x)'
    BY <1>1, <1>2, <1>7, <2>4 DEF InputInv
  <2>6. \A x \in Members(posts') \cup Members(toHost') \cup Members(toEditor') : Asks(x)'
    BY <1>1, <2>4 DEF InputInv
  <2>7. QED
    BY <1>1, <1>7, <2>2, <2>3, <2>5, <2>6 DEF InputInv
<1>8. CASE /\ m = Release /\ stdin' = (IF stdin = "open" THEN "cut" ELSE stdin)
           /\ items' = <<Grace>> \o Tail(items) /\ UNCHANGED <<proc, input, hostPosts>>
  <2> DEFINE u == <<Grace>>
             q == Tail(items)
  <2>1. m.kind \notin Input /\ Grace.kind \notin Input /\ Grace \in Items
    BY <1>8, HostMsgFacts DEF Input
  <2>2. Grace \in Msgs /\ In[Grace] = 0 /\ In \in [Msgs -> Nat]
    <3>1. Grace \in Msgs
      BY <2>1, HostMsgFacts
    <3>2. QED
      BY <2>1, <3>1, InIs
  <2>3. u \in Seq(Msgs) /\ Total(Weights(u, In)) = 0
    BY <2>2, WeightOfOne
  <2>4. Members(u) = {Grace}
    BY MembersOne
  <2>5. q \in Seq(Msgs)
    <3>1. items \in Seq(Msgs)
      BY QueuesOfMsgs
    <3>2. QED
      BY <1>1, <3>1, TailShrinks
  <2>6. items' = u \o q
    BY <1>8
  <2> HIDE DEF u, q
  <2>7. /\ Total(Weights(u \o q, In)) = Total(Weights(u, In)) + Total(Weights(q, In))
        /\ Total(Weights(q, In)) \in Nat
    BY <2>2, <2>3, <2>5, WeightsJoin, InNat
  <2>8. Members(u \o q) = Members(u) \cup Members(q)
    BY <2>3, <2>5, MembersOfJoin
  <2>9. Total(Weights(items', In)) = Total(Weights(q, In))
    BY <2>3, <2>6, <2>7
  <2>10. \A x \in Members(items') : x \in Members(q) \/ Asks(x)
    BY <2>1, <2>4, <2>6, <2>8, AsksWithout
  <2>11. stdin' = "closed" => stdin = "closed"
    BY <1>8
  <2>12. QED
    BY <1>7, <1>8, <2>1, <2>9, <2>10, <2>11 DEF q
<1>9. CASE m = Grace /\ items' = Tail(items) /\ UNCHANGED <<input, stdin, hostPosts>>
  <2>1. m.kind \notin Input
    BY <1>9, HostMsgFacts DEF Input
  <2>2. QED
    BY <1>7, <1>9, <2>1
<1>10. QED
  BY <1>5, <1>6, <1>8, <1>9 DEF Writer

\* The relay reads on when nothing is out, so that this is all there is.
LEMMA RelayAsks ==
  ASSUME Typed, Typed', InputInv, ~inFlight, ~inputDone, inFlight' \/ inputDone',
         UNCHANGED <<job, items, answers, hostPosts, toHost, toEditor, input, typed, typing, stdin, owner>>,
         fetched' = fetched \/ fetched' = fetched + 1,
         NEW m \in RelayPosts, m.kind \in Input, posts' = Append(posts, m), Asks(m)'
  PROVE  InputInv'
<1>1. Allowed = 0 /\ Allowed' = 1
  BY DEF Allowed
<1>2. /\ InPosts \in Nat /\ InSent \in Nat /\ InAnswers \in Nat /\ InHand \in Nat
      /\ Count \in Nat /\ Count <= 0
      /\ Total(Weights(items, In)) \in Nat /\ Total(Weights(hostPosts, In)) \in Nat
  BY <1>1, InTyped DEF InputInv
<1>3. InPosts = 0 /\ InSent = 0 /\ InAnswers = 0 /\ InHand = 0
  BY <1>2, SumZero DEF Count
<1>4. /\ posts \in Seq(Msgs) /\ toHost \in Seq(Msgs) /\ toEditor \in Seq(Msgs)
      /\ items \in Seq(Msgs) /\ hostPosts \in Seq(Msgs) /\ m \in Msgs
  BY QueuesOfMsgs, HostMsgFacts
<1>5. \A x \in Members(posts) \cup Members(toHost) \cup Members(toEditor) : x.kind \notin Input
  BY <1>3, <1>4, WithoutInput DEF InPosts, InSent, InAnswers
<1>6. job = "live" => \A x \in Members(items) \cup Members(hostPosts) : x.kind \notin Input
  <2> SUFFICES ASSUME job = "live" PROVE \A x \in Members(items) \cup Members(hostPosts) : x.kind \notin Input
    OBVIOUS
  <2>1. Total(Weights(items, In)) + Total(Weights(hostPosts, In)) = 0
    BY <1>3 DEF InHand
  <2>2. \A a, b \in Nat : a + b = 0 => a = 0 /\ b = 0
    OBVIOUS
  <2>3. Total(Weights(items, In)) = 0 /\ Total(Weights(hostPosts, In)) = 0
    BY <1>2, <2>1, <2>2
  <2>4. QED
    BY <1>4, <2>3, WithoutInput
<1>7. Members(posts') = Members(posts) \cup {m}
  BY <1>4, MembersAppend
<1>8. InPosts' = 1
  <2>1. Total(Weights(posts', In)) = Total(Weights(posts, In)) + 1
    BY <1>4, InputAppend
  <2>2. QED
    BY <1>3, <2>1 DEF InPosts
<1>9. InSent' = 0 /\ InAnswers' = 0 /\ InHand' = 0
  BY <1>3 DEF InSent, InAnswers, InHand
<1>10. Count' <= Allowed'
  BY <1>1, <1>8, <1>9 DEF Count, Sum
<1>11. \A x \in Members(posts') \cup Members(toHost') \cup Members(toEditor') : Asks(x)'
  BY <1>5, <1>7, AsksWithoutNext
<1>12. job' = "live" => \A x \in Members(items') \cup Members(hostPosts') : Asks(x)'
  BY <1>6, AsksWithoutNext
<1>13. Len(input') <= fetched'
  <2>1. fetched \in Nat /\ Len(input) \in Nat /\ Len(input) <= fetched
    <3>1. input \in Seq(1..MaxIn) /\ typed \in 0..MaxIn /\ fetched \in 0..typed
      BY DEF Typed, ProcTyped, OwnerTyped
    <3>2. fetched \in Nat
      BY <3>1, FdFacts
    <3>3. QED
      BY <3>1, <3>2, LenProperties DEF InputInv
  <2>2. \A a, b, c \in Nat : a <= b /\ (c = b \/ c = b + 1) => a <= c
    OBVIOUS
  <2>3. fetched' \in Nat
    BY <2>1
  <2>4. QED
    BY <2>1, <2>2, <2>3
<1>14. job' = "live" => Len(answers') = InHand'
  BY <1>3, <1>9 DEF InputInv
<1>15. ~(~inFlight' /\ ~inputDone')
  OBVIOUS
<1>16. /\ job' # "live" => items' = <<>> /\ answers' = <<>>
       /\ \A i \in 1..Len(input') : input'[i] = i
       /\ stdin' = "closed" => Len(input') = typed' /\ ~typing'
       /\ owner' # "up" => ~typing'
  BY DEF InputInv
<1>17. QED
  BY <1>10, <1>11, <1>12, <1>13, <1>14, <1>15, <1>16 DEF InputInv

LEMMA InputRelay ==
  ASSUME Typed, Typed', InputInv, RelayReads \/ RelayReadsEnd
  PROVE  InputInv'
<1>1. Len(input) = fetched /\ typed \in 0..MaxIn /\ fetched \in 0..typed /\ fetched \in Nat
  <2>1. typed \in 0..MaxIn /\ fetched \in 0..typed
    BY DEF Typed, OwnerTyped
  <2>2. Len(input) = fetched
    BY DEF RelayReads, RelayReadsEnd, InputInv
  <2>3. QED
    BY <2>1, <2>2, FdFacts
<1>2. CASE RelayReads
  <2>1. fetched + 1 \in 1..MaxIn
    BY <1>1, <1>2, FdFacts DEF RelayReads
  <2>2. PICK m \in RelayPosts : m = Write(fetched + 1) /\ m.kind = "write" /\ m.n = fetched + 1
    BY <2>1, HostMsgFacts
  <2>3. /\ ~inFlight /\ ~inputDone /\ inFlight' /\ fetched' = fetched + 1 /\ posts' = Append(posts, m)
        /\ UNCHANGED <<job, items, answers, hostPosts, toHost, toEditor, input, typed, typing, stdin, owner>>
    BY <1>2, <2>2 DEF RelayReads, hostSide, procVars, jobVars
  <2>4. Asks(m)'
    BY <1>1, <2>2, <2>3 DEF Asks
  <2>5. m.kind \in Input
    BY <2>2 DEF Input
  <2>6. QED
    BY <2>3, <2>4, <2>5, RelayAsks
<1>3. CASE RelayReadsEnd
  <2> DEFINE m == CloseStdin
  <2>1. /\ ~inFlight /\ ~inputDone /\ inputDone' /\ fetched' = fetched /\ posts' = Append(posts, m)
        /\ UNCHANGED <<job, items, answers, hostPosts, toHost, toEditor, input, typed, typing, stdin, owner>>
        /\ fetched = typed /\ ~typing
    BY <1>3 DEF RelayReadsEnd, hostSide, procVars, jobVars, ownerVars
  <2>2. m \in RelayPosts /\ m.kind = "close"
    BY HostMsgFacts
  <2> HIDE DEF m
  <2>3. Asks(m)'
    BY <1>1, <2>1, <2>2 DEF Asks
  <2>4. m.kind \in Input
    BY <2>2 DEF Input
  <2>5. QED
    BY <2>1, <2>2, <2>3, <2>4, RelayAsks
<1>4. QED
  BY <1>2, <1>3

\* The queues are as they were.
LEMMA InputStays ==
  ASSUME InputInv,
         UNCHANGED <<job, items, answers, hostPosts, posts, toHost, toEditor, inFlight, inputDone,
                     fetched, input, stdin>>,
         \A m : Asks(m) => Asks(m)',
         stdin = "closed" => typed' = typed /\ ~typing', owner' # "up" => ~typing'
  PROVE  InputInv'
<1>1. UNCHANGED <<InPosts, InSent, InAnswers, InHand>>
  BY DEF InPosts, InSent, InAnswers, InHand
<1>2. Count' = Count /\ Allowed' = Allowed
  BY <1>1 DEF Count, Allowed
<1>3. QED
  BY <1>1, <1>2 DEF InputInv

LEMMA InputOwner ==
  ASSUME Typed, InputInv, OwnerWrites \/ CloseInput \/ HangUp \/ RelayEnds \/ Process \/ UNCHANGED vars
  PROVE  InputInv'
<1>1. UNCHANGED <<job, items, answers, hostPosts, posts, toHost, toEditor, inFlight, inputDone,
                  fetched, input, stdin>>
  BY DEF OwnerWrites, CloseInput, HangUp, RelayEnds, Process, ProcessEnds, ProcessWrites, vars, hostSide,
         editorSide, procVars, jobVars, relayVars, ownerVars
<1>2. CASE OwnerWrites
  <2>1. typing /\ owner = "up" /\ owner' = owner
    BY <1>2 DEF OwnerWrites
  <2>2. stdin # "closed"
    BY <2>1 DEF InputInv
  <2>3. \A m : Asks(m) => Asks(m)'
    BY <1>1, <2>1 DEF Asks
  <2>4. QED
    BY <1>1, <2>1, <2>2, <2>3, InputStays
<1>3. CASE ~OwnerWrites
  <2>1. typed' = typed /\ (typing' = typing \/ ~typing') /\ (owner' = owner \/ ~typing')
    BY <1>3 DEF CloseInput, HangUp, RelayEnds, Process, vars, editorSide, ownerVars
  <2>2. \A m : Asks(m) => Asks(m)'
    BY <1>1, <2>1 DEF Asks
  <2>3. QED
    BY <1>1, <2>1, <2>2, InputStays DEF InputInv
<1>4. QED
  BY <1>2, <1>3

LEMMA InputLost ==
  ASSUME Typed, Typed', InputInv, Expire \/ LinkEnds \/ AgentSeesEnd
  PROVE  InputInv'
<1>1. UNCHANGED inputVars /\ UNCHANGED <<posts, owner>>
  BY DEF Expire, LinkEnds, AgentSeesEnd, hostSide, editorSide, procVars, ownerVars, inputVars
<1>2. /\ InPosts \in Nat /\ InSent \in Nat /\ InAnswers \in Nat /\ InHand \in Nat
  BY InTyped
<1>3. inputDone' \/ UNCHANGED <<inFlight, inputDone>>
  BY DEF Expire, LinkEnds, AgentSeesEnd, WriteAnswered, editorSide, relayVars
<1>4. Allowed' = Allowed \/ Allowed' = 1
  BY <1>3 DEF Allowed
<1>5. InPosts' = InPosts
  BY <1>1 DEF InPosts
<1>6. /\ toHost' = toHost \/ toHost' = <<>>
      /\ toEditor' = toEditor \/ toEditor' = <<>>
  BY DEF Expire, LinkEnds, AgentSeesEnd, hostSide, editorSide
<1>7. InSent' <= InSent /\ InAnswers' <= InAnswers
  BY <1>2, <1>6, WeightsEmpty DEF InSent, InAnswers
<1>8. \/ UNCHANGED <<job, items, answers, hostPosts>>
      \/ job' # "live" /\ items' = <<>> /\ answers' = <<>>
  BY DEF Expire, LinkEnds, AgentSeesEnd, hostSide, jobVars, InputInv
<1>9. InHand' <= InHand /\ (job' = "live" => Len(answers') = InHand')
  BY <1>2, <1>8 DEF InHand, InputInv
<1>10. Count' <= Allowed'
  <2>1. InPosts' <= InPosts
    BY <1>2, <1>5
  <2>2. QED
    BY <1>4, <1>7, <1>9, <2>1, CountKept
<1>11. \A m \in Members(posts') \cup Members(toHost') \cup Members(toEditor') : Asks(m)
  BY <1>1, <1>6, MembersNone DEF InputInv
<1>12. /\ job' = "live" => \A m \in Members(items') \cup Members(hostPosts') : Asks(m)
       /\ job' # "live" => items' = <<>> /\ answers' = <<>>
  BY <1>8 DEF InputInv
<1>13. ~inFlight' /\ ~inputDone' => Len(input) = fetched
  BY <1>3 DEF InputInv
<1>14. QED
  BY <1>1, <1>9, <1>10, <1>11, <1>12, <1>13, InputKept

\* A post that is no input.
LEMMA InputPosts ==
  ASSUME Typed, Typed', InputInv, OwnerReleases \/ \E fd \in Fds : Reader(fd) \/ Deliver(fd)
  PROVE  InputInv'
<1>1. UNCHANGED inputVars
      /\ UNCHANGED <<job, items, answers, toHost, toEditor, inFlight, inputDone>>
      /\ (owner' # "up" => owner # "up")
  BY DEF OwnerReleases, Reader, Deliver, inputVars, hostSide, editorSide, procVars, jobVars, relayVars, ownerVars
<1>2. /\ InPosts \in Nat /\ InSent \in Nat /\ InAnswers \in Nat /\ InHand \in Nat
      /\ posts \in Seq(Msgs) /\ hostPosts \in Seq(Msgs)
  BY InTyped, QueuesOfMsgs
<1>3. InSent' = InSent /\ InAnswers' = InAnswers /\ Allowed' = Allowed
  BY <1>1 DEF InSent, InAnswers, Allowed
<1>4. ASSUME NEW m \in Msgs, m.kind \notin Input,
             \/ posts' = Append(posts, m) /\ hostPosts' = hostPosts
             \/ hostPosts' = Append(hostPosts, m) /\ posts' = posts
      PROVE  InputInv'
  <2>1. /\ Total(Weights(posts', In)) = Total(Weights(posts, In))
        /\ Total(Weights(hostPosts', In)) = Total(Weights(hostPosts, In))
    BY <1>2, <1>4, InputAppend
  <2>2. InPosts' = InPosts /\ InHand' = InHand
    BY <1>1, <2>1 DEF InPosts, InHand
  <2>3. InPosts' <= InPosts /\ InSent' <= InSent /\ InAnswers' <= InAnswers /\ InHand' <= InHand
    BY <1>2, <1>3, <2>2
  <2>4. Count' <= Allowed'
    BY <1>3, <2>3, CountKept
  <2>5. /\ Members(posts') \subseteq Members(posts) \cup {m}
        /\ Members(hostPosts') \subseteq Members(hostPosts) \cup {m}
    <3>1. CASE posts' = Append(posts, m) /\ hostPosts' = hostPosts
      <4>1. Members(Append(posts, m)) = Members(posts) \cup {m}
        BY <1>2, <1>4, MembersAppend, SMTT(30)
      <4>2. QED
        BY <3>1, <4>1
    <3>2. CASE hostPosts' = Append(hostPosts, m) /\ posts' = posts
      <4>1. Members(Append(hostPosts, m)) = Members(hostPosts) \cup {m}
        BY <1>2, <1>4, MembersAppend, SMTT(30)
      <4>2. QED
        BY <3>2, <4>1
    <3>3. QED
      BY <1>4, <3>1, <3>2
  <2>6. Asks(m)
    BY <1>4, AsksWithout
  <2>7. \A x \in Members(posts') \cup Members(toHost') \cup Members(toEditor') : Asks(x)
    BY <1>1, <2>5, <2>6 DEF InputInv
  <2>8. job' = "live" => \A x \in Members(items') \cup Members(hostPosts') : Asks(x)
    BY <1>1, <2>5, <2>6 DEF InputInv
  <2>9. /\ job' = "live" => Len(answers') = InHand'
        /\ job' # "live" => items' = <<>> /\ answers' = <<>>
        /\ ~inFlight' /\ ~inputDone' => Len(input) = fetched
    BY <1>1, <2>2 DEF InputInv
  <2>10. QED
    BY <1>1, <2>4, <2>7, <2>8, <2>9, InputKept
<1>5. CASE OwnerReleases
  <2> DEFINE n == Unread
  <2>1. n \in Nat
    BY HeldNat DEF Unread, Typed
  <2>2. posts' = Append(posts, Releasing(n)) /\ hostPosts' = hostPosts
    BY <1>5 DEF OwnerReleases, hostSide
  <2> HIDE DEF n
  <2>3. Releasing(n) \in Msgs /\ Releasing(n).kind \notin Input
    BY <2>1, HostMsgFacts DEF Input
  <2>4. QED
    BY <1>4, <2>2, <2>3
<1>6. ASSUME NEW fd \in Fds, Deliver(fd) PROVE InputInv'
  <2>1. PICK n \in Nat : posts' = Append(posts, Granting(n))
    <3>1. Held \in Nat
      BY HeldNat DEF Typed
    <3>2. QED
      BY <1>6, <3>1 DEF Deliver
  <2>2. hostPosts' = hostPosts
    BY <1>6 DEF Deliver, hostSide
  <2>3. Granting(n) \in Msgs /\ Granting(n).kind \notin Input
    BY HostMsgFacts DEF Input
  <2>4. QED
    BY <1>4, <2>1, <2>2, <2>3
<1>7. ASSUME NEW fd \in Fds, Reader(fd) PROVE InputInv'
  <2>1. posts' = posts
    BY <1>7 DEF Reader, editorSide
  <2>2. PICK m \in HostPosts : hostPosts' = Append(hostPosts, m) /\ m.kind \notin Input
    <3>1. CASE read[fd] < wrote[fd] /\ hostPosts' = Append(hostPosts, Output(fd, read[fd] + 1))
      <4>1. /\ Output(fd, read[fd] + 1).kind = "output"
        BY DEF Output
      <4>2. Output(fd, read[fd] + 1) \in HostPosts
        <5>1. read[fd] \in 0..MaxOut + 1 /\ wrote[fd] \in 0..MaxOut + 1 /\ MaxOut \in Nat
          BY FdFacts DEF Typed, JobTyped, ProcTyped
        <5>2. read[fd] + 1 \in 1..MaxOut + 1
          BY <3>1, <5>1
        <5>3. QED
          BY <5>2, HostPostFacts
      <4>3. QED
        BY <3>1, <4>1, <4>2 DEF Input
    <3>2. CASE hostPosts' = Append(hostPosts, IF fd = 1 THEN Exited ELSE StderrDone)
      BY <3>2, HostPostFacts DEF Input
    <3>3. QED
      BY <1>7, <3>1, <3>2 DEF Reader
  <2>3. m \in Msgs
    BY HostPostFacts
  <2>4. QED
    BY <1>4, <2>1, <2>2, <2>3
<1>8. QED
  BY <1>5, <1>6, <1>7

LEMMA InputInit ==
  ASSUME Init
  PROVE  InputInv
<1>1. /\ posts = <<>> /\ toHost = <<Spawn>> /\ toEditor = <<>> /\ items = <<>> /\ answers = <<>>
      /\ hostPosts = <<>> /\ job = "none" /\ inFlight = FALSE /\ inputDone = FALSE /\ input = <<>>
      /\ fetched = 0 /\ stdin = "open" /\ owner = "up"
  BY DEF Init
<1>2. Spawn \in Msgs /\ Spawn.kind \notin Input
  BY HostMsgFacts DEF Input
<1>3. Total(Weights(<<Spawn>>, In)) = 0
  BY <1>2, InIs, WeightOfOne
<1>4. InPosts = 0 /\ InSent = 0 /\ InAnswers = 0 /\ InHand = 0
  BY <1>1, <1>3, WeightsEmpty DEF InPosts, InSent, InAnswers, InHand
<1>5. Count = 0 /\ Allowed = 0
  BY <1>1, <1>4 DEF Count, Sum, Allowed
<1>6. Members(<<Spawn>>) = {Spawn} /\ Members(<<>>) = {}
  BY MembersOne, MembersNone
<1>7. \A m \in Members(posts) \cup Members(toHost) \cup Members(toEditor) : Asks(m)
  BY <1>1, <1>2, <1>6, AsksWithout
<1>8. Len(input) = 0
  BY <1>1
<1>9. QED
  BY <1>1, <1>5, <1>7, <1>8 DEF InputInv

LEMMA InputStep ==
  ASSUME Typed, Typed', SpawnInv, InputInv, [Next]_vars
  PROVE  InputInv'
BY InputHostRunsPost, InputHostReceives, InputEditorReceives, InputEditorRunsPost, InputWriter,
   InputRelay, InputOwner, InputLost, InputPosts DEF Next

-----------------------------------------------------------------------------
(* The readers *)

LEMMA AloneNone ==
  \A fd : ~Outputs(<<>>, fd) /\ Alone(<<>>, fd)
BY MembersNone DEF Outputs, Alone

LEMMA AloneTail ==
  ASSUME NEW S, NEW q \in Seq(S), q # <<>>, NEW fd
  PROVE  /\ Outputs(Tail(q), fd) => Outputs(q, fd)
         /\ Alone(q, fd) => Alone(Tail(q), fd)
         /\ Alone(q, fd) /\ Of(Head(q), fd) => ~Outputs(Tail(q), fd)
         /\ Of(Head(q), fd) => Outputs(q, fd)
<1> DEFINE t == Tail(q)
           n == Len(q)
<1>1. /\ n \in Nat /\ Len(t) = n - 1 /\ \A i \in 1 .. Len(t) : t[i] = q[i + 1] /\ i + 1 \in 1 .. n
  BY MembersShrink
<1>2. 1 \in 1 .. n /\ Head(q) = q[1]
  BY TailShrinks
<1>3. Head(q) \in Members(q) /\ Members(t) \subseteq Members(q)
  BY MembersTail
<1> HIDE DEF t, n
<1>4. Alone(q, fd) => Alone(t, fd)
  <2> SUFFICES ASSUME Alone(q, fd), NEW i \in 1..Len(t), NEW j \in 1..Len(t), Of(t[i], fd), Of(t[j], fd)
               PROVE  i = j
    BY DEF Alone
  <2>1. /\ i + 1 \in 1..Len(q) /\ j + 1 \in 1..Len(q) /\ Of(q[i + 1], fd) /\ Of(q[j + 1], fd)
    BY <1>1 DEF n
  <2>2. i + 1 = j + 1
    BY <2>1 DEF Alone
  <2>3. QED
    BY <1>1, <2>2
<1>5. Alone(q, fd) /\ Of(Head(q), fd) => ~Outputs(t, fd)
  <2> SUFFICES ASSUME Alone(q, fd), Of(Head(q), fd), Outputs(t, fd) PROVE FALSE
    OBVIOUS
  <2>1. PICK i \in 1..Len(t) : Of(t[i], fd)
    BY DEF Outputs, Members
  <2>2. i + 1 \in 1..Len(q) /\ Of(q[i + 1], fd) /\ 1 \in 1..Len(q) /\ Of(q[1], fd)
    BY <1>1, <1>2, <2>1 DEF n
  <2>3. i + 1 = 1
    BY <2>2 DEF Alone
  <2>4. QED
    BY <1>1, <2>3
<1>6. QED
  BY <1>3, <1>4, <1>5 DEF Outputs, t

LEMMA AloneAppend ==
  ASSUME NEW S, NEW q \in Seq(S), NEW x \in S, NEW fd, Alone(q, fd)
  PROVE  /\ Outputs(Append(q, x), fd) => Outputs(q, fd) \/ Of(x, fd)
         /\ ~(Outputs(q, fd) /\ Of(x, fd)) => Alone(Append(q, x), fd)
<1> DEFINE t == Append(q, x)
           n == Len(q)
<1>1. /\ n \in Nat /\ Len(t) = n + 1 /\ t[n + 1] = x
      /\ \A i \in 1 .. n : t[i] = q[i]
      /\ \A i \in 1 .. Len(t) : i \in 1 .. n \/ i = n + 1
  BY MembersGrow
<1>2. Members(t) = Members(q) \cup {x}
  BY MembersAppend
<1>3. Outputs(t, fd) => Outputs(q, fd) \/ Of(x, fd)
  BY <1>2 DEF Outputs
<1> HIDE DEF t
<1>4. ASSUME ~(Outputs(q, fd) /\ Of(x, fd)), NEW i \in 1..Len(t), NEW j \in 1..Len(t), Of(t[i], fd), Of(t[j], fd)
      PROVE  i = j
  <2>1. \A k \in 1..n : Of(t[k], fd) => Outputs(q, fd)
    BY <1>1 DEF Outputs, Members
  <2>2. (i \in 1..n \/ i = n + 1) /\ (j \in 1..n \/ j = n + 1)
    BY <1>1
  <2>3. CASE i \in 1..n /\ j \in 1..n
    BY <1>1, <1>4, <2>3 DEF Alone
  <2>4. CASE i = n + 1 /\ j = n + 1
    BY <2>4
  <2>5. CASE i \in 1..n /\ j = n + 1
    BY <1>1, <1>4, <2>1, <2>5
  <2>6. CASE i = n + 1 /\ j \in 1..n
    BY <1>1, <1>4, <2>1, <2>6
  <2>7. QED
    BY <2>2, <2>3, <2>4, <2>5, <2>6
<1>5. ~(Outputs(q, fd) /\ Of(x, fd)) => Alone(t, fd)
  BY <1>4 DEF Alone
<1>6. QED
  BY <1>3, <1>5 DEF t

LEMMA AlonePart ==
  ASSUME NEW S, NEW q \in Seq(S), NEW k \in 0..Len(q), NEW fd
  PROVE  /\ Outputs(SubSeq(q, k + 1, Len(q)), fd) => Outputs(q, fd)
         /\ Alone(q, fd) => Alone(SubSeq(q, k + 1, Len(q)), fd)
<1> DEFINE t == SubSeq(q, k + 1, Len(q))
           n == Len(q)
<1>1. Len(t) = n - k /\ \A i \in 1..n - k : t[i] = q[k + i]
  BY PartOfQueue
<1>2. n \in Nat /\ k \in 0..n
  BY LenProperties
<1> HIDE DEF t, n
<1>3. \A i \in 1..Len(t) : k + i \in 1..n /\ t[i] = q[k + i]
  BY <1>1, <1>2
<1>4. Outputs(t, fd) => Outputs(q, fd)
  BY <1>3 DEF Outputs, Members, n
<1>5. Alone(q, fd) => Alone(t, fd)
  <2> SUFFICES ASSUME Alone(q, fd), NEW i \in 1..Len(t), NEW j \in 1..Len(t), Of(t[i], fd), Of(t[j], fd)
               PROVE  i = j
    BY DEF Alone
  <2>1. k + i \in 1..Len(q) /\ k + j \in 1..Len(q) /\ Of(q[k + i], fd) /\ Of(q[k + j], fd)
    BY <1>3 DEF n
  <2>2. k + i = k + j
    BY <2>1 DEF Alone
  <2>3. QED
    BY <1>1, <1>2, <2>2
<1>6. QED
  BY <1>4, <1>5 DEF t

readerVars == <<mayRead, waiting, exited, stderrDone, hostPosts, read, wrote, proc, backlog, released>>

LEMMA ReaderUnchanged ==
  ASSUME ReaderInv, UNCHANGED readerVars
  PROVE  ReaderInv'
BY DEF ReaderInv, readerVars, Ended

\* The ends are not those of the other output, and no piece is an end.
LEMMA EndFacts ==
  /\ \A fd, f \in Fds : EndOf(fd) = EndOf(f) => fd = f
  /\ \A fd \in Fds : EndOf(fd).kind \in {"exited", "stderr done"} /\ EndOf(fd) \in HostPosts
  /\ \A fd \in Fds : (EndOf(fd) = Exited /\ fd = 1) \/ (EndOf(fd) = StderrDone /\ fd = 2)
<1>1. \A fd \in Fds : (EndOf(fd) = Exited /\ fd = 1) \/ (EndOf(fd) = StderrDone /\ fd = 2)
  BY FdFacts DEF EndOf
<1>2. Exited # StderrDone
  <2>1. Exited.kind = "exited" /\ StderrDone.kind = "stderr done"
    BY HostPostFacts
  <2>2. QED
    BY <2>1
<1>3. \A fd, f \in Fds : EndOf(fd) = EndOf(f) => fd = f
  BY <1>1, <1>2
<1>4. \A fd \in Fds : EndOf(fd).kind \in {"exited", "stderr done"} /\ EndOf(fd) \in HostPosts
  <2>1. /\ Exited.kind = "exited" /\ Exited \in HostPosts
        /\ StderrDone.kind = "stderr done" /\ StderrDone \in HostPosts
    BY HostPostFacts
  <2>2. QED
    BY <1>1, <2>1
<1>5. QED
  BY <1>1, <1>3, <1>4

LEMMA ReaderThreads ==
  ASSUME Typed, ReaderInv, Process \/ Writer \/ AgentSeesEnd
  PROVE  ReaderInv'
<1>1. CASE Process
  <2>1. /\ UNCHANGED <<mayRead, waiting, exited, stderrDone, hostPosts, read, backlog, released>>
        /\ proc = "running"
    BY <1>1 DEF Process, ProcessEnds, ProcessWrites, jobVars, flowVars
  <2>2. \A fd \in Fds : ~Ended(fd)
    BY <2>1 DEF ReaderInv
  <2>3. \A fd \in Fds : ~Ended(fd)'
    BY <2>1, <2>2 DEF Ended
  <2>4. QED
    BY <2>1, <2>2, <2>3 DEF ReaderInv
<1>2. CASE AgentSeesEnd
  <2>1. /\ UNCHANGED <<mayRead, waiting, exited, stderrDone, read, wrote, released>>
        /\ hostPosts' = <<>> /\ backlog' = <<>> /\ (proc = "ended" => proc' = "ended")
    BY <1>2 DEF AgentSeesEnd
  <2>2. \A fd \in Fds : Ended(fd)' => Ended(fd)
    BY <2>1, MembersNone DEF Ended
  <2>3. QED
    BY <2>1, <2>2, AloneNone DEF ReaderInv
<1>3. CASE Writer
  <2>1. /\ UNCHANGED <<mayRead, waiting, exited, stderrDone, read, wrote, backlog, released>>
        /\ (proc = "ended" => proc' = "ended")
        /\ hostPosts' = hostPosts \/ \E ok \in BOOLEAN : hostPosts' = Append(hostPosts, Written(ok))
    BY <1>3 DEF Writer, WriteInput, KilledUnlessExited, flowVars
  <2>2. CASE hostPosts' = hostPosts
    BY <2>1, <2>2 DEF ReaderInv, Ended
  <2>3. ASSUME NEW ok \in BOOLEAN, hostPosts' = Append(hostPosts, Written(ok)) PROVE ReaderInv'
    <3>1. Written(ok) \in HostPosts /\ Written(ok).kind = "written" /\ hostPosts \in Seq(HostPosts)
      BY HostPostFacts DEF Typed, JobTyped
    <3>2. \A fd : ~Of(Written(ok), fd)
      BY <3>1 DEF Of
    <3>3. Members(hostPosts') = Members(hostPosts) \cup {Written(ok)}
      BY <2>3, <3>1, MembersAppend
    <3>4. \A fd \in Fds : EndOf(fd) # Written(ok)
      BY <3>1, EndFacts
    <3>5. \A fd \in Fds : Ended(fd)' = Ended(fd)
      BY <2>1, <3>3, <3>4 DEF Ended
    <3>6. \A fd \in Fds : Alone(hostPosts', fd) /\ (Outputs(hostPosts', fd) => Outputs(hostPosts, fd))
      BY <2>3, <3>1, <3>2, AloneAppend DEF ReaderInv
    <3>7. QED
      BY <2>1, <3>5, <3>6 DEF ReaderInv
  <2>4. QED
    BY <2>1, <2>2, <2>3
<1>4. QED
  BY <1>1, <1>2, <1>3

LEMMA ReaderReader ==
  ASSUME Typed, ReaderInv, NEW f \in Fds, Reader(f)
  PROVE  ReaderInv'
<1>1. /\ UNCHANGED <<waiting, exited, stderrDone, wrote, proc, backlog, released>>
      /\ f \in mayRead /\ mayRead' = mayRead \ {f}
  BY DEF Reader, procVars, flowVars
<1>2. f \notin waiting /\ ~Outputs(hostPosts, f) /\ ~Ended(f)
  BY <1>1 DEF ReaderInv
<1>3. hostPosts \in Seq(HostPosts) /\ read \in [Fds -> 0..MaxOut + 1] /\ wrote \in [Fds -> 0..MaxOut + 1]
  BY DEF Typed, JobTyped, ProcTyped
<1>4. CASE read[f] < wrote[f] /\ read' = [read EXCEPT ![f] = @ + 1]
           /\ hostPosts' = Append(hostPosts, Output(f, read[f] + 1))
  <2> DEFINE m == Output(f, read[f] + 1)
  <2>1. m \in HostPosts /\ m.kind = "output" /\ m.fd = f
    <3>1. read[f] \in 0..MaxOut + 1 /\ wrote[f] \in 0..MaxOut + 1 /\ MaxOut \in Nat
      BY <1>3, FdFacts
    <3>2. read[f] + 1 \in 1..MaxOut + 1
      BY <1>4, <3>1
    <3>3. QED
      BY <3>2, OutputFacts
  <2>2. hostPosts' = Append(hostPosts, m)
    BY <1>4
  <2> HIDE DEF m
  <2>3. Members(hostPosts') = Members(hostPosts) \cup {m}
    <3>1. hostPosts \in Seq(HostPosts) /\ m \in HostPosts
      BY <1>3, <2>1
    <3>2. Members(Append(hostPosts, m)) = Members(hostPosts) \cup {m}
      BY <3>1, MembersAppend, SMTT(30)
    <3>3. QED
      BY <2>2, <3>2
  <2>4. \A fd \in Fds : Ended(fd)' = Ended(fd)
    <3>1. \A fd \in Fds : EndOf(fd) # m
      BY <2>1, EndFacts
    <3>2. QED
      BY <1>1, <2>3, <3>1 DEF Ended
  <2>5. \A fd \in Fds : Of(m, fd) => fd = f
    BY <2>1 DEF Of
  <2>6. \A fd \in Fds : /\ Alone(hostPosts', fd)
                        /\ Outputs(hostPosts', fd) => Outputs(hostPosts, fd) \/ fd = f
    BY <1>2, <1>3, <2>1, <2>2, <2>5, AloneAppend DEF ReaderInv
  <2>7. \A fd \in Fds : fd # f => read'[fd] = read[fd]
    BY <1>3, <1>4
  <2>8. QED
    BY <1>1, <1>2, <2>4, <2>6, <2>7 DEF ReaderInv
<1>5. CASE read[f] = wrote[f] /\ proc = "ended" /\ hostPosts' = Append(hostPosts, EndOf(f)) /\ UNCHANGED read
  <2> DEFINE m == EndOf(f)
  <2>1. m \in HostPosts /\ m.kind \in {"exited", "stderr done"}
    BY EndFacts
  <2>2. hostPosts' = Append(hostPosts, m)
    BY <1>5
  <2>3. \A fd \in Fds : m = EndOf(fd) => fd = f
    BY EndFacts
  <2> HIDE DEF m
  <2>4. Members(hostPosts') = Members(hostPosts) \cup {m}
    <3>1. hostPosts \in Seq(HostPosts) /\ m \in HostPosts
      BY <1>3, <2>1
    <3>2. Members(Append(hostPosts, m)) = Members(hostPosts) \cup {m}
      BY <3>1, MembersAppend, SMTT(30)
    <3>3. QED
      BY <2>2, <3>2
  <2>5. \A fd \in Fds : fd # f => Ended(fd)' = Ended(fd)
    BY <1>1, <2>3, <2>4 DEF Ended
  <2>6. \A fd \in Fds : ~Of(m, fd)
    BY <2>1 DEF Of
  <2>7. \A fd \in Fds : Alone(hostPosts', fd) /\ (Outputs(hostPosts', fd) => Outputs(hostPosts, fd))
    BY <1>3, <2>1, <2>2, <2>6, AloneAppend DEF ReaderInv
  <2>8. QED
    BY <1>1, <1>2, <1>5, <2>5, <2>7 DEF ReaderInv
<1>6. QED
  BY <1>4, <1>5 DEF Reader, EndOf

LEMMA ReaderHostRunsPost ==
  ASSUME Typed, ReaderInv, HostRunsPost
  PROVE  ReaderInv'
<1>1. PICK m \in HostPosts :
        \/ PostIsLate(m) \/ OutputIsDropped(m) \/ OutputIsSent(m) \/ OutputWaits(m)
        \/ InputIsAnswered(m) \/ OneIsDone(m) \/ JobIsDone(m)
  BY HostRunsPostCases
<1>2. HostRuns(m)
  BY <1>1 DEF PostIsLate, OutputIsDropped, OutputIsSent, OutputWaits, InputIsAnswered,
              OneIsDone, JobIsDone, OneEnd
<1>3. /\ UNCHANGED <<proc, wrote, read, released>>
      /\ hostPosts \in Seq(HostPosts) /\ hostPosts # <<>> /\ m = Head(hostPosts)
      /\ hostPosts' = Tail(hostPosts) /\ backlog \in Seq(ChunkMsgs)
  BY <1>2 DEF HostRuns, procVars, Typed, JobTyped
<1>4. m \in Members(hostPosts) /\ Members(hostPosts') \subseteq Members(hostPosts)
  BY <1>3, MembersTail
<1>5. \A fd \in Fds : /\ Outputs(hostPosts', fd) => Outputs(hostPosts, fd)
                      /\ Alone(hostPosts', fd)
                      /\ Of(m, fd) => Outputs(hostPosts, fd) /\ ~Outputs(hostPosts', fd)
  BY <1>3, AloneTail DEF ReaderInv
<1>6. UNCHANGED <<exited, stderrDone>> => \A fd \in Fds : Ended(fd)' => Ended(fd)
  BY <1>4 DEF Ended
<1>7. CASE PostIsLate(m) \/ InputIsAnswered(m)
  <2>1. UNCHANGED <<mayRead, waiting, exited, stderrDone, backlog>>
    BY <1>7 DEF PostIsLate, InputIsAnswered, flowVars
  <2>2. QED
    BY <1>3, <1>5, <1>6, <2>1 DEF ReaderInv
<1>8. ASSUME m.kind = "output"
      PROVE  /\ m.fd \in Fds /\ Of(m, m.fd) /\ ~Ended(m.fd) /\ m.fd \notin mayRead \cup waiting
             /\ ~Outputs(hostPosts', m.fd)
  <2>1. m.fd \in Fds /\ Of(m, m.fd)
    BY <1>8, HostPostFacts DEF Of
  <2>2. QED
    BY <1>5, <2>1 DEF ReaderInv
<1>9. CASE OutputIsDropped(m) \/ OutputIsSent(m)
  <2>1. /\ m.kind = "output" /\ mayRead' = mayRead \cup {m.fd}
        /\ UNCHANGED <<waiting, exited, stderrDone, backlog>>
    BY <1>9 DEF OutputIsDropped, OutputIsSent, flowVars
  <2>2. QED
    BY <1>3, <1>5, <1>6, <1>8, <2>1 DEF ReaderInv
<1>10. CASE OutputWaits(m)
  <2> DEFINE c == Chunk(m.fd, m.n)
  <2>1. /\ m.kind = "output" /\ waiting' = waiting \cup {m.fd} /\ ~released
        /\ UNCHANGED <<mayRead, exited, stderrDone>> /\ backlog' = Append(backlog, c)
    BY <1>10 DEF OutputWaits
  <2>2. c \in ChunkMsgs /\ c.fd = m.fd
    <3>1. m.fd \in Fds /\ m.n \in 1..MaxOut + 1
      BY <2>1, HostPostFacts
    <3>2. c \in ChunkMsgs
      BY <3>1, EditorMsgFacts
    <3>3. QED
      BY <3>2 DEF Chunk
  <2> HIDE DEF c
  <2>3. ~Outputs(backlog, m.fd) /\ \A fd : Of(c, fd) => fd = m.fd
    BY <1>8, <2>1, <2>2 DEF ReaderInv, Of
  <2>4. \A fd \in Fds : /\ Alone(backlog', fd)
                        /\ Outputs(backlog', fd) => Outputs(backlog, fd) \/ fd = m.fd
    BY <1>3, <2>1, <2>2, <2>3, AloneAppend DEF ReaderInv
  <2>5. QED
    BY <1>3, <1>5, <1>6, <1>8, <2>1, <2>4 DEF ReaderInv
<1>11. CASE OneIsDone(m) \/ JobIsDone(m)
  <2>1. /\ OneEnd(m) /\ UNCHANGED <<mayRead, waiting, backlog>>
    BY <1>11 DEF OneIsDone, JobIsDone, OneEnd
  <2>2. \/ m = Exited /\ exited' = TRUE /\ stderrDone' = stderrDone
        \/ m = StderrDone /\ stderrDone' = TRUE /\ exited' = exited
    BY <2>1 DEF OneEnd
  <2>3. \A fd \in Fds : Ended(fd)' => Ended(fd)
    <3> SUFFICES ASSUME NEW fd \in Fds, Ended(fd)' PROVE Ended(fd)
      OBVIOUS
    <3>1. (EndOf(fd) = Exited /\ fd = 1) \/ (EndOf(fd) = StderrDone /\ fd = 2)
      BY EndFacts
    <3>2. CASE EndOf(fd) \in Members(hostPosts')
      BY <1>4, <3>2 DEF Ended
    <3>3. CASE (IF fd = 1 THEN exited ELSE stderrDone)'
      BY <1>4, <2>2, <3>1, <3>3 DEF Ended
    <3>4. QED
      BY <3>2, <3>3 DEF Ended
  <2>4. QED
    BY <1>3, <1>5, <2>1, <2>3 DEF ReaderInv
<1>12. QED
  BY <1>1, <1>7, <1>9, <1>10, <1>11

LEMMA ReaderHostReceives ==
  ASSUME Typed, SpawnInv, ReaderInv, HostReceives
  PROVE  ReaderInv'
<1>1. PICK m \in HostMsgs :
        \/ Spawns(m) \/ SpawnFails(m)
        \/ \E n \in 0..MaxIn : InputIsQueued(m, n) \/ InputIsRefused(m, n)
        \/ JobIsReleased(m) \/ HeardLate(m)
        \/ \E k \in 0..Len(backlog) : LiveCredit(m, k) \/ LateCredit(m, k)
  BY HostReceivesCases
<1>2. Hears(m)
  BY <1>1 DEF Spawns, SpawnFails, InputIsQueued, InputIsRefused, JobIsReleased, HeardLate,
              LiveCredit, LateCredit, CreditArrives
<1>3. /\ UNCHANGED <<hostPosts, exited, stderrDone, read>> /\ backlog \in Seq(ChunkMsgs)
      /\ toHost \in Seq(HostMsgs) /\ toHost # <<>> /\ m = Head(toHost)
  BY <1>2 DEF Hears, Typed, JobTyped, EditorTyped
<1>4. \A fd \in Fds : Ended(fd)' = Ended(fd)
  BY <1>3 DEF Ended
<1>5. CASE Spawns(m) \/ SpawnFails(m)
  <2>1. UNCHANGED <<mayRead, waiting, backlog, released>> /\ m = Spawn
    BY <1>5 DEF Spawns, SpawnFails, flowVars
  <2>2. m \in Members(toHost)
    BY <1>3, MembersTail
  <2>3. proc # "ended"
    BY <2>1, <2>2 DEF SpawnInv
  <2>4. QED
    BY <1>3, <1>4, <2>1, <2>3 DEF ReaderInv
<1>6. CASE (\E n \in 0..MaxIn : InputIsQueued(m, n) \/ InputIsRefused(m, n)) \/ HeardLate(m)
  <2>1. UNCHANGED readerVars
    BY <1>3, <1>6 DEF InputIsQueued, InputIsRefused, HeardLate, flowVars, readerVars
  <2>2. QED
    BY <2>1, ReaderUnchanged
<1>7. CASE JobIsReleased(m)
  <2>1. /\ released' /\ mayRead' = mayRead \cup waiting /\ waiting' = {}
        /\ UNCHANGED <<proc, wrote, backlog>>
    BY <1>7 DEF JobIsReleased, flowVars
  <2>2. QED
    BY <1>3, <1>4, <2>1 DEF ReaderInv
<1>8. ASSUME NEW k \in 0..Len(backlog), LiveCredit(m, k) \/ LateCredit(m, k) PROVE ReaderInv'
  <2>1. /\ backlog' = SubSeq(backlog, k + 1, Len(backlog)) /\ UNCHANGED <<proc, wrote, released>>
        /\ \/ backlog' = <<>> /\ mayRead' = mayRead \cup waiting /\ waiting' = {}
           \/ UNCHANGED <<mayRead, waiting>>
    BY <1>8 DEF LiveCredit, LateCredit, CreditArrives
  <2>2. \A fd \in Fds : Alone(backlog', fd) /\ (Outputs(backlog', fd) => Outputs(backlog, fd))
    BY <1>3, <2>1, AlonePart DEF ReaderInv
  <2>3. \A fd : ~Outputs(<<>>, fd)
    BY AloneNone
  <2>4. CASE backlog' = <<>> /\ mayRead' = mayRead \cup waiting /\ waiting' = {}
    BY <1>3, <1>4, <2>1, <2>2, <2>3, <2>4 DEF ReaderInv
  <2>5. CASE UNCHANGED <<mayRead, waiting>>
    BY <1>3, <1>4, <2>1, <2>2, <2>5 DEF ReaderInv
  <2>6. QED
    BY <2>1, <2>4, <2>5
<1>9. QED
  BY <1>1, <1>5, <1>6, <1>7, <1>8

LEMMA ReaderInit ==
  ASSUME Init
  PROVE  ReaderInv
<1>1. Init => /\ waiting = {} /\ hostPosts = <<>> /\ backlog = <<>> /\ ~exited /\ (2 \in Fds => ~stderrDone)
  BY DEF Init
<1>2. \A fd \in Fds : ~Ended(fd)
  BY <1>1, MembersNone, FdFacts DEF Ended
<1>3. QED
  BY <1>1, <1>2, AloneNone DEF ReaderInv

LEMMA ReaderStep ==
  ASSUME Typed, SpawnInv, ReaderInv, [Next]_vars
  PROVE  ReaderInv'
<1>1. CASE Process \/ Writer \/ AgentSeesEnd
  BY <1>1, ReaderThreads
<1>2. CASE HostRunsPost
  BY <1>2, ReaderHostRunsPost
<1>3. CASE HostReceives
  BY <1>3, ReaderHostReceives
<1>4. ASSUME NEW fd \in Fds, Reader(fd) PROVE ReaderInv'
  BY <1>4, ReaderReader
<1>5. CASE EditorReceives \/ EditorRunsPost \/ Expire \/ LinkEnds \/ RelayReads \/ RelayReadsEnd
           \/ RelayEnds \/ (\E fd \in Fds : Deliver(fd)) \/ OwnerWrites \/ CloseInput \/ HangUp
           \/ OwnerReleases
  <2>1. UNCHANGED hostSide
    BY <1>5 DEF EditorReceives, EditorRunsPost, Expire, LinkEnds, RelayReads, RelayReadsEnd, RelayEnds,
                Deliver, OwnerWrites, CloseInput, HangUp, OwnerReleases
  <2>2. QED
    BY <2>1, ReaderUnchanged DEF hostSide, procVars, jobVars, flowVars, readerVars
<1>6. CASE UNCHANGED vars
  BY <1>6, ReaderUnchanged DEF vars, hostSide, procVars, jobVars, flowVars, readerVars
<1>7. QED
  BY <1>1, <1>2, <1>3, <1>4, <1>5, <1>6 DEF Next

-----------------------------------------------------------------------------
(* The end of a job on the host *)

\* A job that is gone from a host that runs has seen both ends, or never was.
GoneInv == job = "gone" /\ agent => (exited /\ stderrDone) \/ proc = "none"

LEMMA GoneInit ==
  ASSUME Init
  PROVE  GoneInv
BY DEF Init, GoneInv

LEMMA GoneUnchanged ==
  ASSUME GoneInv, UNCHANGED <<job, agent, exited, stderrDone, proc>>
  PROVE  GoneInv'
BY DEF GoneInv

LEMMA GoneStep ==
  ASSUME Typed, SpawnInv, GoneInv, [Next]_vars
  PROVE  GoneInv'
<1>1. CASE Process
  BY <1>1 DEF Process, ProcessEnds, ProcessWrites, GoneInv, jobVars
<1>2. CASE Writer
  <2>1. job = "live" /\ job' = job
    BY <1>2 DEF Writer
  <2>2. QED
    BY <2>1 DEF GoneInv
<1>3. CASE HostRunsPost
  <2>1. PICK m \in HostPosts :
          \/ PostIsLate(m) \/ OutputIsDropped(m) \/ OutputIsSent(m) \/ OutputWaits(m)
          \/ InputIsAnswered(m) \/ OneIsDone(m) \/ JobIsDone(m)
    BY <1>3, HostRunsPostCases
  <2>2. CASE PostIsLate(m)
    BY <2>2 DEF PostIsLate, HostRuns, procVars, GoneInv
  <2>3. CASE OutputIsDropped(m) \/ OutputIsSent(m) \/ OutputWaits(m) \/ InputIsAnswered(m) \/ OneIsDone(m)
    <3>1. job = "live" /\ job' = job
      BY <2>3 DEF OutputIsDropped, OutputIsSent, OutputWaits, InputIsAnswered, OneIsDone, OneEnd
    <3>2. QED
      BY <3>1 DEF GoneInv
  <2>4. CASE JobIsDone(m)
    BY <2>4 DEF JobIsDone, GoneInv
  <2>5. QED
    BY <2>1, <2>2, <2>3, <2>4
<1>4. CASE HostReceives
  <2>1. PICK m \in HostMsgs :
          \/ Spawns(m) \/ SpawnFails(m)
          \/ \E n \in 0..MaxIn : InputIsQueued(m, n) \/ InputIsRefused(m, n)
          \/ JobIsReleased(m) \/ HeardLate(m)
          \/ \E k \in 0..Len(backlog) : LiveCredit(m, k) \/ LateCredit(m, k)
    BY <1>4, HostReceivesCases
  <2>2. CASE Spawns(m)
    BY <2>2 DEF Spawns, GoneInv
  <2>3. CASE SpawnFails(m)
    <3>1. m = Head(toHost) /\ toHost # <<>> /\ toHost \in Seq(HostMsgs) /\ m = Spawn /\ proc' = proc
      BY <2>3 DEF SpawnFails, Hears, Typed, EditorTyped
    <3>2. m \in Members(toHost)
      BY <3>1, MembersTail
    <3>3. QED
      BY <3>1, <3>2 DEF SpawnInv, GoneInv
  <2>4. CASE \/ \E n \in 0..MaxIn : InputIsQueued(m, n) \/ InputIsRefused(m, n)
             \/ JobIsReleased(m) \/ HeardLate(m)
             \/ \E k \in 0..Len(backlog) : LiveCredit(m, k) \/ LateCredit(m, k)
    BY <2>4 DEF InputIsQueued, InputIsRefused, JobIsReleased, HeardLate, LiveCredit, LateCredit,
                CreditArrives, Hears, GoneInv
  <2>5. QED
    BY <2>1, <2>2, <2>3, <2>4
<1>5. CASE AgentSeesEnd
  BY <1>5 DEF AgentSeesEnd, GoneInv
<1>6. ASSUME NEW fd \in Fds, Reader(fd) PROVE GoneInv'
  BY <1>6 DEF Reader, procVars, GoneInv
<1>7. CASE EditorReceives \/ EditorRunsPost \/ Expire \/ LinkEnds \/ RelayReads \/ RelayReadsEnd
           \/ RelayEnds \/ (\E fd \in Fds : Deliver(fd)) \/ OwnerWrites \/ CloseInput \/ HangUp
           \/ OwnerReleases
  <2>1. UNCHANGED hostSide
    BY <1>7 DEF EditorReceives, EditorRunsPost, Expire, LinkEnds, RelayReads, RelayReadsEnd, RelayEnds,
                Deliver, OwnerWrites, CloseInput, HangUp, OwnerReleases
  <2>2. QED
    BY <2>1, GoneUnchanged DEF hostSide, procVars, jobVars
<1>8. CASE UNCHANGED vars
  BY <1>8, GoneUnchanged DEF vars, hostSide, procVars, jobVars
<1>9. QED
  BY <1>1, <1>2, <1>3, <1>4, <1>5, <1>6, <1>7, <1>8 DEF Next

-----------------------------------------------------------------------------
(* The output, from the process to its owner *)

LEMMA NoFacts ==
  ASSUME NEW fd \in Fds
  PROVE  /\ No(fd) \in [Msgs -> Nat]
         /\ \A m \in ChunkMsgs : No(fd)[m] = IF m.fd = fd THEN m.n ELSE 0
         /\ \A m \in EditorMsgs : m.kind \in {"answer", "result"} => No(fd)[m] = 0
         /\ No(fd)[SpawnFailed] = IF fd = 2 THEN 1 ELSE 0
         /\ \A m \in HostPosts : /\ m.kind = "output" => No(fd)[m] = IF m.fd = fd THEN m.n ELSE 0
                                 /\ m.kind # "output" => No(fd)[m] = 0
<1>1. \A m \in Msgs : m.kind \in {"chunk", "output"} => m.n \in 1..MaxOut + 1
  <2> SUFFICES ASSUME NEW m \in Msgs, m.kind \in {"chunk", "output"} PROVE m.n \in 1..MaxOut + 1
    OBVIOUS
  <2>1. CASE m \in EditorMsgs
    <3>1. m \in ChunkMsgs
      BY <2>1, EditorMsgFacts
    <3>2. QED
      BY <3>1, EditorMsgFacts
  <2>2. CASE m \in HostMsgs
    BY <2>2, HostMsgFacts
  <2>3. CASE m \in Items \cup RelayPosts
    BY <2>3, HostMsgFacts
  <2>4. CASE m \in HostPosts
    BY <2>4, HostPostFacts
  <2>5. QED
    BY <2>1, <2>2, <2>3, <2>4 DEF Msgs
<1>2. No(fd) \in [Msgs -> Nat]
  BY <1>1, FdFacts DEF No
<1>3. \A m \in Msgs :
        No(fd)[m] = IF m.kind \in {"chunk", "output"} THEN (IF m.fd = fd THEN m.n ELSE 0)
                    ELSE IF m.kind = "spawn failed" /\ fd = 2 THEN 1 ELSE 0
  BY DEF No
<1>4. \A m \in ChunkMsgs : m \in Msgs /\ m.kind = "chunk"
  BY EditorMsgFacts
<1>5. \A m \in EditorMsgs : m \in Msgs
  BY EditorMsgFacts
<1>6. SpawnFailed \in Msgs /\ SpawnFailed.kind = "spawn failed"
  BY EditorMsgFacts
<1>7. \A m \in HostPosts : m \in Msgs /\ m.kind \in {"output", "written", "exited", "stderr done"}
  BY HostPostFacts
<1> HIDE DEF No
<1>8. /\ \A m \in ChunkMsgs : No(fd)[m] = IF m.fd = fd THEN m.n ELSE 0
      /\ \A m \in EditorMsgs : m.kind \in {"answer", "result"} => No(fd)[m] = 0
  BY <1>3, <1>4, <1>5
<1>9. No(fd)[SpawnFailed] = IF fd = 2 THEN 1 ELSE 0
  BY <1>3, <1>6
<1>10. \A m \in HostPosts : /\ m.kind = "output" => No(fd)[m] = IF m.fd = fd THEN m.n ELSE 0
                            /\ m.kind # "output" => No(fd)[m] = 0
  BY <1>3, <1>7
<1>11. QED
  BY <1>2, <1>8, <1>9, <1>10

outputVars == <<proc, wrote, read, hostPosts, backlog, toEditor, link, finished, out, owner, got>>

LEMMA OutputUnchanged ==
  ASSUME OutputInv, UNCHANGED outputVars
  PROVE  OutputInv'
BY DEF OutputInv, OnItsWay, Arrived, Made, outputVars

\* What is sent to the editor: it carries on, or it carries nothing.
LEMMA SentCarries ==
  ASSUME Typed, link, NEW fd \in Fds, NEW s \in Seq(EditorMsgs), SendToEditor(s), NEW a, NEW b, NEW c,
         Carries(Weights(toEditor, No(fd)), a, b)
  PROVE  /\ Carries(Weights(s, No(fd)), b, c) => Carries(Weights(toEditor', No(fd)), a, c)
         /\ (\A m \in Members(s) : No(fd)[m] = 0) => Carries(Weights(toEditor', No(fd)), a, b)
<1>1. toEditor \in Seq(Msgs) /\ s \in Seq(Msgs) /\ No(fd) \in [Msgs -> Nat]
  BY QueuesOfMsgs, EditorMsgFacts, WiderQueues, NoFacts
<1>2. toEditor' = toEditor \o s
  BY DEF SendToEditor
<1> HIDE DEF No
<1>3. ASSUME NEW d, Carries(Weights(s, No(fd)), b, d) PROVE Carries(Weights(toEditor', No(fd)), a, d)
  BY <1>1, <1>2, <1>3, CarriesJoin
<1>4. ASSUME \A m \in Members(s) : No(fd)[m] = 0 PROVE Carries(Weights(toEditor', No(fd)), a, b)
  <2>1. b \in Nat
    BY DEF Carries
  <2>2. Carries(Weights(s, No(fd)), b, b)
    BY <1>1, <1>4, <2>1, CarriesQuiet
  <2>3. QED
    BY <1>3, <2>2
<1>5. QED
  BY <1>3, <1>4

LEMMA OutputTyped ==
  ASSUME Typed, NEW fd \in Fds
  PROVE  /\ got[fd] \in Seq(1..MaxOut + 1) /\ out[fd] \in Seq(1..MaxOut + 1)
         /\ Arrived(fd) \in Nat /\ Made(fd) \in Nat /\ wrote[fd] \in Nat /\ read[fd] \in Nat
         /\ Len(got[fd]) \in Nat /\ Len(out[fd]) \in Nat
<1>1. got[fd] \in Seq(1..MaxOut + 1) /\ out[fd] \in Seq(1..MaxOut + 1)
  BY DEF Typed, EditorTyped, OwnerTyped
<1>2. Len(got[fd]) \in Nat /\ Len(out[fd]) \in Nat
  BY <1>1, LenProperties
<1>3. wrote[fd] \in 0..MaxOut + 1 /\ read[fd] \in 0..MaxOut + 1
  BY DEF Typed, ProcTyped, JobTyped
<1>4. wrote[fd] \in Nat /\ read[fd] \in Nat
  BY <1>3, FdFacts
<1>5. Arrived(fd) \in Nat
  <2>1. \A x, y \in Nat : x + y \in Nat
    OBVIOUS
  <2>2. Len(got[fd]) + Len(out[fd]) \in Nat
    BY <1>2, <2>1
  <2>3. QED
    BY <2>2 DEF Arrived
<1>6. Made(fd) \in Nat
  BY <1>4 DEF Made
<1>7. QED
  BY <1>1, <1>2, <1>4, <1>5, <1>6

\* What does not concern the owner, and leaves the pieces on their way.
LEMMA OutputKept ==
  ASSUME Typed, Typed', OutputInv, UNCHANGED <<finished, out, owner, got>>,
         \A fd \in Fds : /\ read'[fd] <= wrote'[fd] /\ wrote[fd] <= wrote'[fd]
                         /\ owner = "up" /\ finished = "exit" => wrote'[fd] = wrote[fd]
                         /\ owner = "up" /\ link' => OnItsWay(fd)'
  PROVE  OutputInv'
<1> SUFFICES ASSUME NEW fd \in Fds
             PROVE  /\ read'[fd] <= wrote'[fd]
                    /\ \A i \in 1..Len(got'[fd]) : got'[fd][i] = i
                    /\ owner' = "up" =>
                         /\ \A i \in 1..Len(out'[fd]) : out'[fd][i] = Len(got'[fd]) + i
                         /\ Arrived(fd)' <= wrote'[fd]
                         /\ link' => OnItsWay(fd)'
                         /\ finished' = "exit" => Arrived(fd)' = wrote'[fd]
  BY DEF OutputInv
<1>1. Arrived(fd)' = Arrived(fd)
  BY DEF Arrived
<1>2. /\ Arrived(fd) \in Nat /\ wrote[fd] \in Nat
  BY OutputTyped
<1>3. wrote'[fd] \in Nat
  <2>1. wrote' \in [Fds -> 0..MaxOut + 1]
    BY DEF Typed, ProcTyped
  <2>2. QED
    BY <2>1, FdFacts
<1>4. \A i \in 1..Len(got'[fd]) : got'[fd][i] = i
  BY DEF OutputInv
<1>5. owner = "up" => /\ \A i \in 1..Len(out[fd]) : out[fd][i] = Len(got[fd]) + i
                      /\ Arrived(fd) <= wrote[fd]
                      /\ finished = "exit" => Arrived(fd) = wrote[fd]
  BY DEF OutputInv
<1>6. owner = "up" => Arrived(fd) <= wrote'[fd]
  <2>1. \A x, y, z \in Nat : x <= y /\ y <= z => x <= z
    OBVIOUS
  <2>2. wrote[fd] <= wrote'[fd]
    OBVIOUS
  <2>3. QED
    BY <1>2, <1>3, <1>5, <2>1, <2>2
<1>7. QED
  BY <1>1, <1>4, <1>5, <1>6

\* The pieces on their way, by where they are.
WayIs(fd, b, c) ==
  /\ Carries(Weights(toEditor, No(fd)), Arrived(fd), b)
  /\ Carries(Weights(backlog, No(fd)), b, c)
  /\ Carries(Weights(hostPosts, No(fd)), c, Made(fd))

LEMMA WayOf ==
  /\ \A fd : OnItsWay(fd) => \E b, c \in Nat : WayIs(fd, b, c)
  /\ \A fd : \A b, c \in Nat : WayIs(fd, b, c) => OnItsWay(fd)
BY DEF OnItsWay, WayIs

LEMMA WayOfNext ==
  \A fd : \A b, c \in Nat : WayIs(fd, b, c)' => OnItsWay(fd)'
BY DEF OnItsWay, WayIs

LEMMA OutputThreads ==
  ASSUME Typed, Typed', SpawnInv, ReaderInv, AnswerInv, OutputInv, Process \/ Writer
  PROVE  OutputInv'
<1>1. CASE Process
  <2>1. /\ UNCHANGED <<read, hostPosts, backlog, toEditor, link, finished, out, owner, got>>
        /\ proc = "running" /\ proc' # "none"
    BY <1>1 DEF Process, ProcessEnds, ProcessWrites, jobVars, flowVars, editorSide, relayVars, ownerVars
  <2>2. finished # "exit"
    <3>1. ~exited
      BY <2>1, FdFacts DEF ReaderInv, Ended
    <3>2. QED
      BY <2>1, <3>1 DEF AnswerInv, Over
  <2>3. \A fd \in Fds : wrote[fd] <= wrote'[fd]
    <3>1. \A fd \in Fds : wrote[fd] \in Nat
      BY OutputTyped
    <3>2. wrote' = wrote \/ \E f \in Fds : wrote' = [wrote EXCEPT ![f] = @ + 1]
      BY <1>1 DEF Process, ProcessEnds, ProcessWrites
    <3>3. wrote \in [Fds -> 0..MaxOut + 1]
      BY DEF Typed, ProcTyped
    <3>4. QED
      BY <3>1, <3>2, <3>3
  <2>4. \A fd \in Fds : read'[fd] <= wrote'[fd]
    <3> SUFFICES ASSUME NEW fd \in Fds PROVE read'[fd] <= wrote'[fd]
      OBVIOUS
    <3>1. read[fd] <= wrote[fd] /\ wrote[fd] <= wrote'[fd] /\ read'[fd] = read[fd]
      BY <2>1, <2>3 DEF OutputInv
    <3>2. wrote[fd] \in Nat /\ read[fd] \in Nat
      BY OutputTyped
    <3>3. wrote'[fd] \in 0..MaxOut + 1
      BY DEF Typed, ProcTyped
    <3>4. wrote'[fd] \in Nat
      BY <3>3, FdFacts
    <3>5. \A x, y, z \in Nat : x <= y /\ y <= z => x <= z
      OBVIOUS
    <3>6. QED
      BY <3>1, <3>2, <3>4, <3>5
  <2>5. \A fd \in Fds : OnItsWay(fd)' <=> OnItsWay(fd)
    BY <2>1 DEF OnItsWay, Arrived, Made
  <2>6. \A fd \in Fds : owner = "up" /\ link' => OnItsWay(fd)'
    BY <2>1, <2>5 DEF OutputInv
  <2>7. QED
    BY <2>1, <2>2, <2>3, <2>4, <2>6, OutputKept
<1>2. CASE Writer
  <2>1. /\ UNCHANGED <<wrote, read, backlog, toEditor, link, finished, out, owner, got>>
        /\ job = "live" /\ (proc' = proc \/ proc' = "ended")
        /\ hostPosts' = hostPosts \/ \E ok \in BOOLEAN : hostPosts' = Append(hostPosts, Written(ok))
    BY <1>2 DEF Writer, WriteInput, KilledUnlessExited, flowVars, editorSide, relayVars, ownerVars
  <2>2. proc # "none"
    BY <2>1 DEF SpawnInv
  <2>3. \A fd \in Fds : Arrived(fd)' = Arrived(fd) /\ Made(fd)' = Made(fd)
    BY <2>1, <2>2 DEF Arrived, Made
  <2>4. ASSUME NEW fd \in Fds, owner = "up", link' PROVE OnItsWay(fd)'
    <3>1. OnItsWay(fd)
      BY <2>1, <2>4 DEF OutputInv
    <3>2. PICK b \in Nat, c \in Nat : WayIs(fd, b, c)
      BY <3>1, WayOf
    <3>3. Carries(Weights(hostPosts', No(fd)), c, Made(fd))
      <4>1. CASE hostPosts' = hostPosts
        BY <3>2, <4>1 DEF WayIs
      <4>2. ASSUME NEW ok \in BOOLEAN, hostPosts' = Append(hostPosts, Written(ok))
            PROVE  Carries(Weights(hostPosts', No(fd)), c, Made(fd))
        <5>0. Written(ok) \in HostPosts /\ Written(ok).kind = "written"
          BY HostPostFacts
        <5>1. Written(ok) \in Msgs /\ Written(ok).kind # "output"
          BY <5>0, HostPostFacts
        <5>2. Written(ok) \in Msgs /\ No(fd)[Written(ok)] = 0 /\ No(fd) \in [Msgs -> Nat]
          BY <5>0, <5>1, NoFacts
        <5>3. hostPosts \in Seq(Msgs)
          BY QueuesOfMsgs
        <5> HIDE DEF No
        <5>4. QED
          BY <3>2, <4>2, <5>2, <5>3, CarriesAppend DEF WayIs
      <4>3. QED
        BY <2>1, <4>1, <4>2
    <3>4. WayIs(fd, b, c)'
      BY <2>1, <2>3, <3>2, <3>3 DEF WayIs
    <3>5. QED
      BY <3>4, WayOfNext
  <2>5. \A fd \in Fds : read'[fd] <= wrote'[fd] /\ wrote[fd] <= wrote'[fd] /\ wrote'[fd] = wrote[fd]
    BY <2>1, OutputTyped DEF OutputInv
  <2>6. QED
    BY <2>1, <2>4, <2>5, OutputKept
<1>3. QED
  BY <1>1, <1>2

LEMMA OutputReader ==
  ASSUME Typed, Typed', SpawnInv, OutputInv, NEW f \in Fds, Reader(f)
  PROVE  OutputInv'
<1>1. /\ UNCHANGED <<proc, wrote, backlog, toEditor, link, finished, out, owner, got>> /\ job = "live"
  BY DEF Reader, procVars, flowVars, editorSide, relayVars, ownerVars
<1>2. proc # "none"
  BY <1>1 DEF SpawnInv
<1>3. /\ hostPosts \in Seq(Msgs) /\ read \in [Fds -> 0..MaxOut + 1]
  BY QueuesOfMsgs DEF Typed, JobTyped
<1>4. \A fd \in Fds : read[fd] \in Nat /\ wrote[fd] \in Nat /\ read[fd] <= wrote[fd]
  BY OutputTyped DEF OutputInv
<1>5. ASSUME \A fd \in Fds : read'[fd] <= wrote[fd],
             NEW x \in HostPosts, hostPosts' = Append(hostPosts, x),
             \A fd \in Fds : \/ read'[fd] = read[fd] /\ No(fd)[x] = 0
                             \/ read'[fd] = read[fd] + 1 /\ No(fd)[x] = read[fd] + 1
      PROVE  OutputInv'
  <2>1. ASSUME NEW fd \in Fds, owner = "up", link' PROVE OnItsWay(fd)'
    <3>1. OnItsWay(fd)
      BY <1>1, <2>1 DEF OutputInv
    <3>2. PICK b \in Nat, c \in Nat : WayIs(fd, b, c)
      BY <3>1, WayOf
    <3>3. /\ Arrived(fd)' = Arrived(fd) /\ Made(fd) = read[fd] /\ Made(fd)' = read'[fd]
      BY <1>1, <1>2 DEF Arrived, Made
    <3>4. x \in Msgs /\ No(fd) \in [Msgs -> Nat]
      BY HostPostFacts, NoFacts
    <3>5. Carries(Weights(hostPosts, No(fd)), c, read[fd])
      BY <3>2, <3>3 DEF WayIs
    <3> HIDE DEF No
    <3>6. Carries(Weights(hostPosts', No(fd)), c, read'[fd])
      BY <1>3, <1>5, <3>4, <3>5, CarriesAppend
    <3>7. WayIs(fd, b, c)'
      BY <1>1, <3>2, <3>3, <3>6 DEF WayIs
    <3>8. QED
      BY <3>7, WayOfNext
  <2>2. \A fd \in Fds : read'[fd] <= wrote'[fd] /\ wrote[fd] <= wrote'[fd] /\ wrote'[fd] = wrote[fd]
    BY <1>1, <1>4, <1>5
  <2>3. QED
    BY <1>1, <2>1, <2>2, OutputKept
<1>6. CASE read[f] < wrote[f] /\ read' = [read EXCEPT ![f] = @ + 1]
           /\ hostPosts' = Append(hostPosts, Output(f, read[f] + 1))
  <2> DEFINE x == Output(f, read[f] + 1)
  <2>1. read[f] + 1 \in 1..MaxOut + 1
    <3>1. wrote[f] \in 0..MaxOut + 1 /\ MaxOut \in Nat
      BY FdFacts DEF Typed, ProcTyped
    <3>2. QED
      BY <1>4, <1>6, <3>1
  <2>2. x \in HostPosts /\ x.kind = "output" /\ x.fd = f /\ x.n = read[f] + 1
    BY <2>1, OutputFacts
  <2>3. hostPosts' = Append(hostPosts, x)
    BY <1>6
  <2> HIDE DEF x
  <2>4. \A fd \in Fds : No(fd)[x] = IF fd = f THEN read[f] + 1 ELSE 0
    BY <2>2, NoFacts
  <2>5. \A fd \in Fds : read'[fd] = IF fd = f THEN read[f] + 1 ELSE read[fd]
    BY <1>3, <1>6
  <2>6. \A fd \in Fds : read'[fd] <= wrote[fd]
    BY <1>4, <1>6, <2>5
  <2>7. \A fd \in Fds : \/ read'[fd] = read[fd] /\ No(fd)[x] = 0
                        \/ read'[fd] = read[fd] + 1 /\ No(fd)[x] = read[fd] + 1
    BY <2>4, <2>5
  <2>8. QED
    BY <1>5, <2>2, <2>3, <2>6, <2>7
<1>7. CASE read[f] = wrote[f] /\ proc = "ended" /\ hostPosts' = Append(hostPosts, EndOf(f)) /\ UNCHANGED read
  <2>1. EndOf(f) \in HostPosts /\ EndOf(f).kind # "output"
    BY EndFacts
  <2>2. \A fd \in Fds : No(fd)[EndOf(f)] = 0
    BY <2>1, NoFacts
  <2>3. QED
    BY <1>4, <1>5, <1>7, <2>1, <2>2
<1>8. QED
  BY <1>6, <1>7 DEF Reader, EndOf

LEMMA OutputHostRunsPost ==
  ASSUME Typed, Typed', DoneIsAsked, SpawnInv, OwnerInv, ReaderInv, GoneInv, OutputInv, HostRunsPost
  PROVE  OutputInv'
<1>1. PICK m \in HostPosts :
        \/ PostIsLate(m) \/ OutputIsDropped(m) \/ OutputIsSent(m) \/ OutputWaits(m)
        \/ InputIsAnswered(m) \/ OneIsDone(m) \/ JobIsDone(m)
  BY HostRunsPostCases
<1>2. HostRuns(m)
  BY <1>1 DEF PostIsLate, OutputIsDropped, OutputIsSent, OutputWaits, InputIsAnswered,
              OneIsDone, JobIsDone, OneEnd
<1>3. /\ UNCHANGED <<proc, wrote, read, released, link, finished, out, owner, got>> /\ agent
      /\ hostPosts \in Seq(Msgs) /\ hostPosts # <<>> /\ m = Head(hostPosts)
      /\ hostPosts' = Tail(hostPosts) /\ backlog \in Seq(Msgs) /\ toEditor \in Seq(EditorMsgs)
  BY <1>2, QueuesOfMsgs DEF HostRuns, procVars, relayVars, ownerVars, Typed, EditorTyped
<1>4. m \in Members(hostPosts)
  BY <1>3, MembersTail
<1>5. \A fd \in Fds : read'[fd] <= wrote'[fd] /\ wrote[fd] <= wrote'[fd] /\ wrote'[fd] = wrote[fd]
  BY <1>3, OutputTyped DEF OutputInv
<1>6. SUFFICES ASSUME NEW fd \in Fds, owner = "up", link PROVE OnItsWay(fd)'
  BY <1>3, <1>5, <1>6, OutputKept
<1>7. PICK b \in Nat, c \in Nat : WayIs(fd, b, c)
  <2>1. OnItsWay(fd)
    BY <1>6 DEF OutputInv
  <2>2. QED
    BY <2>1, WayOf
<1> DEFINE a == Arrived(fd)
           e == Made(fd)
           v == No(fd)
<1>8. Arrived(fd)' = a /\ Made(fd)' = e
  BY <1>3 DEF Arrived, Made
<1>9. /\ Carries(Weights(toEditor, v), a, b) /\ Carries(Weights(backlog, v), b, c)
      /\ Carries(Weights(hostPosts, v), c, e) /\ v \in [Msgs -> Nat]
  BY <1>7, NoFacts DEF WayIs
<1>10. ASSUME NEW d \in Nat, NEW f \in Nat,
              /\ Carries(Weights(toEditor', v), a, d) /\ Carries(Weights(backlog', v), d, f)
              /\ Carries(Weights(hostPosts', v), f, e)
       PROVE  OnItsWay(fd)'
  <2>1. WayIs(fd, d, f)'
    BY <1>8, <1>10 DEF WayIs
  <2>2. QED
    BY <2>1, WayOfNext
<1>11. m \in HostPosts /\ ~released
  BY <1>6 DEF OwnerInv
<1>12. m.kind # "output" => v[m] = 0
  BY NoFacts
<1>13. ASSUME m.kind = "output"
       PROVE  /\ m.fd \in Fds /\ m.n \in 1..MaxOut + 1 /\ Chunk(m.fd, m.n) \in ChunkMsgs
              /\ v[Chunk(m.fd, m.n)] = v[m]
  <2>1. m.fd \in Fds /\ m.n \in 1..MaxOut + 1
    BY <1>13, HostPostFacts
  <2>2. Chunk(m.fd, m.n) \in ChunkMsgs
    BY <2>1, EditorMsgFacts
  <2>3. Chunk(m.fd, m.n).fd = m.fd /\ Chunk(m.fd, m.n).n = m.n
    BY DEF Chunk
  <2>4. v[Chunk(m.fd, m.n)] = IF m.fd = fd THEN m.n ELSE 0
    BY <2>2, <2>3, NoFacts
  <2>5. v[m] = IF m.fd = fd THEN m.n ELSE 0
    BY <1>13, NoFacts
  <2>6. QED
    BY <2>1, <2>2, <2>4, <2>5
<1> HIDE DEF a, e, v
<1>14. /\ v[m] = 0 => Carries(Weights(hostPosts', v), c, e)
       /\ v[m] # 0 => v[m] = c + 1 /\ Carries(Weights(hostPosts', v), c + 1, e)
  BY <1>3, <1>9, CarriesTail
<1>15. \A s \in Seq(EditorMsgs) : SendToEditor(s) =>
         /\ \A d : Carries(Weights(s, v), b, d) => Carries(Weights(toEditor', v), a, d)
         /\ (\A x \in Members(s) : v[x] = 0) => Carries(Weights(toEditor', v), a, b)
  BY <1>6, <1>9, SentCarries DEF v
<1>16. CASE PostIsLate(m)
  <2>1. job # "live" /\ UNCHANGED <<backlog, toEditor>>
    BY <1>16 DEF PostIsLate, flowVars
  <2>2. proc # "none" /\ job # "none"
    BY <1>3 DEF SpawnInv
  <2>3. exited /\ stderrDone
    BY <1>3, <2>1, <2>2 DEF GoneInv, Typed, JobTyped
  <2>4. \A f \in Fds : ~Outputs(hostPosts, f)
    BY <2>3 DEF ReaderInv, Ended
  <2>5. m.kind # "output"
    BY <1>4, <2>4, HostPostFacts DEF Outputs, Of
  <2>6. QED
    BY <1>9, <1>10, <1>12, <1>14, <2>1, <2>5
<1>17. CASE OutputIsDropped(m)
  BY <1>11, <1>17 DEF OutputIsDropped
<1>18. CASE OutputIsSent(m)
  <2> DEFINE x == Chunk(m.fd, m.n)
             s == <<x>>
  <2>1. m.kind = "output" /\ backlog = <<>> /\ backlog' = <<>> /\ SendToEditor(s)
    BY <1>18 DEF OutputIsSent
  <2>2. x \in ChunkMsgs /\ x \in EditorMsgs /\ v[x] = v[m]
    BY <1>13, <2>1, EditorMsgFacts
  <2>3. b = c
    BY <1>9, <2>1, CarriesEmpty
  <2> HIDE DEF x
  <2>4. s \in Seq(EditorMsgs) /\ Members(s) = {x} /\ s = Append(<<>>, x) /\ <<>> \in Seq(Msgs) /\ x \in Msgs
    <3>1. Members(s) = {x}
      BY MembersOne
    <3>2. x \in Msgs
      BY <2>2, EditorMsgFacts
    <3>3. s \in Seq(EditorMsgs) /\ s = Append(<<>>, x) /\ <<>> \in Seq(Msgs)
      BY <2>2
    <3>4. QED
      BY <3>1, <3>2, <3>3
  <2>5. /\ v[x] = 0 => Carries(Weights(toEditor', v), a, c)
        /\ v[x] = c + 1 => Carries(Weights(toEditor', v), a, c + 1)
    <3>1. Carries(Weights(<<>>, v), c, c)
      BY CarriesEmpty
    <3>2. v[x] = c + 1 => Carries(Weights(s, v), c, c + 1)
      <4> HIDE DEF s
      <4>1. v[x] = c + 1 => Carries(Weights(Append(<<>>, x), v), c, c + 1)
        BY <1>9, <2>4, <3>1, CarriesAppend
      <4>2. QED
        BY <2>4, <4>1
    <3> HIDE DEF s
    <3>3. v[x] = 0 => \A y \in Members(s) : v[y] = 0
      BY <2>4
    <3>4. QED
      BY <1>15, <2>1, <2>3, <2>4, <3>2, <3>3
  <2>6. \A d \in Nat : Carries(Weights(backlog', v), d, d)
    BY <2>1, CarriesEmpty
  <2>7. CASE v[m] = 0
    BY <1>10, <1>14, <2>2, <2>5, <2>6, <2>7
  <2>8. CASE v[m] # 0
    <3>1. c + 1 \in Nat
      OBVIOUS
    <3>2. QED
      BY <1>10, <1>14, <2>2, <2>5, <2>6, <2>8, <3>1
  <2>9. QED
    BY <2>7, <2>8
<1>19. CASE OutputWaits(m)
  <2> DEFINE x == Chunk(m.fd, m.n)
  <2>1. m.kind = "output" /\ backlog' = Append(backlog, x) /\ toEditor' = toEditor
    BY <1>19 DEF OutputWaits
  <2>2. x \in Msgs /\ v[x] = v[m]
    BY <1>13, <2>1, EditorMsgFacts
  <2> HIDE DEF x
  <2>3. /\ v[x] = 0 => Carries(Weights(backlog', v), b, c)
        /\ v[x] = c + 1 => Carries(Weights(backlog', v), b, c + 1)
    BY <1>3, <1>9, <2>1, <2>2, CarriesAppend
  <2>4. c + 1 \in Nat
    OBVIOUS
  <2>5. CASE v[m] = 0
    BY <1>9, <1>10, <1>14, <2>1, <2>2, <2>3, <2>5
  <2>6. CASE v[m] # 0
    BY <1>9, <1>10, <1>14, <2>1, <2>2, <2>3, <2>4, <2>6
  <2>7. QED
    BY <2>5, <2>6
<1>20. CASE InputIsAnswered(m)
  <2> DEFINE x == Answer(Head(answers), m.ok)
             s == <<x>>
  <2>1. m.kind = "written" /\ SendToEditor(s) /\ backlog' = backlog
    BY <1>20 DEF InputIsAnswered, flowVars
  <2>2. x \in EditorMsgs /\ x.kind = "answer"
    <3>1. x \in EditorMsgs
      BY <1>20, AnswerIsTyped
    <3>2. x.kind = "answer"
      BY DEF Answer
    <3>3. QED
      BY <3>1, <3>2
  <2> HIDE DEF x
  <2>3. v[x] = 0
    BY <2>2, NoFacts DEF v
  <2>4. s \in Seq(EditorMsgs) /\ Members(s) = {x}
    BY <2>2, MembersOne
  <2> HIDE DEF s
  <2>5. Carries(Weights(toEditor', v), a, b)
    BY <1>15, <2>1, <2>3, <2>4
  <2>6. QED
    BY <1>9, <1>10, <1>12, <1>14, <2>1, <2>5
<1>21. CASE OneIsDone(m) \/ JobIsDone(m)
  <2>1. OneEnd(m)
    BY <1>21 DEF OneIsDone, JobIsDone
  <2>2. m.kind # "output" /\ backlog' = backlog
    BY <2>1, HostPostFacts DEF OneEnd
  <2>3. Carries(Weights(toEditor', v), a, b)
    <3>1. CASE OneIsDone(m)
      BY <1>9, <3>1 DEF OneIsDone
    <3>2. CASE JobIsDone(m)
      <4> DEFINE s == LastOnes(~held')
      <4>1. s \in Seq(EditorMsgs) /\ \A i \in 1..Len(s) : s[i].kind \in {"answer", "result"}
        <5>1. (~held') \in BOOLEAN
          OBVIOUS
        <5>2. QED
          BY <5>1, LastOnesCarryNothing
      <4>2. SendToEditor(s)
        BY <3>2 DEF JobIsDone
      <4> HIDE DEF s
      <4>3. \A x \in Members(s) : x \in EditorMsgs /\ x.kind \in {"answer", "result"}
        BY <4>1, MembersTyped DEF Members
      <4>4. \A x \in Members(s) : v[x] = 0
        BY <4>3, NoFacts DEF v
      <4>5. QED
        BY <1>15, <4>1, <4>2, <4>4
    <3>3. QED
      BY <1>21, <3>1, <3>2
  <2>4. QED
    BY <1>9, <1>10, <1>12, <1>14, <2>2, <2>3
<1>22. QED
  BY <1>1, <1>16, <1>17, <1>18, <1>19, <1>20, <1>21

LEMMA OutputSpawned ==
  ASSUME Typed, Typed', SpawnInv, OutputInv, NEW m \in HostMsgs, Spawns(m) \/ SpawnFails(m)
  PROVE  OutputInv'
<1>1. Hears(m) /\ m = Spawn /\ UNCHANGED backlog
  BY DEF Spawns, SpawnFails, flowVars
<1>2. /\ UNCHANGED <<hostPosts, read, link, finished, out, owner, got>>
      /\ toHost \in Seq(HostMsgs) /\ toHost # <<>> /\ m = Head(toHost)
  BY <1>1 DEF Hears, relayVars, ownerVars, Typed, EditorTyped
<1>3. m \in Members(toHost)
  BY <1>2, MembersTail
<1>4. /\ proc = "none" /\ toEditor = <<>> /\ backlog = <<>> /\ hostPosts = <<>> /\ finished # "exit"
      /\ \A fd \in Fds : wrote[fd] = 0 /\ read[fd] = 0
  BY <1>1, <1>3 DEF SpawnInv
<1>5. \A fd \in Fds : Arrived(fd)' = Arrived(fd)
  BY <1>2 DEF Arrived
<1>6. ASSUME NEW fd \in Fds, owner = "up", link PROVE Arrived(fd) = 0
  <2>1. OnItsWay(fd)
    BY <1>6 DEF OutputInv
  <2>2. PICK b \in Nat, c \in Nat : WayIs(fd, b, c)
    BY <2>1, WayOf
  <2>3. Arrived(fd) = b /\ b = c /\ c = Made(fd)
    BY <1>4, <2>2, CarriesEmpty DEF WayIs
  <2>4. QED
    BY <1>4, <2>3 DEF Made
<1>7. CASE Spawns(m)
  <2>1. UNCHANGED <<wrote, toEditor>> /\ proc' = "running"
    BY <1>7 DEF Spawns
  <2>2. \A fd \in Fds : Made(fd)' = Made(fd)
    BY <1>2, <1>4, <2>1 DEF Made
  <2>3. \A fd \in Fds : OnItsWay(fd)' <=> OnItsWay(fd)
    BY <1>1, <1>2, <1>5, <2>1, <2>2 DEF OnItsWay
  <2>4. \A fd \in Fds : owner = "up" /\ link' => OnItsWay(fd)'
    BY <1>2, <2>3 DEF OutputInv
  <2>5. \A fd \in Fds : read'[fd] <= wrote'[fd] /\ wrote[fd] <= wrote'[fd] /\ wrote'[fd] = wrote[fd]
    BY <1>2, <1>4, <2>1
  <2>6. QED
    BY <1>2, <2>4, <2>5, OutputKept
<1>8. CASE SpawnFails(m)
  <2>1. /\ wrote' = [fd \in Fds |-> IF fd = 2 THEN 1 ELSE 0] /\ proc' = proc
        /\ SendToEditor(<<SpawnFailed>>)
    BY <1>8 DEF SpawnFails
  <2>2. ASSUME NEW fd \in Fds, owner = "up", link' PROVE OnItsWay(fd)'
    <3>0. PICK d \in Nat : d = IF fd = 2 THEN 1 ELSE 0
      OBVIOUS
    <3> DEFINE s == <<SpawnFailed>>
               v == No(fd)
    <3>1. d \in Nat /\ (d = IF fd = 2 THEN 1 ELSE 0) /\ Made(fd)' = d
      BY <1>4, <2>1, <3>0 DEF Made
    <3>2. Arrived(fd) = 0 /\ link
      BY <1>2, <1>6, <2>2
    <3>3. v[SpawnFailed] = d /\ v \in [Msgs -> Nat] /\ SpawnFailed \in EditorMsgs /\ SpawnFailed \in Msgs
      BY <3>1, NoFacts, EditorMsgFacts
    <3>4. Carries(Weights(toEditor, v), 0, 0)
      BY <1>4, CarriesEmpty
    <3> HIDE DEF v
    <3>5. Carries(Weights(s, v), 0, d)
      <4>1. s = Append(<<>>, SpawnFailed) /\ <<>> \in Seq(Msgs)
        OBVIOUS
      <4>2. Carries(Weights(<<>>, v), 0, 0)
        BY CarriesEmpty
      <4>3. /\ v[SpawnFailed] = 0 => Carries(Weights(Append(<<>>, SpawnFailed), v), 0, 0)
            /\ v[SpawnFailed] = 0 + 1 => Carries(Weights(Append(<<>>, SpawnFailed), v), 0, 0 + 1)
        <5> DEFINE q == <<>>
        <5>1. q \in Seq(Msgs) /\ Carries(Weights(q, v), 0, 0)
          BY <4>1, <4>2
        <5> HIDE DEF q
        <5>2. /\ v[SpawnFailed] = 0 => Carries(Weights(Append(q, SpawnFailed), v), 0, 0)
              /\ v[SpawnFailed] = 0 + 1 => Carries(Weights(Append(q, SpawnFailed), v), 0, 0 + 1)
          BY <3>3, <5>1, CarriesAppend
        <5>3. QED
          BY <5>2 DEF q
      <4>4. (d = 0 \/ d = 1) /\ 0 + 1 = 1
        BY <3>1
      <4>5. QED
        BY <3>3, <4>1, <4>3, <4>4
    <3>6. s \in Seq(EditorMsgs)
      BY <3>3
    <3>7. Carries(Weights(toEditor', v), 0, d)
      <4> HIDE DEF s
      <4>1. SendToEditor(s)
        BY <2>1 DEF s
      <4>2. QED
        BY <3>2, <3>4, <3>5, <3>6, <4>1, SentCarries DEF v
    <3>8. backlog' = <<>> /\ hostPosts' = <<>>
      BY <1>1, <1>2, <1>4
    <3>9. Carries(Weights(backlog', v), d, d) /\ Carries(Weights(hostPosts', v), d, d)
      BY <3>1, <3>8, CarriesEmpty
    <3>10. WayIs(fd, d, d)'
      BY <1>5, <3>1, <3>2, <3>7, <3>9 DEF WayIs, v
    <3>11. QED
      BY <3>1, <3>10, WayOfNext
  <2>3. \A fd \in Fds : read'[fd] <= wrote'[fd] /\ wrote[fd] <= wrote'[fd]
    BY <1>2, <1>4, <2>1
  <2>4. QED
    BY <1>2, <1>4, <2>2, <2>3, OutputKept
<1>9. QED
  BY <1>7, <1>8

LEMMA OutputHostReceives ==
  ASSUME Typed, Typed', SpawnInv, OutputInv, HostReceives
  PROVE  OutputInv'
<1>1. PICK m \in HostMsgs :
        \/ Spawns(m) \/ SpawnFails(m)
        \/ \E n \in 0..MaxIn : InputIsQueued(m, n) \/ InputIsRefused(m, n)
        \/ JobIsReleased(m) \/ HeardLate(m)
        \/ \E k \in 0..Len(backlog) : LiveCredit(m, k) \/ LateCredit(m, k)
  BY HostReceivesCases
<1>2. Hears(m)
  BY <1>1 DEF Spawns, SpawnFails, InputIsQueued, InputIsRefused, JobIsReleased, HeardLate,
              LiveCredit, LateCredit, CreditArrives
<1>3. UNCHANGED <<hostPosts, read, link, finished, out, owner, got>>
  BY <1>2 DEF Hears, relayVars, ownerVars
<1>4. CASE Spawns(m) \/ SpawnFails(m)
  BY <1>4, OutputSpawned
<1>5. CASE (\E n \in 0..MaxIn : InputIsQueued(m, n)) \/ JobIsReleased(m) \/ HeardLate(m)
  <2>1. UNCHANGED <<proc, wrote, backlog, toEditor>>
    BY <1>5 DEF InputIsQueued, JobIsReleased, HeardLate, flowVars
  <2>2. QED
    BY <1>3, <2>1, OutputUnchanged DEF outputVars
<1>6. \A fd \in Fds : read[fd] <= wrote[fd] /\ wrote[fd] <= wrote[fd]
  BY OutputTyped DEF OutputInv
<1>7. ASSUME NEW n \in 0..MaxIn, InputIsRefused(m, n) PROVE OutputInv'
  <2> DEFINE x == Answer(n, FALSE)
             s == <<x>>
  <2>1. UNCHANGED <<proc, wrote, backlog>> /\ SendToEditor(s)
    BY <1>7 DEF InputIsRefused, flowVars
  <2>2. x \in EditorMsgs /\ x.kind = "answer"
    <3>1. x \in EditorMsgs
      BY EditorMsgFacts
    <3>2. x.kind = "answer"
      BY DEF Answer
    <3>3. QED
      BY <3>1, <3>2
  <2> HIDE DEF x
  <2>3. s \in Seq(EditorMsgs) /\ Members(s) = {x}
    BY <2>2, MembersOne
  <2> HIDE DEF s
  <2>4. ASSUME NEW fd \in Fds, owner = "up", link' PROVE OnItsWay(fd)'
    <3>1. OnItsWay(fd) /\ link
      BY <1>3, <2>4 DEF OutputInv
    <3>2. PICK b \in Nat, c \in Nat : WayIs(fd, b, c)
      BY <3>1, WayOf
    <3>3. Arrived(fd)' = Arrived(fd) /\ Made(fd)' = Made(fd)
      BY <1>3, <2>1 DEF Arrived, Made
    <3>4. \A y \in Members(s) : No(fd)[y] = 0
      BY <2>2, <2>3, NoFacts
    <3>5. Carries(Weights(toEditor', No(fd)), Arrived(fd), b)
      <4>1. Carries(Weights(toEditor, No(fd)), Arrived(fd), b)
        BY <3>2 DEF WayIs
      <4> HIDE DEF No
      <4>2. QED
        BY <2>1, <2>3, <3>1, <3>4, <4>1, SentCarries
    <3>6. WayIs(fd, b, c)'
      BY <1>3, <2>1, <3>2, <3>3, <3>5 DEF WayIs
    <3>7. QED
      BY <3>6, WayOfNext
  <2>5. QED
    BY <1>3, <1>6, <2>1, <2>4, OutputKept
<1>8. ASSUME NEW k \in 0..Len(backlog), LiveCredit(m, k) \/ LateCredit(m, k) PROVE OutputInv'
  <2> DEFINE p == SubSeq(backlog, 1, k)
             r == SubSeq(backlog, k + 1, Len(backlog))
             z == IF backlog' = <<>> THEN <<Result>> ELSE <<>>
  <2>1. /\ backlog' = r /\ UNCHANGED <<proc, wrote>>
        /\ SendToEditor(p) \/ SendToEditor(p \o z)
    BY <1>8 DEF LiveCredit, LateCredit, CreditArrives
  <2>2. p \in Seq(ChunkMsgs) /\ backlog \in Seq(ChunkMsgs) /\ backlog \in Seq(Msgs) /\ toEditor \in Seq(Msgs)
    <3>1. backlog \in Seq(ChunkMsgs)
      BY DEF Typed, JobTyped
    <3>2. p \in Seq(ChunkMsgs)
      BY <3>1, PartOfQueue
    <3>3. backlog \in Seq(Msgs) /\ toEditor \in Seq(Msgs)
      BY QueuesOfMsgs
    <3> HIDE DEF p
    <3>4. QED
      BY <3>1, <3>2, <3>3
  <2>3. p \in Seq(Msgs) /\ p \in Seq(EditorMsgs) /\ ChunkMsgs \subseteq EditorMsgs
    <3> HIDE DEF p
    <3>1. ChunkMsgs \subseteq EditorMsgs /\ ChunkMsgs \subseteq Msgs
      BY EditorMsgFacts
    <3>2. Seq(ChunkMsgs) \subseteq Seq(EditorMsgs) /\ Seq(ChunkMsgs) \subseteq Seq(Msgs)
      BY <3>1, WiderQueues
    <3>3. QED
      BY <2>2, <3>1, <3>2
  <2>4. z \in Seq(EditorMsgs) /\ \A x \in Members(z) : x = Result
    <3>1. Members(<<Result>>) = {Result} /\ Members(<<>>) = {}
      BY MembersOne, MembersNone
    <3>2. Result \in EditorMsgs
      BY EditorMsgFacts
    <3>3. <<Result>> \in Seq(EditorMsgs) /\ <<>> \in Seq(EditorMsgs)
      BY <3>2
    <3>4. z = <<Result>> \/ z = <<>>
      OBVIOUS
    <3> HIDE DEF z
    <3>5. CASE z = <<Result>>
      BY <3>1, <3>3, <3>5, Zenon
    <3>6. CASE z = <<>>
      BY <3>1, <3>3, <3>6, Zenon
    <3>7. QED
      BY <3>4, <3>5, <3>6
  <2> HIDE DEF z
  <2>5. z \in Seq(Msgs)
    BY <2>4, EditorMsgFacts, WiderQueues
  <2>6. ASSUME NEW fd \in Fds, owner = "up", link' PROVE OnItsWay(fd)'
    <3> DEFINE v == No(fd)
               a == Arrived(fd)
    <3>1. OnItsWay(fd) /\ link
      BY <1>3, <2>6 DEF OutputInv
    <3>2. PICK b \in Nat, c \in Nat : WayIs(fd, b, c)
      BY <3>1, WayOf
    <3>3. Arrived(fd)' = Arrived(fd) /\ Made(fd)' = Made(fd)
      BY <1>3, <2>1 DEF Arrived, Made
    <3>4. Carries(Weights(toEditor, v), a, b) /\ Carries(Weights(backlog, v), b, c) /\ v \in [Msgs -> Nat]
      <4>1. v \in [Msgs -> Nat]
        BY NoFacts
      <4>2. Carries(Weights(toEditor, No(fd)), Arrived(fd), b) /\ Carries(Weights(backlog, No(fd)), b, c)
        BY <3>2, Zenon DEF WayIs
      <4>3. QED
        BY <4>1, <4>2, Zenon
    <3>5. \A x \in Members(z) : v[x] = 0
      <4>1. Result \in EditorMsgs /\ Result.kind \in {"answer", "result"}
        BY EditorMsgFacts
      <4>2. v[Result] = 0
        BY <4>1, NoFacts
      <4>3. QED
        BY <2>4, <4>2
    <3> HIDE DEF v, a
    <3>6. PICK d \in Nat : /\ Carries(Weights(toEditor \o p, v), a, d)
                           /\ Carries(Weights(r, v), d, c)
      BY <2>2, <3>4, CarriesPart
    <3> HIDE DEF p, r
    <3>7. CASE SendToEditor(p)
      <4>1. toEditor' = toEditor \o p
        BY <3>1, <3>7 DEF SendToEditor
      <4>2. WayIs(fd, d, c)'
        BY <1>3, <2>1, <3>2, <3>3, <3>6, <4>1 DEF WayIs, v, a
      <4>3. QED
        BY <4>2, WayOfNext
    <3>8. CASE SendToEditor(p \o z)
      <4>1. toEditor' = toEditor \o (p \o z)
        BY <3>1, <3>8 DEF SendToEditor
      <4>2. toEditor \o (p \o z) = (toEditor \o p) \o z /\ toEditor \o p \in Seq(Msgs)
        <5>1. toEditor \in Seq(Msgs) /\ p \in Seq(Msgs) /\ z \in Seq(Msgs)
          BY <2>2, <2>3, <2>5
        <5>2. toEditor \o (p \o z) = (toEditor \o p) \o z
          <6>1. \A x, y, u \in Seq(Msgs) : (x \o y) \o u = x \o (y \o u)
            BY ConcatAssociative, SMTT(30)
          <6>2. QED
            BY <5>1, <6>1
        <5>3. toEditor \o p \in Seq(Msgs)
          BY <5>1, ConcatProperties
        <5>4. QED
          BY <5>2, <5>3
      <4>3. Carries(Weights(z, v), d, d)
        BY <2>5, <3>4, <3>5, CarriesQuiet
      <4> DEFINE q == toEditor \o p
      <4>4. q \in Seq(Msgs) /\ Carries(Weights(q, v), a, d)
        BY <3>6, <4>2
      <4> HIDE DEF q
      <4>5. Carries(Weights(q \o z, v), a, d)
        BY <2>5, <3>4, <4>3, <4>4, CarriesJoin
      <4>6. Carries(Weights(toEditor', v), a, d)
        BY <4>1, <4>2, <4>5 DEF q
      <4>7. WayIs(fd, d, c)'
        BY <1>3, <2>1, <3>2, <3>3, <3>6, <4>6 DEF WayIs, v, a
      <4>8. QED
        BY <4>7, WayOfNext
    <3>9. QED
      BY <2>1, <3>7, <3>8
  <2>7. \A fd \in Fds : read'[fd] <= wrote'[fd] /\ wrote[fd] <= wrote'[fd] /\ wrote'[fd] = wrote[fd]
    BY <1>3, <1>6, <2>1
  <2>8. QED
    BY <1>3, <2>6, <2>7, OutputKept
<1>9. QED
  BY <1>1, <1>4, <1>5, <1>7, <1>8

LEMMA OutputAgentSeesEnd ==
  ASSUME Typed, Typed', OutputInv, AgentSeesEnd
  PROVE  OutputInv'
<1>1. UNCHANGED <<wrote, read, link, finished, out, owner, got>> /\ ~link
  BY DEF AgentSeesEnd, editorSide, relayVars, ownerVars
<1>2. \A fd \in Fds : read[fd] <= wrote[fd] /\ wrote[fd] <= wrote[fd]
  BY OutputTyped DEF OutputInv
<1>3. QED
  BY <1>1, <1>2, OutputKept

\* Where the owner is: what its output then has.
LEMMA OutputMoves ==
  ASSUME Typed, OutputInv, UNCHANGED <<wrote, read, owner, got>>,
         \A fd \in Fds : owner = "up" =>
           /\ \A i \in 1..Len(out'[fd]) : out'[fd][i] = Len(got[fd]) + i
           /\ Arrived(fd)' <= wrote[fd]
           /\ link' => OnItsWay(fd)'
           /\ finished' = "exit" => Arrived(fd)' = wrote[fd]
  PROVE  OutputInv'
BY DEF OutputInv

\* All there is of a queue of chunks comes to no more than was written.
LEMMA WayBounds ==
  ASSUME Typed, OutputInv, NEW fd \in Fds, NEW b \in Nat, NEW c \in Nat, WayIs(fd, b, c)
  PROVE  Arrived(fd) <= b /\ b <= c /\ c <= Made(fd) /\ Made(fd) <= wrote[fd] /\ b <= wrote[fd]
<1>1. Arrived(fd) <= b /\ b <= c /\ c <= Made(fd)
  BY DEF WayIs, Carries
<1>2. Made(fd) <= wrote[fd]
  BY OutputTyped DEF Made, OutputInv
<1>3. Made(fd) \in Nat /\ wrote[fd] \in Nat
  BY OutputTyped
<1>4. \A x, y, z, w \in Nat : x <= y /\ y <= z /\ z <= w => x <= w
  OBVIOUS
<1>5. QED
  BY <1>1, <1>2, <1>3, <1>4

LEMMA OutputArrives ==
  ASSUME Typed, OwnerInv, AnswerInv, OutputInv, NEW m \in EditorMsgs, Gets(m), ChunkIsKept(m)
  PROVE  OutputInv'
<1>1. /\ UNCHANGED <<proc, wrote, read, hostPosts, backlog, link, finished, owner, got>>
      /\ toEditor \in Seq(EditorMsgs) /\ toEditor # <<>> /\ m = Head(toEditor)
      /\ toEditor' = Tail(toEditor) /\ out' = [out EXCEPT ![m.fd] = Append(@, m.n)] /\ m \in ChunkMsgs
  BY DEF ChunkIsKept, Gets, procVars, jobVars, flowVars, ownerVars, Typed, EditorTyped
<1>2. m \in Members(toEditor)
  BY <1>1, MembersTail
<1>3. link
  BY <1>2, MembersNone DEF AnswerInv
<1>4. finished # "exit"
  BY <1>1, <1>2, EditorMsgFacts DEF AnswerInv
<1>5. m.fd \in Fds /\ m.n \in 1..MaxOut + 1
  BY <1>1, EditorMsgFacts
<1>6. out \in [Fds -> Seq(1..MaxOut + 1)]
  BY DEF Typed, EditorTyped
<1>7. ASSUME NEW fd \in Fds, owner = "up"
      PROVE  /\ \A i \in 1..Len(out'[fd]) : out'[fd][i] = Len(got[fd]) + i
             /\ Arrived(fd)' <= wrote[fd]
             /\ link' => OnItsWay(fd)'
             /\ finished' = "exit" => Arrived(fd)' = wrote[fd]
  <2>0. OnItsWay(fd) /\ \A i \in 1..Len(out[fd]) : out[fd][i] = Len(got[fd]) + i
    BY <1>3, <1>7 DEF OutputInv
  <2>1. PICK b \in Nat, c \in Nat : WayIs(fd, b, c)
    BY <2>0, WayOf
  <2> DEFINE v == No(fd)
             a == Arrived(fd)
  <2>2. v \in [Msgs -> Nat] /\ v[m] = IF m.fd = fd THEN m.n ELSE 0
    BY <1>1, NoFacts
  <2>3. Carries(Weights(toEditor, v), a, b)
    BY <2>1 DEF WayIs
  <2>4. Made(fd)' = Made(fd) /\ a \in Nat /\ b <= wrote[fd] /\ wrote[fd] \in Nat
    BY <1>1, <2>1, WayBounds, OutputTyped DEF Made
  <2>5. ASSUME NEW d \in Nat, Arrived(fd)' = d, Carries(Weights(toEditor', v), d, b)
        PROVE  OnItsWay(fd)' /\ d <= wrote[fd]
    <3>1. WayIs(fd, b, c)'
      BY <1>1, <2>1, <2>4, <2>5 DEF WayIs
    <3>2. d <= b
      BY <2>5 DEF Carries
    <3>3. QED
      BY <2>4, <3>1, <3>2, WayOfNext
  <2> HIDE DEF v, a
  <2>6. toEditor \in Seq(Msgs)
    BY QueuesOfMsgs
  <2>7. /\ v[m] = 0 => Carries(Weights(toEditor', v), a, b)
        /\ v[m] # 0 => v[m] = a + 1 /\ Carries(Weights(toEditor', v), a + 1, b)
    BY <1>1, <2>2, <2>3, <2>6, CarriesTail
  <2>8. CASE m.fd = fd
    <3>1. v[m] = m.n /\ m.n # 0
      BY <1>5, <2>2, <2>8
    <3>2. out'[fd] = Append(out[fd], m.n)
      BY <1>1, <1>6, <2>8
    <3>3. out[fd] \in Seq(1..MaxOut + 1) /\ Len(got[fd]) \in Nat /\ Len(out[fd]) \in Nat
      BY OutputTyped
    <3>4. /\ Len(out'[fd]) = Len(out[fd]) + 1 /\ out'[fd][Len(out[fd]) + 1] = m.n
          /\ \A i \in 1..Len(out[fd]) : out'[fd][i] = out[fd][i]
          /\ \A i \in 1..Len(out'[fd]) : i \in 1..Len(out[fd]) \/ i = Len(out[fd]) + 1
      BY <1>5, <3>2, <3>3, MembersGrow
    <3>5. m.n = a + 1 /\ a = Len(got[fd]) + Len(out[fd])
      BY <2>7, <3>1 DEF a, Arrived
    <3>6. Arrived(fd)' = a + 1
      <4>1. \A x, y \in Nat : x + (y + 1) = (x + y) + 1
        OBVIOUS
      <4>2. Arrived(fd)' = Len(got[fd]) + (Len(out[fd]) + 1)
        BY <1>1, <3>4 DEF Arrived
      <4>3. QED
        BY <3>3, <3>5, <4>1, <4>2
    <3>7. \A i \in 1..Len(out'[fd]) : out'[fd][i] = Len(got[fd]) + i
      <4>1. \A x, y \in Nat : x + (y + 1) = (x + y) + 1
        OBVIOUS
      <4>2. m.n = Len(got[fd]) + (Len(out[fd]) + 1)
        BY <3>3, <3>5, <4>1
      <4>3. QED
        BY <2>0, <3>4, <4>2
    <3>8. Carries(Weights(toEditor', v), a + 1, b) /\ a + 1 \in Nat
      BY <2>4, <2>7, <3>1
    <3>9. OnItsWay(fd)' /\ a + 1 <= wrote[fd]
      BY <2>5, <3>6, <3>8
    <3>10. QED
      BY <1>1, <1>4, <3>6, <3>7, <3>9
  <2>9. CASE m.fd # fd
    <3>1. out'[fd] = out[fd] /\ v[m] = 0
      BY <1>1, <1>6, <2>2, <2>9
    <3>2. Arrived(fd)' = a
      BY <1>1, <3>1 DEF Arrived, a
    <3>3. OnItsWay(fd)' /\ a <= wrote[fd]
      BY <2>4, <2>5, <2>7, <3>1, <3>2
    <3>4. QED
      BY <1>1, <1>4, <2>0, <3>1, <3>2, <3>3
  <2>10. QED
    BY <2>8, <2>9
<1>8. QED
  BY <1>1, <1>7, OutputMoves

\* Behind the answer of the spawn nothing of the output is left.
LEMMA OutputIsWhole ==
  ASSUME Typed, SpawnInv, ReaderInv, AnswerInv, OutputInv, NEW m \in EditorMsgs, SpawnIsAnswered(m)
  PROVE  OutputInv'
<1>1. Gets(m)
  BY DEF SpawnIsAnswered
<1>2. /\ UNCHANGED <<proc, wrote, read, hostPosts, backlog, link, owner, got>>
      /\ toEditor \in Seq(EditorMsgs) /\ toEditor # <<>> /\ m = Head(toEditor)
      /\ toEditor' = Tail(toEditor) /\ toEditor \in Seq(Msgs) /\ toEditor' \in Seq(EditorMsgs)
  BY <1>1, QueuesOfMsgs, TailShrinks DEF Gets, procVars, jobVars, flowVars, ownerVars, Typed, EditorTyped
<1>3. m \in Members(toEditor)
  BY <1>2, MembersTail
<1>4. Final(m) /\ link
  BY <1>3, MembersNone, EditorMsgFacts DEF AnswerInv, Final, SpawnIsAnswered
<1>5. backlog = <<>>
  BY <1>3, <1>4 DEF AnswerInv
<1>6. \A x \in Members(toEditor') : x.kind = "answer" /\ x \in EditorMsgs
  <2>1. toEditor'\in Seq(EditorMsgs) /\ Members(toEditor') \subseteq EditorMsgs
    BY <1>2, MembersTyped
  <2>2. /\ Len(toEditor) \in Nat /\ Len(toEditor') = Len(toEditor) - 1
        /\ \A i \in 1..Len(toEditor') : toEditor'[i] = toEditor[i + 1] /\ i + 1 \in 1..Len(toEditor)
    BY <1>2, MembersShrink
  <2>3. 1 \in 1..Len(toEditor) /\ toEditor[1] = m
    BY <1>2, TailShrinks
  <2>4. \A i \in 1..Len(toEditor') : 1 < i + 1
    BY <2>2
  <2>5. \A i \in 1..Len(toEditor') : toEditor'[i].kind = "answer"
    BY <1>4, <2>2, <2>3, <2>4 DEF AnswerInv, AnswersFollow
  <2>6. QED
    BY <2>1, <2>5 DEF Members
<1>7. \/ m = Result /\ out' = out
      \/ /\ m = SpawnFailed
         /\ out' = [fd \in Fds |-> IF fd = 2 THEN Append(out[2], 1) ELSE out[fd]]
  <2>1. Result # SpawnFailed
    <3>1. Result.kind = "result" /\ SpawnFailed.kind = "spawn failed"
      BY EditorMsgFacts
    <3>2. QED
      BY <3>1
  <2>2. QED
    BY <2>1 DEF SpawnIsAnswered
<1>8. ASSUME NEW fd \in Fds
      PROVE  /\ \A i \in 1..Len(hostPosts) : No(fd)[hostPosts[i]] = 0
             /\ Made(fd) = wrote[fd]
  <2>1. hostPosts \in Seq(HostPosts) /\ \A i \in 1..Len(hostPosts) : hostPosts[i] \in HostPosts
    BY ElementOfSeq DEF Typed, JobTyped
  <2>2. CASE m = Result
    <3>1. exited /\ stderrDone
      BY <1>3, <2>2, EditorMsgFacts DEF AnswerInv, Over
    <3>2. Ended(fd)
      BY <3>1 DEF Ended
    <3>3. proc # "none" /\ read[fd] = wrote[fd] /\ ~Outputs(hostPosts, fd)
      BY <3>2 DEF ReaderInv
    <3>4. \A i \in 1..Len(hostPosts) : hostPosts[i].kind = "output" => hostPosts[i].fd # fd
      BY <3>3 DEF Outputs, Members, Of
    <3>5. \A i \in 1..Len(hostPosts) : No(fd)[hostPosts[i]] = 0
      BY <2>1, <3>4, NoFacts
    <3>6. QED
      BY <3>3, <3>5 DEF Made
  <2>3. CASE m = SpawnFailed
    <3>1. proc = "none"
      BY <1>3, <2>3, EditorMsgFacts DEF AnswerInv
    <3>2. hostPosts = <<>>
      BY <3>1 DEF SpawnInv
    <3>3. QED
      BY <3>1, <3>2 DEF Made
  <2>4. QED
    BY <1>7, <2>2, <2>3
<1>9. ASSUME NEW fd \in Fds, owner = "up"
      PROVE  /\ \A i \in 1..Len(out'[fd]) : out'[fd][i] = Len(got[fd]) + i
             /\ Arrived(fd)' = wrote[fd]
  <2> DEFINE v == No(fd)
             a == Arrived(fd)
  <2>0. /\ OnItsWay(fd) /\ \A i \in 1..Len(out[fd]) : out[fd][i] = Len(got[fd]) + i
        /\ v \in [Msgs -> Nat] /\ a \in Nat /\ wrote[fd] \in Nat
    BY <1>4, <1>9, NoFacts, OutputTyped DEF OutputInv
  <2>1. PICK b \in Nat, c \in Nat : WayIs(fd, b, c)
    BY <2>0, WayOf
  <2>2. /\ Carries(Weights(toEditor, v), a, b) /\ Carries(Weights(backlog, v), b, c)
        /\ Carries(Weights(hostPosts, v), c, Made(fd))
    BY <2>1 DEF WayIs
  <2>3. \A x \in Members(toEditor') : v[x] = 0
    BY <1>6, NoFacts
  <2>4. \A x \in Members(hostPosts) : v[x] = 0
    BY <1>8 DEF Members
  <2>5. v[Result] = 0 /\ v[SpawnFailed] = IF fd = 2 THEN 1 ELSE 0
    <3>1. Result \in EditorMsgs /\ Result.kind = "result"
      BY EditorMsgFacts
    <3>2. QED
      BY <3>1, NoFacts
  <2> HIDE DEF v, a
  <2>6. b = wrote[fd]
    <3>1. b = c
      BY <1>5, <2>2, CarriesEmpty
    <3>2. hostPosts \in Seq(Msgs)
      BY QueuesOfMsgs
    <3>3. c = Made(fd)
      BY <2>0, <2>2, <2>4, <3>2, CarriesQuiet
    <3>4. QED
      BY <1>8, <3>1, <3>3
  <2>7. /\ v[m] = 0 => Carries(Weights(toEditor', v), a, b)
        /\ v[m] # 0 => v[m] = a + 1 /\ Carries(Weights(toEditor', v), a + 1, b)
    BY <1>2, <2>0, <2>2, CarriesTail
  <2>8. toEditor' \in Seq(Msgs)
    BY <1>2, EditorMsgFacts, WiderQueues
  <2>9. /\ v[m] = 0 => a = b
        /\ v[m] # 0 => v[m] = a + 1 /\ a + 1 = b
    BY <2>0, <2>3, <2>7, <2>8, CarriesQuiet
  <2>10. CASE v[m] = 0
    <3>1. out'[fd] = out[fd]
      <4>1. CASE m = Result
        BY <1>7, <2>5, <4>1
      <4>2. CASE m = SpawnFailed
        <5>1. fd # 2
          BY <2>5, <2>10, <4>2
        <5>2. Result # SpawnFailed
          BY <2>5, EditorMsgFacts
        <5>3. m # Result
          BY <4>2, <5>2
        <5>4. out' = [f \in Fds |-> IF f = 2 THEN Append(out[2], 1) ELSE out[f]]
          BY <1>7, <5>3
        <5>5. QED
          BY <5>1, <5>4
      <4>3. QED
        BY <1>7, <4>1, <4>2
    <3>2. Arrived(fd)' = a
      BY <1>2, <3>1 DEF Arrived, a
    <3>3. QED
      BY <2>0, <2>6, <2>9, <2>10, <3>1, <3>2
  <2>11. CASE v[m] # 0
    <3>1. m = SpawnFailed /\ m # Result /\ fd = 2 /\ v[m] = 1
      BY <1>7, <2>5, <2>11
    <3>2. out'[fd] = Append(out[fd], 1)
      BY <1>7, <3>1
    <3>3. a + 1 = 1 /\ a + 1 = wrote[fd]
      BY <2>6, <2>9, <2>11, <3>1
    <3>4. Len(got[fd]) + Len(out[fd]) = 0 /\ Len(got[fd]) \in Nat /\ Len(out[fd]) \in Nat
      <4>1. a = 0
        BY <2>0, <3>3
      <4>2. Len(got[fd]) + Len(out[fd]) = 0
        BY <4>1 DEF a, Arrived
      <4>3. Len(got[fd]) \in Nat /\ Len(out[fd]) \in Nat
        BY OutputTyped
      <4>4. QED
        BY <4>2, <4>3
    <3>5. Len(got[fd]) = 0 /\ Len(out[fd]) = 0
      <4>1. \A x, y \in Nat : x + y = 0 => x = 0 /\ y = 0
        OBVIOUS
      <4>2. QED
        BY <3>4, <4>1
    <3>6. out[fd] \in Seq(1..MaxOut + 1) /\ 1 \in 1..MaxOut + 1
      BY OutputTyped, FdFacts
    <3>7. /\ Len(out'[fd]) = Len(out[fd]) + 1 /\ out'[fd][Len(out[fd]) + 1] = 1
          /\ \A i \in 1..Len(out'[fd]) : i \in 1..Len(out[fd]) \/ i = Len(out[fd]) + 1
      BY <3>2, <3>6, MembersGrow
    <3>8. Len(out'[fd]) = 1 /\ out'[fd][1] = 1 /\ \A i \in 1..Len(out'[fd]) : i = 1
      BY <3>5, <3>7
    <3>9. \A i \in 1..Len(out'[fd]) : out'[fd][i] = Len(got[fd]) + i
      BY <3>5, <3>8
    <3>10. Arrived(fd)' = 0 + 1
      BY <1>2, <3>5, <3>8 DEF Arrived
    <3>11. QED
      BY <3>3, <3>9, <3>10
  <2>12. QED
    BY <2>10, <2>11
<1>10. ASSUME NEW fd \in Fds, owner = "up"
       PROVE  /\ \A i \in 1..Len(out'[fd]) : out'[fd][i] = Len(got[fd]) + i
              /\ Arrived(fd)' <= wrote[fd]
              /\ link' => OnItsWay(fd)'
              /\ finished' = "exit" => Arrived(fd)' = wrote[fd]
  <2> DEFINE v == No(fd)
  <2>1. wrote[fd] \in Nat /\ Arrived(fd)' = wrote[fd] /\ Made(fd)' = wrote[fd]
    <3>1. Made(fd)' = Made(fd)
      BY <1>2 DEF Made
    <3>2. QED
      BY <1>8, <1>9, <1>10, <3>1, OutputTyped
  <2>2. \A x \in Members(toEditor') : v[x] = 0
    BY <1>6, NoFacts
  <2>3. \A x \in Members(hostPosts) : v[x] = 0
    BY <1>8 DEF Members
  <2>4. v \in [Msgs -> Nat] /\ toEditor' \in Seq(Msgs) /\ hostPosts \in Seq(Msgs)
    BY <1>2, EditorMsgFacts, WiderQueues, QueuesOfMsgs, NoFacts
  <2> HIDE DEF v
  <2>5. PICK n \in Nat : n = wrote[fd]
    BY <2>1
  <2>6. Carries(Weights(toEditor', v), n, n) /\ Carries(Weights(hostPosts, v), n, n)
    BY <2>2, <2>3, <2>4, CarriesQuiet
  <2>7. Carries(Weights(backlog, v), n, n)
    BY <1>5, CarriesEmpty
  <2>8. WayIs(fd, n, n)'
    BY <1>2, <2>1, <2>5, <2>6, <2>7 DEF WayIs, v
  <2>9. OnItsWay(fd)'
    BY <2>8, WayOfNext
  <2>10. wrote[fd] <= wrote[fd]
    BY <2>1
  <2>11. QED
    BY <1>9, <1>10, <2>1, <2>9, <2>10
<1>11. QED
  BY <1>2, <1>10, OutputMoves

\* The editor receives what the host sent, and the output is still on its way.
LEMMA OutputEditorReceives ==
  ASSUME Typed, SpawnInv, OwnerInv, ReaderInv, AnswerInv, OutputInv, EditorReceives
  PROVE  OutputInv'
<1>1. PICK m \in EditorMsgs :
        \/ ChunkIsKept(m) \/ (\E sent \in Seq(HostMsgs) : ChunkIsDiscarded(m, sent))
        \/ SpawnIsAnswered(m) \/ AnswerArrives(m)
  BY EditorReceivesCases
<1>2. CASE ChunkIsKept(m)
  <2>1. Gets(m)
    BY <1>2 DEF ChunkIsKept
  <2>2. QED
    BY <1>2, <2>1, OutputArrives
<1>3. CASE \E sent \in Seq(HostMsgs) : ChunkIsDiscarded(m, sent)
  <2>1. UNCHANGED <<wrote, read, owner, got>> /\ (owner = "released" \/ discarding)
    BY <1>3 DEF ChunkIsDiscarded, Gets, procVars, jobVars, ownerVars
  <2>2. owner # "up"
    BY <2>1 DEF OwnerInv
  <2>3. QED
    BY <2>1, <2>2, OutputMoves
<1>4. CASE SpawnIsAnswered(m)
  BY <1>4, OutputIsWhole
<1>5. CASE AnswerArrives(m)
  <2>1. /\ UNCHANGED <<proc, wrote, read, hostPosts, backlog, link, finished, out, owner, got>>
        /\ toEditor # <<>> /\ m = Head(toEditor) /\ toEditor' = Tail(toEditor) /\ m.kind = "answer"
    BY <1>5 DEF AnswerArrives, Gets, procVars, jobVars, flowVars, ownerVars
  <2>2. toEditor \in Seq(Msgs)
    BY QueuesOfMsgs
  <2>3. ASSUME NEW fd \in Fds, owner = "up"
        PROVE  /\ \A i \in 1..Len(out'[fd]) : out'[fd][i] = Len(got[fd]) + i
               /\ Arrived(fd)' <= wrote[fd]
               /\ link' => OnItsWay(fd)'
               /\ finished' = "exit" => Arrived(fd)' = wrote[fd]
    <3>1. /\ \A i \in 1..Len(out[fd]) : out[fd][i] = Len(got[fd]) + i
          /\ Arrived(fd) <= wrote[fd]
          /\ link => OnItsWay(fd)
          /\ finished = "exit" => Arrived(fd) = wrote[fd]
      BY <2>3 DEF OutputInv
    <3>2. Arrived(fd)' = Arrived(fd) /\ Made(fd)' = Made(fd)
      BY <2>1 DEF Arrived, Made
    <3>3. ASSUME link PROVE OnItsWay(fd)'
      <4>1. PICK b \in Nat, c \in Nat : WayIs(fd, b, c)
        BY <3>1, <3>3, WayOf
      <4> DEFINE v == No(fd)
      <4>2. v \in [Msgs -> Nat] /\ v[m] = 0
        BY <2>1, NoFacts
      <4>3. PICK a : a = Arrived(fd)
        OBVIOUS
      <4>4. Carries(Weights(toEditor, v), a, b)
        BY <4>1, <4>3 DEF WayIs
      <4> HIDE DEF v
      <4>5. Carries(Weights(toEditor', v), a, b)
        BY <2>1, <2>2, <4>2, <4>4, CarriesTail
      <4>6. WayIs(fd, b, c)'
        BY <2>1, <3>2, <4>1, <4>3, <4>5 DEF WayIs, v
      <4>7. QED
        BY <4>6, WayOfNext
    <3>4. QED
      BY <2>1, <3>1, <3>2, <3>3
  <2>4. QED
    BY <2>1, <2>3, OutputMoves
<1>6. QED
  BY <1>1, <1>2, <1>3, <1>4, <1>5

\* The owner is given the first of the pieces that wait for it.
LEMMA OutputDeliver ==
  ASSUME Typed, OutputInv, NEW f \in Fds, Deliver(f)
  PROVE  OutputInv'
<1>1. /\ UNCHANGED <<proc, wrote, read, hostPosts, backlog, toEditor, link, finished, owner>>
      /\ out[f] # <<>>
  BY DEF Deliver, hostSide, procVars, jobVars, flowVars
<1>2. CASE owner = "up"
  <2>1. /\ got' = [got EXCEPT ![f] = Append(@, Head(out[f]))]
        /\ out' = [out EXCEPT ![f] = Tail(@)]
    BY <1>2 DEF Deliver
  <2>2. got \in [Fds -> Seq(1..MaxOut + 1)] /\ out \in [Fds -> Seq(1..MaxOut + 1)]
    BY DEF Typed, EditorTyped, OwnerTyped
  <2>3. ASSUME NEW fd \in Fds
        PROVE  /\ \A i \in 1..Len(got'[fd]) : got'[fd][i] = i
               /\ \A i \in 1..Len(out'[fd]) : out'[fd][i] = Len(got'[fd]) + i
               /\ Arrived(fd)' = Arrived(fd)
    <3>0. /\ \A i \in 1..Len(got[fd]) : got[fd][i] = i
          /\ \A i \in 1..Len(out[fd]) : out[fd][i] = Len(got[fd]) + i
      BY <1>2 DEF OutputInv
    <3>1. CASE fd # f
      <4>1. got'[fd] = got[fd] /\ out'[fd] = out[fd]
        BY <2>1, <2>2, <3>1
      <4>2. QED
        BY <3>0, <4>1 DEF Arrived
    <3>2. CASE fd = f
      <4>1. got'[fd] = Append(got[fd], Head(out[fd])) /\ out'[fd] = Tail(out[fd])
        BY <2>1, <2>2, <3>2
      <4>2. /\ got[fd] \in Seq(1..MaxOut + 1) /\ out[fd] \in Seq(1..MaxOut + 1) /\ out[fd] # <<>>
            /\ Len(got[fd]) \in Nat /\ Len(out[fd]) \in Nat
        BY <1>1, <3>2, OutputTyped
      <4>3. Head(out[fd]) = out[fd][1] /\ Head(out[fd]) \in 1..MaxOut + 1 /\ 1 \in 1..Len(out[fd])
        BY <4>2, TailShrinks
      <4>4. Head(out[fd]) = Len(got[fd]) + 1
        BY <3>0, <4>3
      <4>5. /\ Len(got'[fd]) = Len(got[fd]) + 1 /\ got'[fd][Len(got[fd]) + 1] = Head(out[fd])
            /\ \A i \in 1..Len(got[fd]) : got'[fd][i] = got[fd][i]
            /\ \A i \in 1..Len(got'[fd]) : i \in 1..Len(got[fd]) \/ i = Len(got[fd]) + 1
        BY <4>1, <4>2, <4>3, MembersGrow
      <4>6. /\ Len(out'[fd]) = Len(out[fd]) - 1
            /\ \A i \in 1..Len(out'[fd]) : out'[fd][i] = out[fd][i + 1] /\ i + 1 \in 1..Len(out[fd])
        BY <4>1, <4>2, MembersShrink
      <4>7. \A i \in 1..Len(got'[fd]) : got'[fd][i] = i
        BY <3>0, <4>4, <4>5
      <4>8. \A i \in 1..Len(out'[fd]) : out'[fd][i] = Len(got'[fd]) + i
        <5>1. \A x, y \in Nat : x + (y + 1) = (x + 1) + y
          OBVIOUS
        <5>2. \A i \in 1..Len(out'[fd]) : i \in Nat
          BY <4>2, <4>6
        <5>3. \A i \in 1..Len(out'[fd]) : out'[fd][i] = Len(got[fd]) + (i + 1)
          BY <3>0, <4>6
        <5>4. QED
          BY <4>2, <4>5, <5>1, <5>2, <5>3
      <4>9. Arrived(fd)' = Arrived(fd)
        <5>1. \A x, y \in Nat : (x + 1) + (y - 1) = x + y
          OBVIOUS
        <5>2. Arrived(fd)' = (Len(got[fd]) + 1) + (Len(out[fd]) - 1)
          BY <4>5, <4>6 DEF Arrived
        <5>3. QED
          BY <4>2, <5>1, <5>2 DEF Arrived
      <4>10. QED
        BY <4>7, <4>8, <4>9
    <3>3. QED
      BY <3>1, <3>2
  <2>4. ASSUME NEW fd \in Fds
        PROVE  /\ Arrived(fd)' <= wrote[fd]
               /\ link' => OnItsWay(fd)'
               /\ finished' = "exit" => Arrived(fd)' = wrote[fd]
    <3>1. /\ Arrived(fd) <= wrote[fd]
          /\ link => OnItsWay(fd)
          /\ finished = "exit" => Arrived(fd) = wrote[fd]
      BY <1>2 DEF OutputInv
    <3>2. Arrived(fd)' = Arrived(fd) /\ Made(fd)' = Made(fd)
      BY <1>1, <2>3 DEF Made
    <3>3. OnItsWay(fd) => OnItsWay(fd)'
      BY <1>1, <3>2 DEF OnItsWay
    <3>4. QED
      BY <1>1, <3>1, <3>2, <3>3
  <2>5. QED
    BY <1>1, <2>3, <2>4 DEF OutputInv
<1>3. CASE owner # "up"
  <2>1. got' = got
    BY <1>3 DEF Deliver
  <2>2. QED
    BY <1>1, <1>3, <2>1, OutputMoves
<1>4. QED
  BY <1>2, <1>3

LEMMA OutputLinkEnds ==
  ASSUME OutputInv, LinkEnds
  PROVE  OutputInv'
<1>1. /\ UNCHANGED <<wrote, read, owner, got, out>> /\ ~link'
      /\ finished' = "exit" => finished = "exit"
  BY DEF LinkEnds, Finish, hostSide, procVars, jobVars, ownerVars
<1>2. QED
  BY <1>1 DEF OutputInv, Arrived

LEMMA OutputInit ==
  ASSUME Init
  PROVE  OutputInv
<1> SUFFICES ASSUME NEW fd \in Fds
    PROVE  /\ read[fd] <= wrote[fd] /\ Len(got[fd]) = 0 /\ Len(out[fd]) = 0
           /\ Arrived(fd) = 0 /\ OnItsWay(fd) /\ wrote[fd] = 0 /\ finished # "exit"
  BY DEF OutputInv
<1>1. /\ read[fd] = 0 /\ wrote[fd] = 0 /\ got[fd] = <<>> /\ out[fd] = <<>> /\ finished = "no"
      /\ toEditor = <<>> /\ backlog = <<>> /\ hostPosts = <<>> /\ proc = "none"
  BY DEF Init
<1>2. Len(got[fd]) = 0 /\ Len(out[fd]) = 0
  BY <1>1
<1>3. Arrived(fd) = 0 /\ Made(fd) = 0 /\ 0 \in Nat
  BY <1>1, <1>2 DEF Arrived, Made
<1>4. Carries(Weights(<<>>, No(fd)), 0, 0)
  BY CarriesEmpty
<1>5. WayIs(fd, 0, 0)
  BY <1>1, <1>3, <1>4 DEF WayIs
<1>6. OnItsWay(fd)
  BY <1>3, <1>5, WayOf
<1>7. QED
  BY <1>1, <1>2, <1>3, <1>6

LEMMA OutputStep ==
  ASSUME Typed, Typed', DoneIsAsked, SpawnInv, OwnerInv, ReaderInv, AnswerInv, GoneInv, OutputInv,
         [Next]_vars
  PROVE  OutputInv'
<1>1. CASE Process \/ Writer
  BY <1>1, OutputThreads
<1>2. CASE HostRunsPost
  BY <1>2, OutputHostRunsPost
<1>3. CASE HostReceives
  BY <1>3, OutputHostReceives
<1>4. CASE AgentSeesEnd
  BY <1>4, OutputAgentSeesEnd
<1>5. CASE EditorReceives
  BY <1>5, OutputEditorReceives
<1>6. CASE LinkEnds
  BY <1>6, OutputLinkEnds
<1>7. CASE \E fd \in Fds : Reader(fd) \/ Deliver(fd)
  BY <1>7, OutputReader, OutputDeliver
<1>8. CASE \/ EditorRunsPost \/ Expire \/ RelayReads \/ RelayReadsEnd \/ RelayEnds
           \/ OwnerWrites \/ CloseInput \/ UNCHANGED vars
  <2>1. UNCHANGED outputVars
    BY <1>8 DEF EditorRunsPost, Expire, RelayReads, RelayReadsEnd, RelayEnds, OwnerWrites, CloseInput,
                vars, hostSide, editorSide, procVars, jobVars, flowVars, relayVars, ownerVars, outputVars
  <2>2. QED
    BY <2>1, OutputUnchanged
<1>9. CASE HangUp \/ OwnerReleases
  <2>1. UNCHANGED <<wrote, read, got>> /\ owner' # "up"
    BY <1>9 DEF HangUp, OwnerReleases, hostSide, procVars, jobVars
  <2>2. QED
    BY <2>1 DEF OutputInv
<1>10. QED
  BY <1>1, <1>2, <1>3, <1>4, <1>5, <1>6, <1>7, <1>8, <1>9 DEF Next

-----------------------------------------------------------------------------
(* All of it is an invariant *)

LEMMA SpawnInit ==
  ASSUME Init
  PROVE  SpawnInv
<1>1. /\ toHost = <<Spawn>> /\ job = "none" /\ proc = "none" /\ toEditor = <<>> /\ backlog = <<>>
      /\ hostPosts = <<>> /\ items = <<>> /\ answers = <<>> /\ held = FALSE /\ finished = "no"
      /\ agent = TRUE
  BY DEF Init
<1>2. \A fd \in Fds : wrote[fd] = 0 /\ read[fd] = 0
  BY DEF Init
<1>3. Len(toHost) = 1 /\ toHost # <<>> /\ Head(toHost) = Spawn
  BY <1>1
<1>4. \A i \in 1..Len(toHost) : i = 1
  BY <1>3
<1>5. \A fd \in Fds : wrote[fd] <= MaxOut
  BY <1>2, FdFacts
<1>6. Held = 0
  <2>1. out = [f \in Fds |-> <<>>]
    BY DEF Init
  <2>2. Len(out[1]) = 0 /\ (2 \in Fds => Len(out[2]) = 0)
    BY <2>1, FdFacts
  <2>3. QED
    BY <2>2 DEF Held
<1>7. Members(toEditor) = {}
  BY <1>1, MembersNone
<1>8. QED
  BY <1>1, <1>2, <1>3, <1>4, <1>5, <1>6, <1>7 DEF SpawnInv

LEMMA OwnerInit ==
  ASSUME Init
  PROVE  OwnerInv
<1>1. /\ toHost = <<Spawn>> /\ posts = <<>> /\ released = FALSE /\ discarding = FALSE /\ relay = "up"
  BY DEF Init
<1>2. Members(toHost) = {Spawn} /\ Members(posts) = {}
  BY <1>1, MembersOne, MembersNone
<1>3. Release # Spawn
  <2>1. Release.kind = "release" /\ Spawn.kind = "spawn"
    BY HostMsgFacts
  <2>2. QED
    BY <2>1
<1>4. QED
  BY <1>1, <1>2, <1>3 DEF OwnerInv

LEMMA AnswerInit ==
  ASSUME Init
  PROVE  AnswerInv
<1>1. toEditor = <<>> /\ held = FALSE /\ finished = "no" /\ link = TRUE
  BY DEF Init
<1>2. Members(toEditor) = {} /\ Len(toEditor) = 0
  BY <1>1, MembersNone
<1>3. AnswersFollow(toEditor)
  BY <1>2 DEF AnswersFollow
<1>4. QED
  BY <1>1, <1>2, <1>3 DEF AnswerInv

RelayInv ==
  /\ Typed /\ SpawnInv /\ OwnerInv /\ ReaderInv /\ AnswerInv /\ GoneInv
  /\ OutputInv /\ InputInv /\ CreditInv

\* What the proofs rest on holds at first, and is kept by every step of the
\* process, the agent, the editor, the relay and the owner.
THEOREM RelayInvariant == Spec => []RelayInv
<1>1. Init => RelayInv
  BY TypedInit, SpawnInit, OwnerInit, ReaderInit, AnswerInit, GoneInit, OutputInit, InputInit, CreditInit
     DEF RelayInv
<1>2. RelayInv /\ [Next]_vars => RelayInv'
  <2> SUFFICES ASSUME RelayInv, [Next]_vars PROVE RelayInv'
    OBVIOUS
  <2>1. /\ Typed /\ SpawnInv /\ OwnerInv /\ ReaderInv /\ AnswerInv /\ GoneInv
        /\ OutputInv /\ InputInv /\ CreditInv
    BY DEF RelayInv
  <2>2. DoneIsAsked
    BY <2>1, InputIsAsked
  <2>3. Typed'
    BY <2>1, <2>2, TypedStep
  <2>4. SpawnInv' /\ OwnerInv' /\ ReaderInv' /\ AnswerInv' /\ GoneInv'
    BY <2>1, <2>2, SpawnStep, OwnerStep, ReaderStep, AnswerStep, GoneStep
  <2>5. OutputInv' /\ InputInv' /\ CreditInv'
    BY <2>1, <2>2, <2>3, OutputStep, InputStep, CreditStep
  <2>6. QED
    BY <2>3, <2>4, <2>5 DEF RelayInv
<1>3. QED
  BY <1>1, <1>2, PTL DEF Spec

-----------------------------------------------------------------------------
(* The pipes *)

LEMMA PiecesGrow ==
  /\ \A n \in Nat : Pieces(n) \in Seq(Nat) /\ Len(Pieces(n)) = n /\ \A i \in 1..n : Pieces(n)[i] = i
  /\ \A n \in Nat : Pieces(n + 1) = Append(Pieces(n), n + 1)
  /\ \A S : \A s \in Seq(S) : (\A i \in 1..Len(s) : s[i] = i) => s = Pieces(Len(s))
<1>1. ASSUME NEW n \in Nat
      PROVE  Pieces(n) \in Seq(Nat) /\ Len(Pieces(n)) = n /\ \A i \in 1..n : Pieces(n)[i] = i
  <2>1. Pieces(n) \in [1..n -> Nat]
    BY DEF Pieces
  <2>2. QED
    BY <2>1 DEF Pieces
<1>2. ASSUME NEW S, NEW s \in Seq(S), \A i \in 1..Len(s) : s[i] = i
      PROVE  s = Pieces(Len(s))
  <2>1. s = [i \in 1..Len(s) |-> s[i]]
    BY <1>2
  <2>2. QED
    BY <1>2, <2>1 DEF Pieces
<1>3. ASSUME NEW n \in Nat PROVE Pieces(n + 1) = Append(Pieces(n), n + 1)
  <2> DEFINE s == Pieces(n)
             t == Append(s, n + 1)
  <2>1. s \in Seq(Nat) /\ Len(s) = n /\ (\A i \in 1..n : s[i] = i) /\ n + 1 \in Nat
    BY <1>1
  <2> HIDE DEF s
  <2>2. /\ Len(t) = n + 1 /\ t[n + 1] = n + 1 /\ t \in Seq(Nat)
        /\ \A i \in 1..n : t[i] = s[i]
        /\ \A i \in 1..Len(t) : i \in 1..n \/ i = n + 1
    BY <2>1, MembersGrow
  <2> HIDE DEF t
  <2>3. \A i \in 1..Len(t) : t[i] = i
    BY <2>1, <2>2
  <2>4. t = Pieces(Len(t))
    BY <1>2, <2>2, <2>3
  <2>5. QED
    BY <2>2, <2>4 DEF t, s
<1>4. QED
  BY <1>1, <1>2, <1>3

\* What a step does to a pipe of which n pieces were written and g were read.
Unmoved(fd)   == UNCHANGED <<wrote[fd], got[fd], FateOfOutput>>
Written1(fd)  == /\ wrote'[fd] = wrote[fd] + 1 /\ wrote[fd] \in Nat
                 /\ UNCHANGED <<got[fd], FateOfOutput>>
WasRead(fd)   == /\ FateOfOutput = "open" /\ Len(got[fd]) < wrote[fd]
                 /\ got'[fd] = Append(got[fd], Len(got[fd]) + 1)
                 /\ Len(got[fd]) + 1 \in 1..wrote[fd] /\ wrote[fd] \in Nat
                 /\ UNCHANGED <<wrote[fd], FateOfOutput>>
HasEnded(fd)  == /\ FateOfOutput = "open" /\ FateOfOutput' \in {"eof", "error", "dropped"}
                 /\ FateOfOutput' = "eof" => got[fd] = Pieces(wrote[fd])
                 /\ UNCHANGED <<wrote[fd], got[fd]>>

LEMMA PipeIsWritten ==
  ASSUME Typed, SpawnInv, NEW fd \in Fds, Process \/ HostReceives
  PROVE  Unmoved(fd) \/ Written1(fd)
<1>1. UNCHANGED <<relay, owner, got>>
  BY DEF Process, HostReceives, editorSide, relayVars, ownerVars
<1>2. UNCHANGED <<got[fd], FateOfOutput>>
  BY <1>1 DEF FateOfOutput
<1>3. wrote \in [Fds -> 0..MaxOut + 1] /\ wrote[fd] \in Nat
  BY OutputTyped DEF Typed, ProcTyped
<1>4. CASE Process
  <2>1. CASE ProcessEnds
    BY <1>2, <2>1 DEF ProcessEnds, Unmoved
  <2>2. ASSUME NEW f \in Fds, ProcessWrites(f) PROVE Unmoved(fd) \/ Written1(fd)
    <3>1. wrote' = [wrote EXCEPT ![f] = @ + 1]
      BY <2>2 DEF ProcessWrites
    <3>2. CASE f = fd
      BY <1>2, <1>3, <3>1, <3>2 DEF Written1
    <3>3. CASE f # fd
      BY <1>2, <1>3, <3>1, <3>3 DEF Unmoved
    <3>4. QED
      BY <3>2, <3>3
  <2>3. QED
    BY <1>4, <2>1, <2>2 DEF Process
<1>5. CASE HostReceives
  <2>1. PICK m \in HostMsgs :
          \/ Spawns(m) \/ SpawnFails(m)
          \/ \E n \in 0..MaxIn : InputIsQueued(m, n) \/ InputIsRefused(m, n)
          \/ JobIsReleased(m) \/ HeardLate(m)
          \/ \E k \in 0..Len(backlog) : LiveCredit(m, k) \/ LateCredit(m, k)
    BY <1>5, HostReceivesCases
  <2>2. wrote' = wrote \/ SpawnFails(m)
    BY <2>1 DEF Spawns, InputIsQueued, InputIsRefused, JobIsReleased, HeardLate, LiveCredit, LateCredit,
                CreditArrives
  <2>3. CASE wrote' = wrote
    BY <1>2, <2>3 DEF Unmoved
  <2>4. CASE SpawnFails(m)
    <3>1. wrote' = [f \in Fds |-> IF f = 2 THEN 1 ELSE 0] /\ Hears(m) /\ m = Spawn
      BY <2>4 DEF SpawnFails
    <3>2. toHost \in Seq(HostMsgs) /\ toHost # <<>> /\ m = Head(toHost)
      BY <3>1 DEF Hears, Typed, EditorTyped
    <3>3. job = "none"
      BY <3>1, <3>2, MembersTail DEF SpawnInv
    <3>4. wrote[fd] = 0
      BY <3>3 DEF SpawnInv
    <3>5. CASE fd = 2
      BY <1>2, <3>1, <3>4, <3>5 DEF Written1
    <3>6. CASE fd # 2
      BY <1>2, <3>1, <3>4, <3>6 DEF Unmoved
    <3>7. QED
      BY <3>5, <3>6
  <2>5. QED
    BY <2>2, <2>3, <2>4
<1>6. QED
  BY <1>4, <1>5

LEMMA PipeIsRead ==
  ASSUME Typed, OutputInv, NEW fd \in Fds, NEW f \in Fds, Deliver(f)
  PROVE  Unmoved(fd) \/ WasRead(fd)
<1>1. UNCHANGED <<relay, owner, wrote>> /\ relay = "up" /\ owner # "released" /\ out[f] # <<>>
  BY DEF Deliver, RelayRuns, hostSide, procVars
<1>2. UNCHANGED <<wrote[fd], FateOfOutput>>
  BY <1>1 DEF FateOfOutput
<1>3. got \in [Fds -> Seq(1..MaxOut + 1)]
  BY DEF Typed, OwnerTyped
<1>4. CASE owner = "up" /\ f = fd
  <2>1. got' = [got EXCEPT ![f] = Append(@, Head(out[f]))]
    BY <1>4 DEF Deliver
  <2>2. got'[fd] = Append(got[fd], Head(out[fd]))
    BY <1>3, <1>4, <2>1
  <2>3. /\ got[fd] \in Seq(1..MaxOut + 1) /\ out[fd] \in Seq(1..MaxOut + 1) /\ out[fd] # <<>>
        /\ Len(got[fd]) \in Nat /\ Len(out[fd]) \in Nat /\ wrote[fd] \in Nat
    BY <1>1, <1>4, OutputTyped
  <2>4. /\ \A i \in 1..Len(out[fd]) : out[fd][i] = Len(got[fd]) + i
        /\ Arrived(fd) <= wrote[fd]
    BY <1>4 DEF OutputInv
  <2>5. Head(out[fd]) = out[fd][1] /\ 1 \in 1..Len(out[fd])
    BY <2>3, TailShrinks
  <2>6. Head(out[fd]) = Len(got[fd]) + 1
    BY <2>4, <2>5
  <2>7. Len(got[fd]) < wrote[fd] /\ Len(got[fd]) + 1 \in 1..wrote[fd]
    <3>1. \A x, y, z \in Nat : x + y <= z /\ y >= 1 => x < z /\ x + 1 \in 1..z
      OBVIOUS
    <3>2. Len(out[fd]) >= 1
      BY <2>3, <2>5
    <3>3. Len(got[fd]) + Len(out[fd]) <= wrote[fd]
      BY <2>4 DEF Arrived
    <3>4. QED
      BY <2>3, <3>1, <3>2, <3>3
  <2>8. FateOfOutput = "open"
    BY <1>1, <1>4 DEF FateOfOutput
  <2>9. QED
    BY <1>2, <2>2, <2>3, <2>6, <2>7, <2>8 DEF WasRead
<1>5. CASE ~(owner = "up" /\ f = fd)
  <2>1. got' = got \/ (f # fd /\ got' = [got EXCEPT ![f] = Append(@, Head(out[f]))])
    BY <1>5 DEF Deliver
  <2>2. got'[fd] = got[fd]
    BY <1>3, <2>1
  <2>3. QED
    BY <1>2, <2>2 DEF Unmoved
<1>6. QED
  BY <1>4, <1>5

LEMMA PipeEnds ==
  ASSUME Typed, OutputInv, NEW fd \in Fds, RelayEnds \/ HangUp \/ OwnerReleases
  PROVE  Unmoved(fd) \/ HasEnded(fd)
<1>1. UNCHANGED <<wrote, got>>
  BY DEF RelayEnds, HangUp, OwnerReleases, hostSide, procVars, ownerVars
<1>2. UNCHANGED <<wrote[fd], got[fd]>>
  BY <1>1
<1>3. CASE RelayEnds /\ owner = "up"
  <2>1. /\ relay = "up" /\ relay' = (IF finished = "exit" THEN "eof" ELSE "error") /\ Held = 0
        /\ owner' = owner
    BY <1>3 DEF RelayEnds, RelayRuns, ownerVars
  <2>2. FateOfOutput = "open" /\ FateOfOutput' = (IF finished = "exit" THEN "eof" ELSE "error")
    BY <1>3, <2>1 DEF FateOfOutput
  <2>3. ASSUME finished = "exit" PROVE got[fd] = Pieces(wrote[fd])
    <3>1. Len(got[fd]) \in Nat /\ Len(out[fd]) \in Nat /\ got[fd] \in Seq(1..MaxOut + 1)
      BY OutputTyped
    <3>2. Len(out[fd]) <= Held
      BY HeldOfEach DEF Typed
    <3>3. Len(out[fd]) = 0
      BY <2>1, <3>1, <3>2
    <3>4. Len(got[fd]) + Len(out[fd]) = wrote[fd]
      BY <1>3, <2>3 DEF OutputInv, Arrived
    <3>5. Len(got[fd]) = wrote[fd]
      BY <3>1, <3>3, <3>4
    <3>6. \A i \in 1..Len(got[fd]) : got[fd][i] = i
      BY DEF OutputInv
    <3>7. QED
      BY <3>1, <3>5, <3>6, PiecesGrow
  <2>4. QED
    BY <1>2, <2>2, <2>3 DEF HasEnded
<1>4. CASE RelayEnds /\ owner # "up"
  <2>1. relay = "up" /\ relay' = "dropped" /\ owner' = owner
    BY <1>4 DEF RelayEnds, RelayRuns, ownerVars, Typed, OwnerTyped
  <2>2. FateOfOutput' = FateOfOutput
    BY <1>4, <2>1 DEF FateOfOutput
  <2>3. QED
    BY <1>2, <2>2 DEF Unmoved
<1>5. CASE HangUp
  <2>1. owner = "up" /\ owner' = "hung up" /\ relay' = relay
    BY <1>5 DEF HangUp, relayVars
  <2>2. CASE relay = "up"
    <3>1. FateOfOutput = "open" /\ FateOfOutput' = "dropped"
      BY <2>1, <2>2 DEF FateOfOutput
    <3>2. QED
      BY <1>2, <3>1 DEF HasEnded
  <2>3. CASE relay # "up"
    <3>1. FateOfOutput' = FateOfOutput
      BY <2>1, <2>3 DEF FateOfOutput
    <3>2. QED
      BY <1>2, <3>1 DEF Unmoved
  <2>4. QED
    BY <2>2, <2>3
<1>6. CASE OwnerReleases
  <2>1. owner = "hung up" /\ owner' = "released" /\ relay' = relay
    BY <1>6 DEF OwnerReleases
  <2>2. FateOfOutput' = FateOfOutput
    BY <2>1 DEF FateOfOutput
  <2>3. QED
    BY <1>2, <2>2 DEF Unmoved
<1>7. QED
  BY <1>3, <1>4, <1>5, <1>6

\* Every step of the relay is a step of the pipe of each output, or none.
LEMMA PipeSteps ==
  ASSUME RelayInv, [Next]_vars, NEW fd \in Fds
  PROVE  Unmoved(fd) \/ Written1(fd) \/ WasRead(fd) \/ HasEnded(fd)
<1>1. Typed /\ SpawnInv /\ OutputInv
  BY DEF RelayInv
<1>2. CASE Process \/ HostReceives
  BY <1>1, <1>2, PipeIsWritten
<1>3. CASE \E f \in Fds : Deliver(f)
  BY <1>1, <1>3, PipeIsRead
<1>4. CASE RelayEnds \/ HangUp \/ OwnerReleases
  BY <1>1, <1>4, PipeEnds
<1>5. CASE \/ Writer \/ HostRunsPost \/ AgentSeesEnd \/ EditorReceives \/ EditorRunsPost \/ Expire
           \/ LinkEnds \/ RelayReads \/ RelayReadsEnd \/ (\E f \in Fds : Reader(f))
           \/ OwnerWrites \/ CloseInput \/ UNCHANGED vars
  <2>1. UNCHANGED <<wrote, got, relay, owner>>
    BY <1>5 DEF Writer, HostRunsPost, AgentSeesEnd, EditorReceives, EditorRunsPost, Expire, LinkEnds,
                RelayReads, RelayReadsEnd, Reader, OwnerWrites, CloseInput, vars, hostSide, editorSide,
                procVars, relayVars, ownerVars
  <2>2. QED
    BY <2>1 DEF Unmoved, FateOfOutput
<1>6. QED
  BY <1>2, <1>3, <1>4, <1>5 DEF Next

LEMMA StdoutStep ==
  ASSUME RelayInv, [Next]_vars
  PROVE  [Stdout!Next]_Stdout!vars
<1>1. 1 \in Fds
  BY FdFacts
<1>2. CASE Unmoved(1)
  BY <1>2 DEF Unmoved, Stdout!vars
<1>3. CASE Written1(1)
  <2>1. Pieces(wrote[1])' = Append(Pieces(wrote[1]), wrote[1] + 1) /\ Len(Pieces(wrote[1])) = wrote[1]
    BY <1>3, PiecesGrow DEF Written1
  <2>2. Stdout!Send
    BY <1>3, <2>1 DEF Written1, Stdout!Send
  <2>3. QED
    BY <2>2 DEF Stdout!Next
<1>4. CASE WasRead(1)
  <2>1. Len(Pieces(wrote[1])) = wrote[1] /\ Pieces(wrote[1])[Len(got[1]) + 1] = Len(got[1]) + 1
    BY <1>4, PiecesGrow DEF WasRead
  <2>2. Stdout!Receive
    BY <1>4, <2>1 DEF WasRead, Stdout!Receive
  <2>3. QED
    BY <2>2 DEF Stdout!Next
<1>5. CASE HasEnded(1)
  <2>1. Stdout!End(FateOfOutput')
    BY <1>5 DEF HasEnded, Stdout!End
  <2>2. QED
    BY <1>5, <2>1 DEF HasEnded, Stdout!Next
<1>6. QED
  BY <1>1, <1>2, <1>3, <1>4, <1>5, PipeSteps

LEMMA StderrStep ==
  ASSUME RelayInv, [Next]_vars, 2 \in Fds
  PROVE  [Stderr!Next]_Stderr!vars
<1>2. CASE Unmoved(2)
  BY <1>2 DEF Unmoved, Stderr!vars
<1>3. CASE Written1(2)
  <2>1. Pieces(wrote[2])' = Append(Pieces(wrote[2]), wrote[2] + 1) /\ Len(Pieces(wrote[2])) = wrote[2]
    BY <1>3, PiecesGrow DEF Written1
  <2>2. Stderr!Send
    BY <1>3, <2>1 DEF Written1, Stderr!Send
  <2>3. QED
    BY <2>2 DEF Stderr!Next
<1>4. CASE WasRead(2)
  <2>1. Len(Pieces(wrote[2])) = wrote[2] /\ Pieces(wrote[2])[Len(got[2]) + 1] = Len(got[2]) + 1
    BY <1>4, PiecesGrow DEF WasRead
  <2>2. Stderr!Receive
    BY <1>4, <2>1 DEF WasRead, Stderr!Receive
  <2>3. QED
    BY <2>2 DEF Stderr!Next
<1>5. CASE HasEnded(2)
  <2>1. Stderr!End(FateOfOutput')
    BY <1>5 DEF HasEnded, Stderr!End
  <2>2. QED
    BY <1>5, <2>1 DEF HasEnded, Stderr!Next
<1>6. QED
  BY <1>2, <1>3, <1>4, <1>5, PipeSteps

LEMMA StdinStep ==
  ASSUME RelayInv, [Next]_vars
  PROVE  [Stdin!Next]_Stdin!vars
<1>0. Typed /\ InputInv
  BY DEF RelayInv
<1>1. /\ typed \in Nat /\ fetched \in Nat /\ fetched <= typed /\ stdin \in {"open", "closed", "cut"}
      /\ input \in Seq(1..MaxIn) /\ Len(input) \in Nat
  <2>1. /\ typed \in 0..MaxIn /\ fetched \in 0..typed /\ stdin \in {"open", "closed", "cut"}
        /\ input \in Seq(1..MaxIn)
    BY <1>0 DEF Typed, ProcTyped, OwnerTyped
  <2>2. typed \in Nat
    BY <2>1, FdFacts
  <2>3. QED
    BY <2>1, <2>2, LenProperties
<1>2. CASE OwnerWrites
  <2>1. typed' = typed + 1 /\ UNCHANGED <<input, stdin>>
    BY <1>2 DEF OwnerWrites, hostSide, procVars
  <2>2. Pieces(typed)' = Append(Pieces(typed), typed + 1) /\ Len(Pieces(typed)) = typed
    BY <1>1, <2>1, PiecesGrow
  <2>3. Stdin!Send
    BY <2>1, <2>2 DEF Stdin!Send
  <2>4. QED
    BY <2>3 DEF Stdin!Next
<1>3. CASE Writer
  <2> DEFINE m == Head(items)
  <2>0. job = "live" /\ items # <<>> /\ typed' = typed
    BY <1>3 DEF Writer, editorSide, ownerVars
  <2>1. items \in Seq(Items) /\ m \in Items /\ m \in Members(items)
    BY <1>0, <2>0, TailShrinks, MembersTail DEF Typed, JobTyped
  <2>2. Asks(m)
    BY <1>0, <2>0, <2>1 DEF InputInv
  <2>3. CASE m.kind = "write" /\ stdin = "open" /\ input' = Append(input, m.n) /\ stdin' = stdin
    <3>1. m.n = fetched /\ Len(input) + 1 = fetched
      BY <2>2, <2>3 DEF Asks
    <3>2. input' = Append(input, Len(input) + 1) /\ Len(input) < typed /\ Len(input) + 1 \in 1..typed
      BY <1>1, <2>3, <3>1
    <3>3. Len(Pieces(typed)) = typed /\ Pieces(typed)[Len(input) + 1] = Len(input) + 1
      BY <1>1, <3>2, PiecesGrow
    <3>4. Stdin!Receive
      BY <2>0, <2>3, <3>2, <3>3 DEF Stdin!Receive
    <3>5. QED
      BY <3>4 DEF Stdin!Next
  <2>4. CASE m = CloseStdin /\ stdin = "open" /\ stdin' = "closed" /\ input' = input
    <3>1. m.kind = "close"
      BY <2>4, HostMsgFacts
    <3>2. Len(input) = typed
      BY <2>2, <3>1 DEF Asks
    <3>3. \A i \in 1..Len(input) : input[i] = i
      BY <1>0 DEF InputInv
    <3>4. input = Pieces(typed)
      BY <1>1, <3>2, <3>3, PiecesGrow
    <3>5. Stdin!End("eof")
      BY <2>0, <2>4, <3>4 DEF Stdin!End
    <3>6. QED
      BY <3>5 DEF Stdin!Next
  <2>5. CASE stdin = "open" /\ stdin' = "cut" /\ input' = input
    <3>1. Stdin!End("dropped")
      BY <2>0, <2>5 DEF Stdin!End
    <3>2. QED
      BY <3>1 DEF Stdin!Next
  <2>6. CASE stdin' = stdin /\ input' = input
    BY <2>0, <2>6 DEF Stdin!vars
  <2>7. QED
    BY <1>3, <2>3, <2>4, <2>5, <2>6 DEF Writer, WriteInput
<1>4. CASE \/ Process \/ HostRunsPost \/ HostReceives \/ AgentSeesEnd \/ EditorReceives \/ EditorRunsPost
           \/ Expire \/ LinkEnds \/ RelayReads \/ RelayReadsEnd \/ RelayEnds
           \/ (\E f \in Fds : Reader(f) \/ Deliver(f))
           \/ CloseInput \/ HangUp \/ OwnerReleases \/ UNCHANGED vars
  <2>1. UNCHANGED <<input, stdin, typed>>
    BY <1>4 DEF Process, ProcessEnds, ProcessWrites, HostRunsPost, HostReceives, AgentSeesEnd,
                EditorReceives, EditorRunsPost, Expire, LinkEnds, RelayReads, RelayReadsEnd, RelayEnds,
                Reader, Deliver, CloseInput, HangUp, OwnerReleases, vars, hostSide, editorSide,
                procVars, ownerVars
  <2>2. QED
    BY <2>1 DEF Stdin!vars
<1>5. QED
  BY <1>2, <1>3, <1>4 DEF Next

LEMMA PipesInit ==
  ASSUME Init
  PROVE  Stdout!Init /\ Stdin!Init /\ (2 \in Fds => Stderr!Init)
<1>1. Pieces(0) = <<>>
  <2>1. Pieces(0) \in Seq(Nat) /\ Len(Pieces(0)) = 0
    BY PiecesGrow
  <2>2. QED
    BY <2>1, EmptySeq
<1>2. \A fd \in Fds : wrote[fd] = 0 /\ got[fd] = <<>>
  BY DEF Init
<1>3. FateOfOutput = "open"
  BY DEF Init, FateOfOutput
<1>4. Stdout!Init /\ (2 \in Fds => Stderr!Init)
  BY <1>1, <1>2, <1>3, FdFacts DEF Stdout!Init, Stderr!Init
<1>5. Stdin!Init
  BY <1>1 DEF Init, Stdin!Init
<1>6. QED
  BY <1>4, <1>5

\* Whatever the process writes to its output and the owner to its input, and
\* however the link, the job and the owner end, each is a pipe (RunRelay,
\* ProcJob): pieces arrive once and in order, and a clean end comes after all.
THEOREM InputAndOutputArePipes == Spec => Stdout!Spec /\ Stdin!Spec
<1>1. Init => Stdout!Init /\ Stdin!Init
  BY PipesInit
<1>2. RelayInv /\ [Next]_vars => [Stdout!Next]_Stdout!vars /\ [Stdin!Next]_Stdin!vars
  BY StdoutStep, StdinStep
<1>3. QED
  BY <1>1, <1>2, RelayInvariant, PTL DEF Spec, Stdout!Spec, Stdin!Spec

\* With stderr captured it has a pipe of its own, as a local child's has: what
\* was read of one output never holds up or hides what was written to the other.
THEOREM PipesAreImplemented ==
  ASSUME 2 \in Fds
  PROVE  Spec => ImplementsPipes
<1>1. Init => Stderr!Init
  BY PipesInit
<1>2. RelayInv /\ [Next]_vars => [Stderr!Next]_Stderr!vars
  BY StderrStep
<1>3. Spec => Stderr!Spec
  BY <1>1, <1>2, RelayInvariant, PTL DEF Spec, Stderr!Spec
<1>4. QED
  BY <1>3, InputAndOutputArePipes DEF ImplementsPipes

-----------------------------------------------------------------------------
(* Types and credit *)

\* Of what waits for credit there is no more than a piece of each output.
LEMMA BacklogIsShort ==
  ASSUME Typed, ReaderInv
  PROVE  Len(backlog) <= Cardinality(Fds)
<1> DEFINE I == 1..Len(backlog)
           f == [i \in I |-> backlog[i].fd]
<1>1. backlog \in Seq(ChunkMsgs) /\ Len(backlog) \in Nat
  BY LenProperties DEF Typed, JobTyped
<1>2. \A i \in I : backlog[i] \in ChunkMsgs
  BY <1>1, ElementOfSeq
<1>3. \A i \in I : backlog[i].fd \in Fds /\ backlog[i].kind = "chunk"
  BY <1>2, EditorMsgFacts
<1>4. \A i, j \in I : backlog[i].fd = backlog[j].fd => i = j
  BY <1>3 DEF ReaderInv, Alone, Of
<1>5. f \in [I -> Fds] /\ \A i, j \in I : f[i] = f[j] => i = j
  BY <1>3, <1>4
<1> HIDE DEF f
<1>6. f \in Injection(I, Fds)
  BY <1>5 DEF Injection, IsInjective
<1>7. Cardinality(I) <= Cardinality(Fds)
  <2>1. IsFiniteSet(Fds)
    BY FdFacts
  <2> HIDE DEF I
  <2>2. QED
    BY <1>6, <2>1, FS_Injection
<1>8. Cardinality(I) = Len(backlog)
  <2>1. \A n \in Nat : Cardinality(1..n) = IF 1 > n THEN 0 ELSE n - 1 + 1
    BY FS_Interval
  <2>2. \A n \in Nat : Cardinality(1..n) = n
    BY <2>1
  <2>3. QED
    BY <1>1, <2>2
<1>9. QED
  BY <1>7, <1>8

\* Every variable of the relay keeps its type and its bound, the window and
\* the one piece of each output that waits for credit among them.
THEOREM RelayIsTyped == Spec => []TypeOK
<1>1. RelayInv => TypeOK
  <2> SUFFICES ASSUME RelayInv PROVE TypeOK
    OBVIOUS
  <2>1. Typed /\ SpawnInv /\ ReaderInv /\ OutputInv /\ CreditInv
    BY DEF RelayInv
  <2>2. Len(backlog) <= Cardinality(Fds)
    BY <2>1, BacklogIsShort
  <2>3. credit \in 0..Window /\ consumed \in 0..Window /\ granted \in 0..Window
    <3>1. /\ ToCome \in Nat /\ Coming \in Nat /\ ToPost \in Nat /\ Held \in Nat
          /\ credit \in Nat /\ consumed \in Nat /\ granted \in Nat /\ Window \in Nat
      BY <2>1, CreditTyped
    <3>2. credit + ToCome + Coming + consumed <= Window
      BY <2>1 DEF CreditInv
    <3>3. \A a, b, c, d, w \in Nat : a + b + c + d <= w => a \in 0..w /\ d \in 0..w
      OBVIOUS
    <3>4. credit \in 0..Window /\ consumed \in 0..Window
      BY <3>1, <3>2, <3>3
    <3>5. CASE finished = "no"
      <4>1. consumed = Held + granted + ToPost
        BY <2>1, <3>5 DEF CreditInv
      <4>2. \A a, b, c, d, w \in Nat : d = a + b + c /\ d \in 0..w => b \in 0..w
        OBVIOUS
      <4>3. QED
        BY <3>1, <3>4, <4>1, <4>2
    <3>6. CASE finished # "no"
      <4>1. granted = 0
        BY <2>1, <3>6 DEF CreditInv
      <4>2. QED
        BY <3>1, <3>4, <4>1
    <3>7. QED
      BY <3>5, <3>6
  <2>4. read \in [Fds -> 0..MaxOut]
    <3>1. read \in [Fds -> 0..MaxOut + 1] /\ MaxOut \in Nat /\ wrote \in [Fds -> 0..MaxOut + 1]
      BY <2>1, FdFacts DEF Typed, JobTyped, ProcTyped
    <3>2. ASSUME NEW fd \in Fds PROVE read[fd] \in 0..MaxOut
      <4>1. read[fd] <= wrote[fd] /\ read[fd] \in Nat /\ wrote[fd] \in Nat
        BY <2>1, <3>1 DEF OutputInv
      <4>2. read[fd] = 0 \/ wrote[fd] <= MaxOut
        BY <2>1 DEF SpawnInv
      <4>3. QED
        BY <3>1, <4>1, <4>2
    <3>3. QED
      BY <3>1, <3>2
  <2>5. /\ proc \in {"none", "running", "ended"} /\ wrote \in [Fds -> 0..MaxOut + 1]
        /\ input \in Seq(1..MaxIn) /\ stdin \in {"open", "closed", "cut"}
    BY <2>1 DEF Typed, ProcTyped
  <2>6. /\ agent \in BOOLEAN /\ job \in {"none", "live", "gone"}
        /\ mayRead \subseteq Fds /\ waiting \subseteq Fds
        /\ exited \in BOOLEAN /\ stderrDone \in BOOLEAN /\ released \in BOOLEAN
        /\ answers \in Seq(0..MaxIn) /\ held \in BOOLEAN
    BY <2>1 DEF Typed, JobTyped
  <2>7. /\ link \in BOOLEAN /\ pending \in 0..MaxIn
        /\ finished \in {"no", "exit", "lost"} /\ out \in [Fds -> Seq(1..MaxOut + 1)]
        /\ discarding \in BOOLEAN /\ inFlight \in BOOLEAN /\ inputDone \in BOOLEAN
        /\ relay \in {"up", "eof", "error", "dropped"}
    BY <2>1 DEF Typed, EditorTyped
  <2>8. OwnerTyped
    BY <2>1 DEF Typed
  <2>9. QED
    BY <2>2, <2>3, <2>4, <2>5, <2>6, <2>7, <2>8 DEF TypeOK, OwnerTyped
<1>2. QED
  BY <1>1, RelayInvariant, PTL

LEMMA OneAtMost ==
  ASSUME NEW s, NEW fd, Alone(s, fd)
  PROVE  /\ Cardinality(OfOutput(s, fd)) \in {0, 1}
         /\ Cardinality(OfOutput(s, fd)) # 0 => Outputs(s, fd)
<1> DEFINE X == OfOutput(s, fd)
<1>1. \A i, j \in X : i = j
  BY DEF OfOutput, Alone, Of
<1>2. \A i \in X : Outputs(s, fd)
  BY DEF OfOutput, Outputs, Members, Of
<1> HIDE DEF X
<1>3. CASE X = {}
  BY <1>3, FS_EmptySet DEF X
<1>4. CASE X # {}
  <2>1. PICK x : X = {x}
    BY <1>1, <1>4
  <2>2. Cardinality(X) = 1
    BY <2>1, FS_Singleton
  <2>3. QED
    BY <1>2, <2>1, <2>2 DEF X
<1>5. QED
  BY <1>3, <1>4

LEMMA CountsAreWeights ==
  ASSUME Typed
  PROVE  Chunks(toEditor) = Coming /\ GrantsPosted = ToPost
<1>1. /\ toEditor \in Seq(EditorMsgs) /\ posts \in Seq(RelayPosts)
      /\ \A i \in 1..Len(toEditor) : toEditor[i] \in EditorMsgs
      /\ \A i \in 1..Len(posts) : posts[i] \in RelayPosts
  BY ElementOfSeq DEF Typed, EditorTyped
<1>2. \A m \in EditorMsgs : Ones[m] = IF m.kind = "chunk" THEN 1 ELSE 0
  <2>1. \A m \in EditorMsgs : m.kind = "chunk" => m \in ChunkMsgs
    BY EditorMsgFacts
  <2>2. QED
    BY <2>1, WeightsAre
<1>3. \A m \in RelayPosts : Grants[m] = IF m.kind \in {"grant", "releasing"} THEN m.n ELSE 0
  <2>1. \A m \in RelayPosts : m.kind \in {"grant", "releasing"} \/ m.kind \in {"write", "close"}
    BY HostMsgFacts
  <2>2. QED
    BY <2>1, WeightsAre
<1>4. [i \in 1..Len(toEditor) |-> IF toEditor[i].kind = "chunk" THEN 1 ELSE 0] = Weights(toEditor, Ones)
  BY <1>1, <1>2 DEF Weights
<1>5. [i \in 1..Len(posts) |-> IF posts[i].kind \in {"grant", "releasing"} THEN posts[i].n ELSE 0]
        = Weights(posts, Grants)
  BY <1>1, <1>3 DEF Weights
<1>6. QED
  BY <1>4, <1>5 DEF Chunks, GrantsPosted, Coming, ToPost

\* For every window: a consumer that stops reading holds up the process, with a
\* window of pieces in the editor and one of each output on the host, and what
\* was taken is granted back once, however the owner leaves (Deliver, Release).
THEOREM RelayCreditAddsUp == Spec => []CreditAddsUp
<1>1. RelayInv => CreditAddsUp
  <2> SUFFICES ASSUME RelayInv PROVE HeldWithinWindow /\ GrantsAddUp
    BY DEF CreditAddsUp
  <2>1. Typed /\ ReaderInv /\ AnswerInv /\ CreditInv
    BY DEF RelayInv
  <2>2. Chunks(toEditor) = Coming /\ GrantsPosted = ToPost
    BY <2>1, CountsAreWeights
  <2>3. /\ ToCome \in Nat /\ Coming \in Nat /\ ToPost \in Nat /\ Held \in Nat
        /\ credit \in Nat /\ consumed \in Nat /\ granted \in Nat /\ Window \in Nat
    BY <2>1, CreditTyped
  <2>4. GrantsAddUp
    BY <2>1, <2>2 DEF GrantsAddUp, CreditInv
  <2>5. Held + Coming <= Window
    <3>1. CASE finished = "no"
      <4>1. credit + ToCome + Coming + consumed <= Window /\ consumed = Held + granted + ToPost
        BY <2>1, <3>1 DEF CreditInv
      <4>2. \A a, b, c, d, h, g, p, w \in Nat : a + b + c + d <= w /\ d = h + g + p => h + c <= w
        OBVIOUS
      <4>3. QED
        BY <2>3, <4>1, <4>2
    <3>2. CASE finished # "no"
      <4>1. toEditor \in Seq(EditorMsgs)
        BY <2>1 DEF Typed, EditorTyped
      <4>2. \A i \in 1..Len(toEditor) : toEditor[i].kind # "chunk"
        BY <2>1, <3>2 DEF AnswerInv, Members
      <4>3. Coming = 0
        BY <4>1, <4>2, NoneWithoutChunk DEF Coming
      <4>4. Held <= Window
        BY <2>1 DEF CreditInv
      <4>5. QED
        BY <2>3, <4>3, <4>4
    <3>3. QED
      BY <3>1, <3>2
  <2>6. ASSUME NEW fd \in Fds
        PROVE  Cardinality(OfOutput(backlog, fd))
                 + (IF released THEN 0 ELSE Cardinality(OfOutput(hostPosts, fd))) <= 1
    <3>1. Alone(hostPosts, fd) /\ Alone(backlog, fd)
      BY <2>1 DEF ReaderInv
    <3>2. ~(Outputs(backlog, fd) /\ ~released /\ Outputs(hostPosts, fd))
      BY <2>1 DEF ReaderInv
    <3>3. /\ Cardinality(OfOutput(backlog, fd)) \in {0, 1}
          /\ Cardinality(OfOutput(hostPosts, fd)) \in {0, 1}
          /\ Cardinality(OfOutput(backlog, fd)) # 0 => Outputs(backlog, fd)
          /\ Cardinality(OfOutput(hostPosts, fd)) # 0 => Outputs(hostPosts, fd)
      BY <3>1, OneAtMost
    <3>4. QED
      BY <3>2, <3>3
  <2>7. QED
    BY <2>2, <2>4, <2>5, <2>6 DEF HeldWithinWindow
<1>2. QED
  BY <1>1, RelayInvariant, PTL

=============================================================================
