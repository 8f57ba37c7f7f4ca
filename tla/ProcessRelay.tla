----------------------------- MODULE ProcessRelay -----------------------------
(***************************************************************************)
(* A process on a remote host that reads and writes like a local child:    *)
(* the agent's side (Editor/Host/Dispatcher.cpp, ProcJob), the relay in    *)
(* the editor (Editor/Remote/Proc.cpp), and the requests between them.  Of *)
(* the message layer (Endpoint) it has what one stream needs.              *)
(*                                                                         *)
(* On the host: a reader thread for each output, a writer thread, and the  *)
(* main thread.  In the editor: the main thread, the relay's thread, and   *)
(* the owner of the child, on threads of its own.  The process, the owner  *)
(* and the link between the two sides are the environment.                 *)
(*                                                                         *)
(* What is read or written in one go is a piece; pieces are numbered.      *)
(***************************************************************************)
EXTENDS FiniteSets, SequenceOps

CONSTANTS Fds,      \* {1}, or {1, 2} if stderr is captured
          Window,   \* of the stream
          MaxOut,   \* bound: pieces the process writes to each output
          MaxIn     \* bound: pieces the owner writes

ASSUME RelayAssumption ==
  /\ Fds \in {{1}, {1, 2}}
  /\ Window \in Nat \ {0} /\ MaxOut \in Nat /\ MaxIn \in Nat

VARIABLES
  proc,       \* the process: "none", "running" or "ended"
  wrote,      \* pieces it wrote, to each output
  input,      \* the pieces that reached its stdin
  stdin,      \* "open", "closed" as the owner asked, or "cut" by a release
  agent,      \* the agent runs
  job,        \* ProcJob: "none", "live" or "gone"
  read,       \* pieces read of each output
  mayRead,    \* outputs whose reader is let go on
  waiting,    \* outputs of which a piece is held for credit
  hostPosts,  \* what the job's threads have posted
  exited, stderrDone, released,
  items,      \* what the writer has to do; it is at the first of them
  answers,    \* requests it will answer: writes, or 0, a close
  credit, backlog, held,  \* of the stream; held: its result is behind the backlog
  toEditor, toHost,       \* messages on their way
  link,       \* the connection is there
  pending,    \* the proc/write that is not answered, or 0
  consumed, granted,      \* of the stream
  finished,   \* how the spawn was answered: "no", "exit" or "lost"
  out,        \* pieces that wait for the owner
  discarding, inFlight, inputDone,
  relay,      \* the relay's thread: "up", or what its end told the owner
  posts,      \* what the relay has posted
  owner,      \* "up", "hung up" or "released"
  got,        \* pieces the owner was given of each output
  typed,      \* pieces it wrote
  typing,     \* it may write more
  fetched     \* pieces of these the relay has read

procVars  == <<proc, wrote, input, stdin>>
jobVars   == <<job, read, mayRead, waiting, exited, stderrDone, released, items, answers>>
flowVars  == <<credit, backlog, held>>
mainVars  == <<pending, consumed, granted>>
relayVars == <<finished, out, discarding, inFlight, inputDone, relay>>
ownerVars == <<owner, got, typed, typing, fetched>>
hostSide   == <<procVars, agent, jobVars, hostPosts, flowVars>>
editorSide == <<mainVars, relayVars, posts, ownerVars>>
vars == <<hostSide, toEditor, toHost, link, editorSide>>

-----------------------------------------------------------------------------
(* Data *)

Chunk(fd, n)   == [kind |-> "chunk", fd |-> fd, n |-> n]
Answer(n, ok)  == [kind |-> "answer", n |-> n, ok |-> ok]
Result         == [kind |-> "result"]
SpawnFailed    == [kind |-> "spawn failed"]

Spawn      == [kind |-> "spawn"]
Write(n)   == [kind |-> "write", n |-> n]
CloseStdin == [kind |-> "close"]
Release    == [kind |-> "release"]
Grace      == [kind |-> "grace"]
Credit(n)  == [kind |-> "credit", n |-> n]

Granting(n)  == [kind |-> "grant", n |-> n]
Releasing(n) == [kind |-> "releasing", n |-> n]

Output(fd, n) == [kind |-> "output", fd |-> fd, n |-> n]
Written(ok)   == [kind |-> "written", ok |-> ok]
Exited        == [kind |-> "exited"]
StderrDone    == [kind |-> "stderr done"]

Smaller(a, b) == IF a < b THEN a ELSE b
Held == Len(out[1]) + (IF 2 \in Fds THEN Len(out[2]) ELSE 0)

TypeOK ==
  /\ proc \in {"none", "running", "ended"} /\ wrote \in [Fds -> 0..MaxOut + 1]
  /\ input \in Seq(1..MaxIn) /\ stdin \in {"open", "closed", "cut"}
  /\ agent \in BOOLEAN /\ job \in {"none", "live", "gone"}
  /\ read \in [Fds -> 0..MaxOut] /\ mayRead \subseteq Fds /\ waiting \subseteq Fds
  /\ exited \in BOOLEAN /\ stderrDone \in BOOLEAN /\ released \in BOOLEAN
  /\ answers \in Seq(0..MaxIn) /\ held \in BOOLEAN
  /\ credit \in 0..Window /\ Len(backlog) <= Cardinality(Fds)
  /\ link \in BOOLEAN /\ pending \in 0..MaxIn
  /\ consumed \in 0..Window /\ granted \in 0..Window
  /\ finished \in {"no", "exit", "lost"} /\ out \in [Fds -> Seq(1..MaxOut + 1)]
  /\ discarding \in BOOLEAN /\ inFlight \in BOOLEAN /\ inputDone \in BOOLEAN
  /\ relay \in {"up", "eof", "error", "dropped"} /\ owner \in {"up", "hung up", "released"}
  /\ got \in [Fds -> Seq(1..MaxOut + 1)] /\ typed \in 0..MaxIn /\ fetched \in 0..typed
  /\ typing \in BOOLEAN

\* SpawnOnHost has sent the spawn and started the relay.
Init ==
  /\ proc = "none" /\ wrote = [fd \in Fds |-> 0] /\ input = <<>> /\ stdin = "open"
  /\ agent = TRUE /\ job = "none" /\ read = [fd \in Fds |-> 0]
  /\ mayRead = Fds /\ waiting = {} /\ hostPosts = <<>>
  /\ exited = FALSE /\ stderrDone = (2 \notin Fds) /\ released = FALSE
  /\ items = <<>> /\ answers = <<>>
  /\ credit = Window /\ backlog = <<>> /\ held = FALSE
  /\ toEditor = <<>> /\ toHost = <<Spawn>> /\ link = TRUE
  /\ pending = 0 /\ consumed = 0 /\ granted = 0
  /\ finished = "no" /\ out = [fd \in Fds |-> <<>>]
  /\ discarding = FALSE /\ inFlight = FALSE /\ inputDone = FALSE /\ relay = "up" /\ posts = <<>>
  /\ owner = "up" /\ got = [fd \in Fds |-> <<>>]
  /\ typed = 0 /\ typing = TRUE /\ fetched = 0

-----------------------------------------------------------------------------
(* The process, and the threads of its job on the host *)

ProcessWrites(fd) ==
  /\ proc = "running" /\ wrote[fd] < MaxOut
  /\ wrote' = [wrote EXCEPT ![fd] = @ + 1]
  /\ UNCHANGED <<proc, input, stdin>>

ProcessEnds ==
  /\ proc = "running" /\ proc' = "ended"
  /\ UNCHANGED <<wrote, input, stdin>>

Process ==
  /\ ProcessEnds \/ \E fd \in Fds : ProcessWrites(fd)
  /\ UNCHANGED <<agent, jobVars, hostPosts, flowVars, toEditor, toHost, link, editorSide>>

\* A reader posts a piece, or the end, and waits to be let go on.
Reader(fd) ==
  /\ job = "live" /\ fd \in mayRead
  /\ mayRead' = mayRead \ {fd}
  /\ \/ /\ read[fd] < wrote[fd]
        /\ read' = [read EXCEPT ![fd] = @ + 1]
        /\ hostPosts' = Append(hostPosts, Output(fd, read[fd] + 1))
     \/ /\ read[fd] = wrote[fd] /\ proc = "ended"
        /\ hostPosts' = Append(hostPosts, IF fd = 1 THEN Exited ELSE StderrDone)
        /\ UNCHANGED read
  /\ UNCHANGED <<procVars, agent, job, waiting, exited, stderrDone, released, items, answers,
                 flowVars, toEditor, toHost, link, editorSide>>

\* All of it, or, if the process is gone or does not read, none or a part.
WriteInput(n) ==
  \/ /\ proc = "running" /\ stdin = "open"
     /\ input' = Append(input, n)
     /\ \E ok \in BOOLEAN : hostPosts' = Append(hostPosts, Written(ok))
  \/ /\ hostPosts' = Append(hostPosts, Written(FALSE))
     /\ UNCHANGED input

KilledNever == proc' = proc  \* (mutant)
KilledUnlessExited == proc' = IF exited THEN proc ELSE "ended"

\* The writer does the first item. A released process gets its end of input,
\* and some time; then it is killed.
Writer ==
  /\ job = "live" /\ items # <<>>
  /\ LET item == Head(items) IN
     \/ /\ item.kind = "write" /\ WriteInput(item.n)
        /\ items' = Tail(items) /\ UNCHANGED <<proc, stdin>>
     \/ /\ item = CloseStdin
        /\ stdin' = IF stdin = "open" THEN "closed" ELSE stdin
        /\ hostPosts' = Append(hostPosts, Written(TRUE))
        /\ items' = Tail(items) /\ UNCHANGED <<proc, input>>
     \/ /\ item = Release
        /\ stdin' = IF stdin = "open" THEN "cut" ELSE stdin
        /\ items' = <<Grace>> \o Tail(items) /\ UNCHANGED <<proc, input, hostPosts>>
     \/ /\ item = Grace
        /\ KilledUnlessExited
        /\ items' = Tail(items) /\ UNCHANGED <<input, stdin, hostPosts>>
  /\ UNCHANGED <<wrote, agent, job, read, mayRead, waiting, exited, stderrDone, released, answers,
                 flowVars, toEditor, toHost, link, editorSide>>

-----------------------------------------------------------------------------
(* The main thread of the agent: what was posted *)

SendToEditor(messages) == toEditor' = IF link THEN toEditor \o messages ELSE toEditor

GoesOnAlways == TRUE  \* (mutant)
GoesOn == released \/ backlog' = <<>>

\* Responder::Chunk, and the permit if nothing waits for credit.
OnProcOutput(fd, n) ==
  /\ IF released THEN UNCHANGED <<credit, backlog, toEditor>>
     ELSE IF credit > 0 /\ backlog = <<>>
     THEN credit' = credit - 1 /\ SendToEditor(<<Chunk(fd, n)>>) /\ UNCHANGED backlog
     ELSE backlog' = Append(backlog, Chunk(fd, n)) /\ UNCHANGED <<credit, toEditor>>
  /\ IF GoesOn
     THEN mayRead' = mayRead \cup {fd} /\ UNCHANGED waiting
     ELSE waiting' = waiting \cup {fd} /\ UNCHANGED mayRead
  /\ UNCHANGED <<job, exited, stderrDone, items, answers, held>>

OnProcWritten(ok) ==
  /\ answers' = Tail(answers)
  /\ SendToEditor(<<Answer(Head(answers), ok)>>)
  /\ UNCHANGED <<job, mayRead, waiting, exited, stderrDone, items, flowVars>>

\* (mutant) nobody waits for the reader of stderr
FinishOnExit ==
  /\ IF exited'
     THEN /\ job' = "gone" /\ items' = <<>> /\ answers' = <<>>
          /\ held' = (backlog # <<>>)
          /\ SendToEditor(IF held' THEN <<>> ELSE <<Result>>)
     ELSE UNCHANGED <<job, items, answers, held, toEditor>>
  /\ UNCHANGED <<mayRead, waiting, credit, backlog>>

\* The answer of the spawn goes behind its chunks; then what still waits fails.
FinishProcIfDone ==
  /\ IF exited' /\ stderrDone'
     THEN /\ job' = "gone" /\ items' = <<>> /\ answers' = <<>>
          /\ held' = (backlog # <<>>)
          /\ SendToEditor((IF held' THEN <<>> ELSE <<Result>>) \o
               [i \in 1..Len(answers) |-> Answer(answers[i], FALSE)])
     ELSE UNCHANGED <<job, items, answers, held, toEditor>>
  /\ UNCHANGED <<mayRead, waiting, credit, backlog>>

HostRunsPost ==
  /\ agent /\ hostPosts # <<>>
  /\ LET m == Head(hostPosts) IN
     \/ job # "live"
        /\ UNCHANGED <<job, mayRead, waiting, exited, stderrDone, items, answers, flowVars, toEditor>>
     \/ job = "live" /\ m.kind = "output" /\ OnProcOutput(m.fd, m.n)
     \/ job = "live" /\ m.kind = "written" /\ OnProcWritten(m.ok)
     \/ job = "live" /\ m = Exited /\ exited' = TRUE /\ UNCHANGED stderrDone /\ FinishProcIfDone
     \/ job = "live" /\ m = StderrDone /\ stderrDone' = TRUE /\ UNCHANGED exited /\ FinishProcIfDone
  /\ hostPosts' = Tail(hostPosts)
  /\ UNCHANGED <<procVars, agent, read, released, toHost, link, editorSide>>

-----------------------------------------------------------------------------
(* The main thread of the agent: what the editor asks for *)

\* Of a program that cannot be run the answer says why: that is its stderr.
ProcSpawn ==
  \/ /\ proc' = "running" /\ job' = "live" /\ UNCHANGED <<wrote, toEditor>>
  \/ /\ wrote' = [fd \in Fds |-> IF fd = 2 THEN 1 ELSE 0] /\ job' = "gone"
     /\ SendToEditor(<<SpawnFailed>>) /\ UNCHANGED proc

ProcWrite(n) ==
  IF job = "live"
  THEN answers' = Append(answers, n) /\ items' = Append(items, Write(n)) /\ UNCHANGED toEditor
  ELSE SendToEditor(<<Answer(n, FALSE)>>) /\ UNCHANGED <<answers, items>>

ProcCloseStdin ==
  IF job = "live"
  THEN answers' = Append(answers, 0) /\ items' = Append(items, CloseStdin) /\ UNCHANGED toEditor
  ELSE SendToEditor(<<Answer(0, FALSE)>>) /\ UNCHANGED <<answers, items>>

PermitStdout == mayRead' = mayRead \cup (waiting \cap {1}) /\ waiting' = {}  \* (mutant)
PermitWaiting == mayRead' = mayRead \cup waiting /\ waiting' = {}

\* Its output has nowhere to go: every piece that is held is let through.
ProcRelease ==
  IF job = "live"
  THEN /\ released' = TRUE
       /\ PermitWaiting
       /\ items' = Append(items, Release)
  ELSE UNCHANGED <<released, mayRead, waiting, items>>

\* Endpoint's Flush: what credit allows, then the result, or OnDrained.
ReceiveCredit(n) ==
  LET k    == Smaller(credit + n, Len(backlog))
      rest == SubSeq(backlog, k + 1, Len(backlog))
  IN
  IF job # "live" /\ ~held THEN UNCHANGED <<flowVars, mayRead, waiting, toEditor>>
  ELSE /\ credit' = credit + n - k /\ backlog' = rest
       /\ held' = (held /\ rest # <<>>)
       /\ SendToEditor(SubSeq(backlog, 1, k) \o IF held /\ rest = <<>> THEN <<Result>> ELSE <<>>)
       /\ IF rest = <<>> /\ backlog # <<>> /\ ~held THEN PermitWaiting ELSE UNCHANGED <<mayRead, waiting>>

HostReceives ==
  /\ agent /\ toHost # <<>>
  /\ toHost' = Tail(toHost)
  /\ LET m == Head(toHost) IN
     \/ /\ m = Spawn /\ ProcSpawn
        /\ UNCHANGED <<released, mayRead, waiting, items, answers, flowVars>>
     \/ /\ m.kind = "write" /\ ProcWrite(m.n)
        /\ UNCHANGED <<proc, wrote, job, released, mayRead, waiting, flowVars>>
     \/ /\ m = CloseStdin /\ ProcCloseStdin
        /\ UNCHANGED <<proc, wrote, job, released, mayRead, waiting, flowVars>>
     \/ /\ m = Release /\ ProcRelease
        /\ UNCHANGED <<proc, wrote, job, answers, flowVars, toEditor>>
     \/ /\ m.kind = "credit" /\ ReceiveCredit(m.n)
        /\ UNCHANGED <<proc, wrote, job, released, items, answers>>
  /\ UNCHANGED <<input, stdin, agent, read, hostPosts, exited, stderrDone, link, editorSide>>

\* The agent ends with its connection, and kills what it runs.
AgentSeesEnd ==
  /\ agent /\ ~link
  /\ agent' = FALSE /\ toHost' = <<>> /\ hostPosts' = <<>> /\ backlog' = <<>> /\ held' = FALSE
  /\ IF job = "live"
     THEN job' = "gone" /\ proc' = "ended" /\ items' = <<>> /\ answers' = <<>>
     ELSE UNCHANGED <<job, proc, items, answers>>
  /\ UNCHANGED <<wrote, input, stdin, read, mayRead, waiting, exited, stderrDone, released,
                 credit, toEditor, link, editorSide>>

-----------------------------------------------------------------------------
(* The main thread of the editor *)

\* Endpoint::Grant by hand, in batches, and no more than was consumed; then
\* what else is sent.
Grant(taken, n, more) ==
  LET ready == Smaller(granted + n, taken)
      batch == IF Window < 2 THEN 1 ELSE Window \div 2
      whole == finished = "no" /\ ready >= batch
  IN
  /\ consumed' = IF finished # "no" THEN 0 ELSE IF whole THEN taken - ready ELSE taken
  /\ granted' = IF finished # "no" THEN 0 ELSE IF whole THEN granted + n - ready ELSE granted + n
  /\ toHost' = toHost \o (IF whole THEN <<Credit(ready)>> ELSE <<>>) \o more

ReceiveChunk(fd, n) ==
  /\ IF owner # "released" /\ ~discarding
     THEN /\ out' = [out EXCEPT ![fd] = Append(@, n)]
          /\ consumed' = consumed + 1 /\ UNCHANGED <<granted, toHost>>
     ELSE Grant(consumed + 1, 1, <<>>) /\ UNCHANGED out
  /\ UNCHANGED <<pending, finished, inFlight, inputDone>>

Finish(how) == finished' = how /\ consumed' = 0 /\ granted' = 0

ReceiveExit ==
  /\ Finish("exit")
  /\ UNCHANGED <<out, pending, inFlight, inputDone, toHost>>

ReceiveSpawnFailed ==
  /\ Finish("exit")
  /\ out' = [fd \in Fds |-> IF fd = 2 THEN Append(out[2], 1) ELSE out[fd]]
  /\ UNCHANGED <<pending, inFlight, inputDone, toHost>>

\* The handlers of a proc/write.
WriteAnswered(ok) ==
  /\ pending' = 0 /\ inFlight' = FALSE
  /\ inputDone' = (inputDone \/ ~ok)

\* A close has no handlers.
ReceiveAnswer(n, ok) ==
  /\ IF n = pending /\ n # 0 THEN WriteAnswered(ok) ELSE UNCHANGED <<pending, inFlight, inputDone>>
  /\ UNCHANGED <<finished, out, consumed, granted, toHost>>

EditorReceives ==
  /\ toEditor # <<>>
  /\ toEditor' = Tail(toEditor)
  /\ LET m == Head(toEditor) IN
     \/ m.kind = "chunk" /\ ReceiveChunk(m.fd, m.n)
     \/ m = Result /\ ReceiveExit
     \/ m = SpawnFailed /\ ReceiveSpawnFailed
     \/ m.kind = "answer" /\ ReceiveAnswer(m.n, m.ok)
  /\ UNCHANGED <<hostSide, link, discarding, relay, posts, ownerVars>>

\* Endpoint::ExpireIdle: the write takes too long. It is still on its way.
Expire ==
  /\ pending # 0 /\ WriteAnswered(FALSE)
  /\ UNCHANGED <<hostSide, toEditor, toHost, link, finished, out, consumed, granted, discarding,
                 relay, posts, ownerVars>>

\* What is pending fails.
LinkEnds ==
  /\ link /\ link' = FALSE /\ toEditor' = <<>>
  /\ IF pending # 0 THEN WriteAnswered(FALSE) ELSE UNCHANGED <<pending, inFlight, inputDone>>
  /\ IF finished = "no" THEN Finish("lost") ELSE UNCHANGED <<finished, consumed, granted>>
  /\ UNCHANGED <<hostSide, toHost, out, discarding, relay, posts, ownerVars>>

\* Without a connection a request fails at once, if there is still one to ask.
PostFails(m) ==
  /\ \/ m.kind = "write" /\ WriteAnswered(FALSE)
     \/ UNCHANGED <<pending, inFlight, inputDone>>
  /\ UNCHANGED <<consumed, granted, toHost>>

\* The relay's closures.
RunsPost(m) ==
  \/ /\ m.kind = "write" /\ pending' = m.n /\ toHost' = Append(toHost, m)
     /\ UNCHANGED <<inFlight, inputDone, consumed, granted>>
  \/ /\ m = CloseStdin /\ toHost' = Append(toHost, m)
     /\ UNCHANGED <<pending, inFlight, inputDone, consumed, granted>>
  \/ /\ m.kind = "grant" /\ Grant(consumed, m.n, <<>>)
     /\ UNCHANGED <<pending, inFlight, inputDone>>
  \/ /\ m.kind = "releasing"
     /\ Grant(consumed, m.n, IF finished = "no" THEN <<Release>> ELSE <<>>)
     /\ UNCHANGED <<pending, inFlight, inputDone>>

EditorRunsPost ==
  /\ posts # <<>>
  /\ posts' = Tail(posts)
  /\ IF link THEN RunsPost(Head(posts)) ELSE PostFails(Head(posts))
  /\ UNCHANGED <<hostSide, toEditor, link, finished, out, discarding, relay, ownerVars>>

-----------------------------------------------------------------------------
(* The relay's thread, and the owner *)

RelayRuns == relay = "up" /\ owner # "released"

\* One write at a time. Whether the spawn is answered was looked at earlier.
RelayReads ==
  /\ RelayRuns /\ ~inFlight /\ ~inputDone /\ fetched < typed
  /\ fetched' = fetched + 1 /\ inFlight' = TRUE
  /\ posts' = Append(posts, Write(fetched + 1))
  /\ UNCHANGED <<hostSide, toEditor, toHost, link, mainVars, finished, out, discarding, inputDone,
                 relay, owner, got, typed, typing>>

RelayReadsEnd ==
  /\ RelayRuns /\ ~inFlight /\ ~inputDone /\ fetched = typed /\ ~typing
  /\ inputDone' = TRUE
  /\ posts' = Append(posts, CloseStdin)
  /\ UNCHANGED <<hostSide, toEditor, toHost, link, mainVars, finished, out, discarding, inFlight,
                 relay, ownerVars>>

\* A piece that Deliver hands on, when the owner has read what was before it;
\* for an owner that has gone, all there is goes nowhere.
Deliver(fd) ==
  /\ RelayRuns /\ out[fd] # <<>>
  /\ \/ /\ owner = "up"
        /\ got' = [got EXCEPT ![fd] = Append(@, Head(out[fd]))]
        /\ out' = [out EXCEPT ![fd] = Tail(@)]
        /\ posts' = Append(posts, Granting(1)) /\ UNCHANGED discarding
     \/ /\ owner = "hung up"
        /\ discarding' = TRUE
        /\ out' = [f \in Fds |-> <<>>]
        /\ posts' = Append(posts, Granting(Held)) /\ UNCHANGED got
  /\ UNCHANGED <<hostSide, toEditor, toHost, link, mainVars, finished, inFlight, inputDone, relay,
                 owner, typed, typing, fetched>>

\* The owner sees the end once everything was handed on; its exit status tells
\* a process that ended from one that was lost.
RelayEnds ==
  /\ RelayRuns /\ finished # "no" /\ Held = 0
  /\ relay' = IF owner = "hung up" THEN "dropped" ELSE IF finished = "exit" THEN "eof" ELSE "error"
  /\ UNCHANGED <<hostSide, toEditor, toHost, link, mainVars, finished, out, discarding, inFlight,
                 inputDone, posts, ownerVars>>

\* After an answer that says its input is gone, and after the end, a write fails.
OwnerWrites ==
  /\ owner = "up" /\ typing /\ typed < MaxIn /\ ~inputDone /\ relay = "up"
  /\ typed' = typed + 1
  /\ UNCHANGED <<hostSide, toEditor, toHost, link, mainVars, relayVars, posts, owner, got, typing,
                 fetched>>

CloseInput ==
  /\ owner = "up" /\ typing /\ typing' = FALSE
  /\ UNCHANGED <<hostSide, toEditor, toHost, link, mainVars, relayVars, posts, owner, got, typed,
                 fetched>>

\* ChildProcess::CloseConnection, which its Release begins with.
HangUp ==
  /\ owner = "up" /\ owner' = "hung up" /\ typing' = FALSE
  /\ UNCHANGED <<hostSide, toEditor, toHost, link, mainVars, relayVars, posts, got, typed, fetched>>

UnreadStdout == Len(out[1])  \* (mutant)
Unread == Held

\* RelayControl::Release: what is held is not wanted any more, but counts.
OwnerReleases ==
  /\ owner = "hung up" /\ owner' = "released"
  /\ out' = [fd \in Fds |-> <<>>]
  /\ posts' = Append(posts, Releasing(Unread))
  /\ UNCHANGED <<hostSide, toEditor, toHost, link, mainVars, finished, discarding, inFlight,
                 inputDone, relay, got, typed, typing, fetched>>

-----------------------------------------------------------------------------
Next ==
  \/ Process \/ Writer \/ HostRunsPost \/ HostReceives \/ AgentSeesEnd
  \/ EditorReceives \/ EditorRunsPost \/ Expire \/ LinkEnds
  \/ RelayReads \/ RelayReadsEnd \/ RelayEnds
  \/ (\E fd \in Fds : Reader(fd) \/ Deliver(fd))
  \/ OwnerWrites \/ CloseInput \/ HangUp \/ OwnerReleases

Spec == Init /\ [][Next]_vars

\* Threads run on, what is posted or arrives is run, and an owner that has not
\* hung up reads. The process, the link and the owner's wishes are as they are.
Fairness ==
  /\ \A fd \in Fds : WF_vars(Reader(fd)) /\ WF_vars(Deliver(fd))
  /\ WF_vars(Writer) /\ WF_vars(HostRunsPost) /\ WF_vars(HostReceives) /\ WF_vars(AgentSeesEnd)
  /\ WF_vars(EditorReceives) /\ WF_vars(EditorRunsPost) /\ WF_vars(Expire)
  /\ WF_vars(RelayReads) /\ WF_vars(RelayReadsEnd) /\ WF_vars(RelayEnds)

FairSpec == Spec /\ Fairness

-----------------------------------------------------------------------------
(* Properties *)

Pieces(n) == [i \in 1..n |-> i]

FateOfOutput == IF relay # "up" THEN relay ELSE IF owner = "up" THEN "open" ELSE "dropped"

\* Stdout, stderr, which has a reader of its own on the host, and stdin.
Stdout == INSTANCE FrameChannel WITH
            sent <- Pieces(wrote[1]), received <- got[1], fate <- FateOfOutput
Stderr == INSTANCE FrameChannel WITH
            sent <- Pieces(wrote[2]), received <- got[2], fate <- FateOfOutput
Stdin == INSTANCE FrameChannel WITH
           sent <- Pieces(typed), received <- input,
           fate <- IF stdin = "open" THEN "open" ELSE IF stdin = "closed" THEN "eof" ELSE "dropped"

\* Each is a pipe, as a local child's are. The owner reads what the process
\* wrote, all of it if it sees the end and an exit status (RunRelay,
\* FinishProcIfDone). The process reads what the owner wrote, with no gap even
\* where writes fail or time out, and an end the owner asked for comes after all
\* of it ("proc/close-stdin: after every write before it").
ImplementsPipes == Stdout!Spec /\ Stderr!Spec /\ Stdin!Spec

Chunks(messages) == Total([i \in 1..Len(messages) |-> IF messages[i].kind = "chunk" THEN 1 ELSE 0])
OfOutput(s, fd)  == {i \in 1..Len(s) : s[i].kind \in {"chunk", "output"} /\ s[i].fd = fd}

\* A window of pieces in the editor and on the way there, and one of each
\* output on the host.
HeldWithinWindow ==
  /\ Held + Chunks(toEditor) <= Window
  /\ \A fd \in Fds :
       Cardinality(OfOutput(backlog, fd))
         + (IF released THEN 0 ELSE Cardinality(OfOutput(hostPosts, fd))) <= 1

GrantsPosted ==
  Total([i \in 1..Len(posts) |-> IF posts[i].kind \in {"grant", "releasing"} THEN posts[i].n ELSE 0])

\* A piece taken is held, or its grant is posted, or waits for a batch.
GrantsAddUp == finished = "no" => consumed = Held + granted + GrantsPosted

\* "Output is paced by credit ... so a consumer that stops reading stops the
\* host's child rather than filling editor memory": what is held is bounded, and
\* every piece taken from the stream is granted back once, however the owner
\* leaves (Deliver, RelayControl::Release).
CreditAddsUp == HeldWithinWindow /\ GrantsAddUp

\* A child whose process ended, or whose connection did, reads as ended, unless
\* its owner has hung up (RunRelay).
EndIsSeen ==
  (proc = "ended" \/ ~link) /\ owner = "up" ~> relay # "up" \/ owner # "up"

\* A process its owner has released, or whose connection is gone, does not run
\* on, whatever it does with its input and output (ProcRelease, ~Dispatcher).
NoneLeftRunning == owner = "released" \/ ~link ~> [](proc # "running")

\* "The framing layers, and everything above them, can't tell it from a local
\* child": a process whose owner closed its input sees the end of it.
InputEnds ==
  owner = "up" /\ ~typing ~> stdin # "open" \/ proc # "running" \/ owner # "up" \/ ~link

=============================================================================
