--------------------------------- MODULE Hosts ---------------------------------
(***************************************************************************)
(* The editor's connection to one remote host (Editor/Remote/Hosts.cpp):   *)
(* at most one attempt to connect, shared by all who ask meanwhile, and at *)
(* most one live connection.  All of it runs on the main thread; what an   *)
(* attempt's worker and a dropped connection have to say is posted, and    *)
(* may come after the user has cancelled, disconnected or connected anew.  *)
(*                                                                         *)
(* A caller that waits is answered with a connection or an error, by the   *)
(* step that says so; what it does then is up to the module that uses this *)
(* one.  An attempt and the connection it yields have the same number.     *)
(***************************************************************************)
EXTENDS Integers, FiniteSets

CONSTANTS Callers,      \* who may ask for a connection
          MaxAttempts   \* bound: attempts and connections that overlap

ASSUME HostsAssumption == MaxAttempts \in Nat \ {0}

VARIABLES
  attempt,        \* the attempt in flight (attempts_), or 0
  waiters,        \* the callers it will answer
  cancelled,      \* cancelled attempts whose worker has not answered (cancelled_)
  connector,      \* what has become of the worker of an attempt
  connection,     \* the registered connection (connections_), or 0
  connected,      \* Connection::Connected of it
  removals        \* posted: connections that were dropped

hostsVars == <<attempt, waiters, cancelled, connector, connection, connected, removals>>

Attempts == 1 .. MaxAttempts

HostsTypeOK ==
  /\ attempt \in {0} \cup Attempts /\ waiters \subseteq Callers
  /\ cancelled \subseteq Attempts /\ removals \subseteq Attempts
  /\ connector \in [Attempts -> {"idle", "running", "ready", "failed"}]
  /\ connection \in {0} \cup Attempts /\ connected \in BOOLEAN

\* The connection the editor was started with.
HostsInit ==
  /\ attempt = 0 /\ waiters = {} /\ cancelled = {} /\ removals = {}
  /\ connector = [a \in Attempts |-> "idle"]
  /\ connection = 1 /\ connected = TRUE

\* Find gives a connection.
Live == connection # 0 /\ connected

-----------------------------------------------------------------------------

\* Numbers nothing refers to; nextAttemptId_ never gives one again.
Unused == {a \in Attempts : connector[a] = "idle" /\ a # connection /\ a \notin removals}

\* (mutant) who asks while an attempt is in flight starts another
AwaitAnew(caller) ==
  /\ ~Live
  /\ waiters' = waiters \cup {caller}
  /\ attempt' \in Unused
  /\ connector' = [connector EXCEPT ![attempt'] = "running"]
  /\ UNCHANGED <<cancelled, connection, connected, removals>>

\* Connect, for a caller who cannot be answered at once.
AwaitConnection(caller) ==
  /\ ~Live
  /\ waiters' = waiters \cup {caller}
  /\ IF attempt # 0
     THEN UNCHANGED <<attempt, connector>>
     ELSE /\ attempt' \in Unused
          /\ connector' = [connector EXCEPT ![attempt'] = "running"]
  /\ UNCHANGED <<cancelled, connection, connected, removals>>

\* The worker logs in, or fails to, or is stopped; it posts what came of it.
ConnectorEnds(a) ==
  /\ connector[a] = "running"
  /\ \E result \in {"ready", "failed"} : connector' = [connector EXCEPT ![a] = result]
  /\ UNCHANGED <<attempt, waiters, cancelled, connection, connected, removals>>

Posted(a) == connector[a] \in {"ready", "failed"}

\* (mutant) the result of a cancelled attempt is used
FinishAny(a) ==
  /\ Posted(a)
  /\ attempt' = 0 /\ waiters' = {} /\ cancelled' = cancelled \ {a}
  /\ IF connector[a] = "ready" THEN connection' = a /\ connected' = TRUE
     ELSE UNCHANGED <<connection, connected>>
  /\ connector' = [connector EXCEPT ![a] = "idle"]
  /\ UNCHANGED <<removals>>

\* The result of a cancelled attempt goes nowhere.
FinishCancelled(a) ==
  /\ Posted(a) /\ a \in cancelled
  /\ cancelled' = cancelled \ {a}
  /\ connector' = [connector EXCEPT ![a] = "idle"]
  /\ UNCHANGED <<attempt, waiters, connection, connected, removals>>

\* Every waiter is answered; a new connection takes the place of a lost one.
FinishAttempt(a) ==
  /\ Posted(a) /\ a \notin cancelled
  /\ attempt' = 0 /\ waiters' = {}
  /\ IF connector[a] = "ready" THEN connection' = a /\ connected' = TRUE
     ELSE UNCHANGED <<connection, connected>>
  /\ connector' = [connector EXCEPT ![a] = "idle"]
  /\ UNCHANGED <<cancelled, removals>>

\* Disconnect while an attempt is in flight: every waiter gets "cancelled".
CancelAttempt ==
  /\ attempt # 0
  /\ cancelled' = cancelled \cup {attempt}
  /\ attempt' = 0 /\ waiters' = {}
  /\ UNCHANGED <<connector, connection, connected, removals>>

\* Disconnect: the pending requests fail, and nothing is posted.
CloseConnection ==
  /\ attempt = 0 /\ connection # 0
  /\ connection' = 0 /\ connected' = FALSE
  /\ UNCHANGED <<attempt, waiters, cancelled, connector, removals>>

\* The link or the agent ends: the pending requests fail, the removal is posted.
DropConnection ==
  /\ Live
  /\ connected' = FALSE
  /\ removals' = removals \cup {connection}
  /\ UNCHANGED <<attempt, waiters, cancelled, connector, connection>>

\* (mutant) whatever is registered by now is removed
RemoveAny(a) ==
  /\ a \in removals
  /\ removals' = removals \ {a}
  /\ connection' = 0 /\ connected' = FALSE
  /\ UNCHANGED <<attempt, waiters, cancelled, connector>>

\* The posted removal, of that connection only.
RemoveDropped(a) ==
  /\ a \in removals
  /\ removals' = removals \ {a}
  /\ IF connection = a THEN connection' = 0 /\ connected' = FALSE
     ELSE UNCHANGED <<connection, connected>>
  /\ UNCHANGED <<attempt, waiters, cancelled, connector>>

-----------------------------------------------------------------------------
(* Properties *)

\* "at most one live Connection each, and at most one attempt in flight"
\* (Hosts.h): a new connection never takes the place of a live one, callers
\* wait only for an attempt whose worker still answers, and every worker that
\* has yet to answer is the attempt's or a cancelled one's.
OneConnection ==
  /\ attempt # 0 => ~Live /\ attempt \notin cancelled
  /\ waiters # {} => attempt # 0
  /\ \A a \in Attempts :
       connector[a] \in {"running", "ready", "failed"} <=> a = attempt \/ a \in cancelled

\* "A cancelled attempt never yields a connection, even one that had already
\* logged in" (Hosts.h).
CancelledNeverYields ==
  [][\A a \in cancelled : ~(connection' = a)]_hostsVars

=============================================================================
