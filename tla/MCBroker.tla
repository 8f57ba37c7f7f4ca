------------------------------- MODULE MCBroker -------------------------------
(* The broker daemon for TLC. *)
EXTENDS BrokerDaemon, TLC

Symmetry == Permutations(Conns) \cup Permutations(Keys)

FirstServer == CHOOSE s \in Servers : TRUE

Spawned  == {s \in Servers : reader[s] # "none"}
UsedKeys == DOMAIN languages \cup Range(connectionKey) \cup {server[s].key : s \in Spawned}
Busy     == {t \in Threads : ~Done(t)}

\* No requests.
Silent == \A c \in Conns : asked[c] = 0

OneProcess == Spawned \subseteq {FirstServer}

\* One process and two projects: every thread, but no requests.
TwoProjects == OneProcess /\ Silent

\* The process and its successor, until the daemon stops: two threads without
\* requests, or requests with each call applied before the next.
Successor == FirstServer \in Spawned /\ sweeping /\ (Serial \/ Silent)

\* One project: two threads at a time.
OneProject == Cardinality(UsedKeys) <= 1 /\ Cardinality(Busy) <= 2 /\ (OneProcess \/ Successor)

BoundedSpec == Init /\ [][Next /\ (TwoProjects \/ OneProject)']_vars

\* All of the daemon, until it stops.
RunningSpec == Init /\ [][Next /\ sweeping']_vars
=============================================================================
