------------------------------ MODULE MCEndpoint ------------------------------
(* The message layer for TLC, in parts. *)
EXTENDS Endpoint

\* One request, with a stream longer than its window.
Streaming == nextId <= 2

\* Two requests whose messages cross, each with a chunk at most.
Crossing == \A id \in Ids : produced[id] <= 1 /\ ~outgoing[id].byHand

BoundedSpec == Init /\ [][Next /\ (Streaming \/ Crossing)']_vars /\ Fairness
=============================================================================
