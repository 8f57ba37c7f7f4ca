----------------------------- MODULE MCRemoteSave -----------------------------
(* A remote buffer for TLC, in parts. *)
EXTENDS RemoteSave

\* No race on the host, or one while nobody but the save asks for a connection
\* and nobody looks at what others write. No step that is fair is held up.
Racing == "other" \notin waiters /\ check = NoCheck

BoundedSpec == Init /\ [][Next /\ (~raced \/ Racing)']_vars /\ Fairness
=============================================================================
