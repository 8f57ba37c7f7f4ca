---------------------------- MODULE MCProcessRelay ----------------------------
(* A remote process for TLC, in parts. *)
EXTENDS ProcessRelay

\* An owner that reads: of each output a piece that waits behind another.
Reading == typed = 0 /\ typing

\* One that hangs up at any point.
Leaving == wrote[1] + wrote[2] <= 2 /\ typed = 0 /\ (typing \/ owner # "up")

\* One that writes, to a process that prints nothing or cannot be run.
Writing == wrote[1] = 0 /\ (wrote[2] = 0 \/ proc = "none")

BoundedSpec == Init /\ [][Next /\ (Reading \/ Leaving \/ Writing)']_vars /\ Fairness
=============================================================================
