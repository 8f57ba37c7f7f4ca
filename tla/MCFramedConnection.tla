-------------------------- MODULE MCFramedConnection --------------------------
(* FramedConnection for TLC, in parts. *)
EXTENDS FramedConnection

\* The instance in parts. Two frames that arrive, of either size, with one that
\* leaves; two that leave, with the end of what arrives; four pieces on stderr,
\* or two with a frame that arrives.
Arriving == enqueued <= 1 /\ stderr = "done" /\ printed = <<>> /\ ~drain
Leaving  == sent = <<>> /\ ~midway /\ stderr = "done" /\ printed = <<>>
Printing == /\ enqueued = 0 /\ ~drain /\ Len(sent) <= 1 /\ Len(fromPeer) <= 1 /\ fromPeer # <<Bad>>
            /\ Len(printed) <= 2 \/ (sent = <<>> /\ fromPeer = <<>> /\ ~midway)

BoundedSpec == Init /\ [][Next /\ (Arriving \/ Leaving \/ Printing)']_vars /\ Fairness
=============================================================================
