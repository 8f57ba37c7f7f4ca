---------------------------- MODULE FrameChannel ----------------------------
(***************************************************************************)
(* What a connection promises the code that sends and receives frames over *)
(* it (Source/Editor/Protocol/FramedConnection.h): frames arrive once, in  *)
(* the order they were sent, until the connection ends; the end is told    *)
(* once, after the last frame that arrives; and an end told as a clean one *)
(* means that nothing sent is missing.                                     *)
(*                                                                         *)
(* This is the channel the module Endpoint has between its two ends.       *)
(***************************************************************************)
EXTENDS Naturals, Sequences

VARIABLES
  sent,       \* frames the sender has sent, in order
  received,   \* frames the receiver was given
  fate        \* "open", or how the receiver's side ended: "eof", "error",
              \* or "dropped" by the receiver itself

vars == <<sent, received, fate>>

Init == sent = <<>> /\ received = <<>> /\ fate = "open"

Send ==
  /\ sent' = Append(sent, Len(sent) + 1)
  /\ UNCHANGED <<received, fate>>

Receive ==
  /\ fate = "open" /\ Len(received) < Len(sent)
  /\ received' = Append(received, sent[Len(received) + 1])
  /\ UNCHANGED <<sent, fate>>

End(how) ==
  /\ fate = "open"
  /\ how = "eof" => received = sent
  /\ fate' = how
  /\ UNCHANGED <<sent, received>>

Next == Send \/ Receive \/ \E how \in {"eof", "error", "dropped"} : End(how)

Spec == Init /\ [][Next]_vars
=============================================================================
