---------------------------- MODULE RequestStream ----------------------------
(***************************************************************************)
(* What ned's message layer promises to the code that issues requests      *)
(* (Source/Editor/Protocol/Endpoint.h), with no connection in sight.  A    *)
(* request is a stream of chunks that ends in one terminal callback:       *)
(*                                                                         *)
(*   - onChunk sees the chunks in the order they were produced, each once; *)
(*   - one of onResult and onError runs, once, and no onChunk follows it;  *)
(*   - an abandoned (cancelled or expired) request sees no further chunk;  *)
(*   - onResult of a request that was not abandoned means every chunk the  *)
(*     handler produced has been delivered.                                *)
(***************************************************************************)
EXTENDS Naturals, Sequences

CONSTANTS Requests,     \* the requests that can be issued
          Outcomes      \* "result" and the ways a request can fail

VARIABLES produced,     \* [Requests -> Nat]: chunks the remote handler emitted
          delivered,    \* [Requests -> Seq(Nat)]: chunks onChunk saw, in order
          abandoned,    \* [Requests -> BOOLEAN]: cancelled or expired here
          settled       \* [Requests -> Seq(Outcomes)]: terminal callbacks run

vars == <<produced, delivered, abandoned, settled>>

Init == /\ produced  = [r \in Requests |-> 0]
        /\ delivered = [r \in Requests |-> <<>>]
        /\ abandoned = [r \in Requests |-> FALSE]
        /\ settled   = [r \in Requests |-> <<>>]

\* The handler may go on producing for a request nobody waits for any more.
Produce(r) ==
  /\ produced' = [produced EXCEPT ![r] = @ + 1]
  /\ UNCHANGED <<delivered, abandoned, settled>>

\* The chunk callback may itself give the request up.
Deliver(r) ==
  /\ settled[r] = <<>>
  /\ ~abandoned[r]
  /\ Len(delivered[r]) < produced[r]
  /\ delivered' = [delivered EXCEPT ![r] = Append(@, Len(@) + 1)]
  /\ abandoned' \in {abandoned, [abandoned EXCEPT ![r] = TRUE]}
  /\ UNCHANGED <<produced, settled>>

Abandon(r) ==
  /\ abandoned' = [abandoned EXCEPT ![r] = TRUE]
  /\ UNCHANGED <<produced, delivered, settled>>

\* Several requests may end in one step: a lost connection fails them all, and
\* an expiry fails and abandons every request that has been idle too long.
Settle(rs, o) ==
  /\ \A r \in rs : /\ settled[r] = <<>>
                   /\ o = "result" /\ ~abandoned[r] =>
                        Len(delivered[r]) = produced[r]
  /\ settled' = [r \in Requests |-> IF r \in rs THEN <<o>> ELSE settled[r]]
  /\ \/ UNCHANGED abandoned
     \/ abandoned' = [r \in Requests |-> r \in rs \/ abandoned[r]]
  /\ UNCHANGED <<produced, delivered>>

Next == \/ \E r \in Requests : Produce(r) \/ Deliver(r) \/ Abandon(r)
        \/ \E rs \in SUBSET Requests, o \in Outcomes : Settle(rs, o)

Spec == Init /\ [][Next]_vars
=============================================================================
