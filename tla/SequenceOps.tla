---------------------------- MODULE SequenceOps ----------------------------
(***************************************************************************)
(* What the numbers of a sequence come to (credit on a channel, bytes in a *)
(* queue), and what is left of one when some of its members go.  Each is a *)
(* function on the prefixes of the sequence, so that its laws can be       *)
(* proved by induction on the length.                                      *)
(***************************************************************************)
EXTENDS Integers, Sequences

\* The sum of a sequence of numbers.
Total(s) ==
  LET sum[i \in 0 .. Len(s)] == IF i = 0 THEN 0 ELSE sum[i - 1] + s[i]
  IN  sum[Len(s)]

\* The sequence without the members in gone.
Removing(s, gone) ==
  LET kept[i \in 0 .. Len(s)] == IF i = 0 THEN <<>>
                                 ELSE IF s[i] \in gone THEN kept[i - 1] ELSE Append(kept[i - 1], s[i])
  IN  kept[Len(s)]
=============================================================================
