--------------------------- MODULE SequenceFacts ---------------------------
(***************************************************************************)
(* Laws about sequences the proofs share: what Total says of a sequence    *)
(* that grows, shrinks or is joined to another, what a queue weighs when   *)
(* each of its members has a weight, and queues that carry the consecutive *)
(* numbers of an interval.  Nothing here is about ned.                     *)
(***************************************************************************)
EXTENDS SequenceOps, SequenceTheorems, WellFoundedInduction, TLAPS

\* Induction on the naturals over a set: the least number outside it, if any,
\* has a predecessor in it.
LEMMA Induction ==
  ASSUME NEW S, 0 \in S, \A n \in Nat : n \in S => n + 1 \in S
  PROVE  Nat \subseteq S
<1> DEFINE R == OpToRel(<, Nat)
           T == Nat \ S
<1>1. SUFFICES ASSUME T # {} PROVE FALSE
  BY DEF T
<1>2. IsWellFoundedOn(R, Nat)
  BY NatLessThanWellFounded
<1>3. \E m \in T : \A k \in T : ~ (<<k, m>> \in R)
  <2> HIDE DEF R
  <2>1. QED
    BY <1>1, <1>2, WFMin DEF T
<1>4. PICK m \in T : \A k \in T : ~ (<<k, m>> \in R)
  BY <1>3
<1>5. m \in Nat /\ m # 0
  OBVIOUS
<1>6. m - 1 \in Nat /\ m - 1 < m /\ m - 1 + 1 = m
  BY <1>5
<1>7. m - 1 \in S
  <2>1. <<m - 1, m>> \in Nat \X Nat
    BY <1>5, <1>6
  <2>2. <<m - 1, m>> \in R
    BY <2>1, <1>6 DEF OpToRel
  <2> HIDE DEF R
  <2>3. QED
    BY <2>2, <1>4, <1>6
<1> QED BY <1>5, <1>6, <1>7

\* f gives the sum of each prefix of s.
SumsOf(s, f) == f = [i \in 0 .. Len(s) |-> IF i = 0 THEN 0 ELSE f[i - 1] + s[i]]

\* Every sequence has its prefix sums.
LEMMA SumsExist ==
  ASSUME NEW s, Len(s) \in Nat
  PROVE  \E f : SumsOf(s, f)
<1> DEFINE G(n, g) == g = [i \in 0 .. n |-> IF i = 0 THEN 0 ELSE g[i - 1] + s[i]]
           S == {n \in Nat : \E g : G(n, g)}
<1>1. 0 \in S
  <2>1. G(0, [i \in 0 .. 0 |-> 0])
    OBVIOUS
  <2> QED BY <2>1
<1>2. ASSUME NEW n \in Nat, n \in S PROVE n + 1 \in S
  <2>1. PICK g : G(n, g)
    BY <1>2
  <2> DEFINE h == [i \in 0 .. n + 1 |-> IF i = n + 1 THEN g[n] + s[n + 1] ELSE g[i]]
  <2>2. G(n + 1, h)
    <3> SUFFICES ASSUME NEW i \in 0 .. n + 1
                 PROVE  h[i] = IF i = 0 THEN 0 ELSE h[i - 1] + s[i]
      OBVIOUS
    <3>1. CASE i = n + 1
      BY <3>1
    <3>2. CASE i \in 0 .. n
      BY <3>2, <2>1
    <3> QED BY <3>1, <3>2
  <2> HIDE DEF h
  <2> QED BY <2>2
<1>3. Nat \subseteq S
  <2> HIDE DEF S
  <2> QED BY <1>1, <1>2, Induction
<1>4. Len(s) \in S
  BY <1>3
<1> QED BY <1>4 DEF SumsOf

\* Sequences that agree on a prefix have the same sum of it.
LEMMA SumsAgree ==
  ASSUME NEW s, Len(s) \in Nat, NEW f, SumsOf(s, f),
         NEW t, Len(t) \in Nat, NEW g, SumsOf(t, g)
  PROVE  \A k \in Nat : k <= Len(s) /\ k <= Len(t) /\ (\A i \in 1 .. k : s[i] = t[i])
           => f[k] = g[k]
<1> SUFFICES ASSUME NEW k \in Nat, k <= Len(s), k <= Len(t), \A i \in 1 .. k : s[i] = t[i]
             PROVE  f[k] = g[k]
  OBVIOUS
<1> DEFINE S == {n \in Nat : n <= k => f[n] = g[n]}
<1>1. 0 \in S
  BY DEF SumsOf
<1>2. ASSUME NEW n \in Nat, n \in S PROVE n + 1 \in S
  <2> SUFFICES ASSUME n + 1 <= k PROVE f[n + 1] = g[n + 1]
    OBVIOUS
  <2>1. f[n] = g[n] /\ s[n + 1] = t[n + 1] /\ n + 1 - 1 = n
    BY <1>2
  <2>2. n + 1 \in 0 .. Len(s) /\ n + 1 \in 0 .. Len(t) /\ n + 1 # 0
    OBVIOUS
  <2>3. f[n + 1] = f[n] + s[n + 1]
    BY <2>2, <2>1 DEF SumsOf
  <2>4. g[n + 1] = g[n] + t[n + 1]
    BY <2>2, <2>1 DEF SumsOf
  <2> QED BY <2>1, <2>3, <2>4
<1>3. Nat \subseteq S
  <2> HIDE DEF S
  <2> QED BY <1>1, <1>2, Induction
<1> QED BY <1>3

\* Total is the last of the prefix sums.
LEMMA TotalIs ==
  ASSUME NEW s, Len(s) \in Nat
  PROVE  \E f : SumsOf(s, f) /\ Total(s) = f[Len(s)]
<1> DEFINE f == CHOOSE f : f = [i \in 0 .. Len(s) |-> IF i = 0 THEN 0 ELSE f[i - 1] + s[i]]
<1>1. SumsOf(s, f)
  BY SumsExist DEF SumsOf
<1>2. Total(s) = f[Len(s)]
  BY DEF Total
<1> QED BY <1>1, <1>2

\* Naturals come to a natural.
LEMMA TotalNat ==
  ASSUME NEW s \in Seq(Nat)
  PROVE  Total(s) \in Nat
<1>1. PICK f : SumsOf(s, f) /\ Total(s) = f[Len(s)]
  BY TotalIs
<1> DEFINE S == {n \in Nat : n <= Len(s) => f[n] \in Nat}
<1>2. 0 \in S
  BY <1>1 DEF SumsOf
<1>3. ASSUME NEW n \in Nat, n \in S PROVE n + 1 \in S
  <2> SUFFICES ASSUME n + 1 <= Len(s) PROVE f[n + 1] \in Nat
    OBVIOUS
  <2>1. n + 1 \in 0 .. Len(s) /\ n + 1 # 0 /\ n + 1 - 1 = n /\ n + 1 \in 1 .. Len(s)
    OBVIOUS
  <2>2. f[n + 1] = f[n] + s[n + 1]
    BY <1>1, <2>1 DEF SumsOf
  <2>3. f[n] \in Nat /\ s[n + 1] \in Nat
    BY <1>3, <2>1
  <2> QED BY <2>2, <2>3
<1>4. Nat \subseteq S
  <2> HIDE DEF S
  <2> QED BY <1>2, <1>3, Induction
<1> QED BY <1>1, <1>4

\* Nothing comes to nothing.
LEMMA TotalEmpty ==
  ASSUME NEW s, Len(s) = 0
  PROVE  Total(s) = 0
<1>1. PICK f : SumsOf(s, f) /\ Total(s) = f[Len(s)]
  BY TotalIs
<1> QED BY <1>1 DEF SumsOf

\* t is s with one more place at its end, s without its first place, and s
\* followed by u.
Grown(t, s, x) ==
  /\ Len(t) = Len(s) + 1
  /\ \A i \in 1 .. Len(s) : t[i] = s[i]
  /\ t[Len(s) + 1] = x

Shrunk(t, s) ==
  /\ Len(s) > 0 /\ Len(t) = Len(s) - 1
  /\ \A i \in 1 .. Len(t) : t[i] = s[i + 1]

Joined(t, s, u) ==
  /\ Len(t) = Len(s) + Len(u)
  /\ \A i \in 1 .. Len(s) : t[i] = s[i]
  /\ \A i \in 1 .. Len(u) : t[Len(s) + i] = u[i]

\* Two sequences one after the other come to what each comes to.
LEMMA TotalJoins ==
  ASSUME NEW s \in Seq(Nat), NEW u \in Seq(Nat), NEW t, Joined(t, s, u)
  PROVE  Total(t) = Total(s) + Total(u)
<1>1. /\ Total(s) \in Nat /\ Len(s) \in Nat /\ Len(u) \in Nat
      /\ Len(t) = Len(s) + Len(u) /\ Len(t) \in Nat
  BY TotalNat DEF Joined
<1>2. PICK f : SumsOf(s, f) /\ Total(s) = f[Len(s)]
  BY <1>1, TotalIs
<1>3. PICK g : SumsOf(u, g) /\ Total(u) = g[Len(u)]
  BY <1>1, TotalIs
<1>4. PICK h : SumsOf(t, h) /\ Total(t) = h[Len(t)]
  BY <1>1, TotalIs
<1> DEFINE S == {n \in Nat : n <= Len(u) => g[n] \in Nat /\ h[Len(s) + n] = Total(s) + g[n]}
<1>5. 0 \in S
  <2>1. \A i \in 1 .. Len(s) : t[i] = s[i]
    BY DEF Joined
  <2>2. h[Len(s)] = f[Len(s)]
    <3> DEFINE k == Len(s)
    <3>1. k \in Nat /\ k <= Len(s) /\ k <= Len(t) /\ \A i \in 1 .. k : s[i] = t[i]
      BY <1>1, <2>1
    <3> HIDE DEF k
    <3>2. SumsOf(s, f) /\ SumsOf(t, h) /\ Len(s) \in Nat /\ Len(t) \in Nat
      BY <1>1, <1>2, <1>4
    <3>3. \A m \in Nat : m <= Len(s) /\ m <= Len(t) /\ (\A i \in 1 .. m : s[i] = t[i])
            => f[m] = h[m]
      BY <3>2, SumsAgree
    <3>4. f[k] = h[k]
      BY <3>1, <3>3
    <3> QED BY <3>4 DEF k
  <2>3. g[0] = 0
    BY <1>1, <1>3 DEF SumsOf
  <2> QED BY <1>1, <1>2, <2>2, <2>3
<1>6. ASSUME NEW n \in Nat, n \in S PROVE n + 1 \in S
  <2> SUFFICES ASSUME n + 1 <= Len(u)
               PROVE  g[n + 1] \in Nat /\ h[Len(s) + (n + 1)] = Total(s) + g[n + 1]
    BY <1>1
  <2>1. /\ n + 1 \in 0 .. Len(u) /\ n + 1 # 0 /\ n + 1 - 1 = n /\ n + 1 \in 1 .. Len(u)
        /\ Len(s) + (n + 1) \in 0 .. Len(t) /\ Len(s) + (n + 1) # 0
        /\ Len(s) + (n + 1) - 1 = Len(s) + n
    BY <1>1
  <2>2. g[n + 1] = g[n] + u[n + 1]
    BY <1>3, <2>1 DEF SumsOf
  <2>3. h[Len(s) + (n + 1)] = h[Len(s) + n] + t[Len(s) + (n + 1)]
    <3> DEFINE k == Len(s) + (n + 1)
    <3>1. k \in 0 .. Len(t) /\ k # 0 /\ k - 1 = Len(s) + n
      BY <2>1
    <3> HIDE DEF k
    <3>2. h[k] = h[k - 1] + t[k]
      BY <1>4, <3>1 DEF SumsOf
    <3> QED BY <3>1, <3>2 DEF k
  <2>4. t[Len(s) + (n + 1)] = u[n + 1] /\ u[n + 1] \in Nat
    BY <2>1 DEF Joined
  <2>5. g[n] \in Nat /\ h[Len(s) + n] = Total(s) + g[n]
    BY <1>1, <1>6, <2>1
  <2>6. \A a, b, c \in Nat : a + b \in Nat /\ (c + a) + b = c + (a + b)
    OBVIOUS
  <2>7. h[Len(s) + (n + 1)] = (Total(s) + g[n]) + u[n + 1]
    BY <2>3, <2>4, <2>5
  <2>8. (Total(s) + g[n]) + u[n + 1] = Total(s) + (g[n] + u[n + 1]) /\ g[n] + u[n + 1] \in Nat
    BY <1>1, <2>4, <2>5, <2>6
  <2>9. h[Len(s) + (n + 1)] = Total(s) + g[n + 1]
    <3> HIDE DEF S
    <3> QED BY <2>2, <2>7, <2>8, Zenon
  <2>10. g[n + 1] \in Nat
    <3> HIDE DEF S
    <3> QED BY <2>2, <2>8, Zenon
  <2> QED BY <2>9, <2>10
<1>7. Nat \subseteq S
  <2> HIDE DEF S
  <2> QED BY <1>5, <1>6, Induction
<1> QED BY <1>1, <1>3, <1>4, <1>7

\* One number comes to itself.
LEMMA TotalSingle ==
  ASSUME NEW s, Len(s) = 1, s[1] \in Nat
  PROVE  Total(s) = s[1]
<1>1. PICK f : SumsOf(s, f) /\ Total(s) = f[Len(s)]
  <2>1. Len(s) \in Nat
    OBVIOUS
  <2> QED BY <2>1, TotalIs
<1>2. f[0] = 0 /\ f[1] = f[0] + s[1]
  BY <1>1 DEF SumsOf
<1> QED BY <1>1, <1>2

\* A number more at the end, and one less at the front.
LEMMA TotalGrows ==
  ASSUME NEW s \in Seq(Nat), NEW t, NEW n \in Nat, Grown(t, s, n)
  PROVE  Total(t) = Total(s) + n
<1> USE DEF Grown
<1> DEFINE u == <<n>>
<1>1. u \in Seq(Nat) /\ Len(u) = 1 /\ u[1] = n
  OBVIOUS
<1> HIDE DEF u
<1>2. Joined(t, s, u)
  BY <1>1 DEF Joined
<1> QED BY <1>1, <1>2, TotalJoins, TotalSingle

LEMMA TotalShrinks ==
  ASSUME NEW s \in Seq(Nat), NEW t \in Seq(Nat), Shrunk(t, s)
  PROVE  Total(s) = s[1] + Total(t)
<1>0. Len(s) > 0 /\ Len(t) = Len(s) - 1 /\ \A i \in 1 .. Len(t) : t[i] = s[i + 1]
  BY DEF Shrunk
<1> DEFINE u == <<s[1]>>
<1>1. u \in Seq(Nat) /\ Len(u) = 1 /\ u[1] = s[1]
  BY <1>0
<1> HIDE DEF u
<1>2. Joined(s, u, t)
  <2>1. ASSUME NEW i \in 1 .. Len(t) PROVE s[1 + i] = t[i]
    <3>1. s[i + 1] = t[i] /\ 1 + i = i + 1
      BY <1>0
    <3> QED BY <3>1
  <2>2. Len(s) = Len(u) + Len(t)
    BY <1>0, <1>1
  <2>3. \A i \in 1 .. Len(u) : s[i] = u[i]
    BY <1>1
  <2> QED BY <1>0, <1>1, <2>1, <2>2, <2>3 DEF Joined
<1>3. Total(s) = Total(u) + Total(t)
  BY <1>1, <1>2, TotalJoins
<1>4. u[1] \in Nat
  BY <1>1
<1> QED BY <1>1, <1>3, <1>4, TotalSingle

\* Zeros come to nothing.
LEMMA TotalZero ==
  ASSUME NEW s, Len(s) \in Nat, \A i \in 1 .. Len(s) : s[i] = 0
  PROVE  Total(s) = 0
<1>1. PICK f : SumsOf(s, f) /\ Total(s) = f[Len(s)]
  BY TotalIs
<1> DEFINE S == {n \in Nat : n <= Len(s) => f[n] = 0}
<1>2. 0 \in S
  BY <1>1 DEF SumsOf
<1>3. ASSUME NEW n \in Nat, n \in S PROVE n + 1 \in S
  <2> SUFFICES ASSUME n + 1 <= Len(s) PROVE f[n + 1] = 0
    OBVIOUS
  <2>1. n + 1 \in 0 .. Len(s) /\ n + 1 # 0 /\ n + 1 - 1 = n /\ n + 1 \in 1 .. Len(s)
    OBVIOUS
  <2>2. f[n + 1] = f[n] + s[n + 1]
    BY <1>1, <2>1 DEF SumsOf
  <2> QED BY <1>3, <2>1, <2>2
<1>4. Nat \subseteq S
  <2> HIDE DEF S
  <2> QED BY <1>2, <1>3, Induction
<1> QED BY <1>1, <1>4

-----------------------------------------------------------------------------
(* A queue that carries numbers in order.  Its places that hold none of     *)
(* them are 0.                                                             *)

\* s carries the numbers after a, up to b: each once, in order.
Carries(s, a, b) ==
  /\ a \in Nat /\ b \in Nat /\ a <= b
  /\ \A i \in 1 .. Len(s) : s[i] = 0 \/ s[i] \in a + 1 .. b
  /\ \A i, j \in 1 .. Len(s) : i < j /\ s[i] # 0 /\ s[j] # 0 => s[i] < s[j]
  /\ \A n \in a + 1 .. b : \E i \in 1 .. Len(s) : s[i] = n

\* A queue without a number carries an empty interval, and only that.
LEMMA CarriesNone ==
  ASSUME NEW s, Len(s) \in Nat, \A i \in 1 .. Len(s) : s[i] = 0, NEW a \in Nat
  PROVE  Carries(s, a, a)
BY DEF Carries

LEMMA CarriesNothing ==
  ASSUME NEW s, Len(s) \in Nat, \A i \in 1 .. Len(s) : s[i] = 0, NEW a, NEW b, Carries(s, a, b)
  PROVE  a = b
<1>1. a \in Nat /\ b \in Nat /\ a <= b
  BY DEF Carries
<1>2. CASE a < b
  <2>1. a + 1 \in a + 1 .. b /\ a + 1 # 0
    BY <1>1, <1>2
  <2>2. PICK i \in 1 .. Len(s) : s[i] = a + 1
    BY <2>1 DEF Carries
  <2>3. QED
    BY <2>1, <2>2
<1>3. QED
  BY <1>1, <1>2

\* A place more, with the next number or with none.
LEMMA CarriesMore ==
  ASSUME NEW s, Len(s) \in Nat, NEW t, NEW x, Grown(t, s, x), NEW a, NEW b, Carries(s, a, b)
  PROVE  /\ x = 0 => Carries(t, a, b)
         /\ x = b + 1 => Carries(t, a, b + 1)
<1> DEFINE m == Len(s)
<1>1. /\ m \in Nat /\ Len(t) = m + 1 /\ \A i \in 1 .. m + 1 : i \in 1 .. m \/ i = m + 1
      /\ \A i \in 1 .. m : t[i] = s[i] /\ i \in 1 .. m + 1
      /\ t[m + 1] = x
  BY DEF Grown
<1>2. /\ a \in Nat /\ b \in Nat /\ a <= b
      /\ \A i \in 1 .. m : s[i] = 0 \/ s[i] \in a + 1 .. b
      /\ \A i, j \in 1 .. m : i < j /\ s[i] # 0 /\ s[j] # 0 => s[i] < s[j]
      /\ \A n \in a + 1 .. b : \E i \in 1 .. m : s[i] = n
  BY DEF Carries
<1> HIDE DEF m
<1>3. ASSUME t[m + 1] = 0 PROVE Carries(t, a, b)
  <2>1. \A i \in 1 .. m + 1 : t[i] = 0 \/ t[i] \in a + 1 .. b
    BY <1>1, <1>2, <1>3
  <2>2. \A i, j \in 1 .. m + 1 : i < j /\ t[i] # 0 /\ t[j] # 0 => t[i] < t[j]
    BY <1>1, <1>2, <1>3
  <2>3. \A n \in a + 1 .. b : \E i \in 1 .. m + 1 : t[i] = n
    BY <1>1, <1>2
  <2>4. QED
    BY <1>1, <1>2, <2>1, <2>2, <2>3 DEF Carries
<1>4. ASSUME t[m + 1] = b + 1 PROVE Carries(t, a, b + 1)
  <2>1. \A i \in 1 .. m + 1 : t[i] = 0 \/ t[i] \in a + 1 .. b + 1
    BY <1>1, <1>2, <1>4
  <2>2. ASSUME NEW i \in 1 .. m + 1, NEW j \in 1 .. m + 1, i < j, t[i] # 0, t[j] # 0
        PROVE  t[i] < t[j]
    <3>1. i \in 1 .. m /\ t[i] \in a + 1 .. b
      BY <1>1, <1>2, <2>2
    <3>2. CASE j \in 1 .. m
      BY <1>1, <1>2, <2>2, <3>1, <3>2
    <3>3. CASE j = m + 1
      BY <1>2, <1>4, <3>1, <3>3
    <3>4. QED
      BY <1>1, <3>2, <3>3
  <2>3. ASSUME NEW n \in a + 1 .. b + 1 PROVE \E i \in 1 .. m + 1 : t[i] = n
    <3>1. CASE n = b + 1
      BY <1>1, <1>4, <3>1
    <3>2. CASE n # b + 1
      <4>1. n \in a + 1 .. b
        BY <1>2, <3>2
      <4>2. QED
        BY <1>1, <1>2, <4>1
    <3>3. QED
      BY <3>1, <3>2
  <2>4. b + 1 \in Nat /\ a <= b + 1
    BY <1>2
  <2>5. QED
    BY <1>1, <1>2, <2>1, <2>2, <2>3, <2>4 DEF Carries
<1>5. QED
  BY <1>1, <1>3, <1>4 DEF m

\* The first place gone: it held the first number, or none.
LEMMA CarriesLess ==
  ASSUME NEW s, Len(s) \in Nat, NEW t, Shrunk(t, s), NEW a, NEW b, Carries(s, a, b)
  PROVE  /\ s[1] = 0 => Carries(t, a, b)
         /\ s[1] # 0 => s[1] = a + 1 /\ a < b /\ Carries(t, a + 1, b)
<1> DEFINE m == Len(s)
           l == Len(t)
<1>1. /\ m \in Nat /\ l \in Nat /\ m = l + 1 /\ 1 \in 1 .. m
      /\ \A i \in 1 .. l : t[i] = s[i + 1] /\ i + 1 \in 1 .. m /\ i + 1 > 1
      /\ \A i \in 1 .. m : i = 1 \/ (i - 1 \in 1 .. l /\ t[i - 1] = s[i])
  <2>0. Len(s) > 0 /\ Len(t) = Len(s) - 1 /\ \A i \in 1 .. Len(t) : t[i] = s[i + 1]
    BY DEF Shrunk
  <2>1. ASSUME NEW i \in 1 .. m PROVE i = 1 \/ (i - 1 \in 1 .. l /\ t[i - 1] = s[i])
    <3>1. CASE i # 1
      <4>1. i - 1 \in 1 .. l /\ i - 1 + 1 = i
        BY <2>0, <3>1
      <4>2. QED
        BY <2>0, <4>1
    <3>2. QED
      BY <3>1
  <2>2. QED
    BY <2>0, <2>1
<1>2. /\ a \in Nat /\ b \in Nat /\ a <= b
      /\ \A i \in 1 .. m : s[i] = 0 \/ s[i] \in a + 1 .. b
      /\ \A i, j \in 1 .. m : i < j /\ s[i] # 0 /\ s[j] # 0 => s[i] < s[j]
      /\ \A n \in a + 1 .. b : \E i \in 1 .. m : s[i] = n
  BY DEF Carries
<1> HIDE DEF m, l
<1>3. \A i, j \in 1 .. l : i < j /\ t[i] # 0 /\ t[j] # 0 => t[i] < t[j]
  <2>1. ASSUME NEW i \in 1 .. l, NEW j \in 1 .. l, i < j, t[i] # 0, t[j] # 0
        PROVE  t[i] < t[j]
    <3>1. i + 1 < j + 1 /\ t[i] = s[i + 1] /\ t[j] = s[j + 1]
          /\ i + 1 \in 1 .. m /\ j + 1 \in 1 .. m
      BY <1>1, <2>1
    <3>2. QED
      BY <1>2, <2>1, <3>1
  <2>2. QED
    BY <2>1
<1>4. ASSUME s[1] = 0 PROVE Carries(t, a, b)
  <2>1. \A i \in 1 .. l : t[i] = 0 \/ t[i] \in a + 1 .. b
    BY <1>1, <1>2
  <2>2. ASSUME NEW n \in a + 1 .. b PROVE \E i \in 1 .. l : t[i] = n
    <3>1. PICK i \in 1 .. m : s[i] = n
      BY <1>2
    <3>2. i # 1
      BY <1>2, <1>4, <3>1
    <3>3. QED
      BY <1>1, <3>1, <3>2
  <2>3. QED
    BY <1>2, <1>3, <2>1, <2>2 DEF Carries, l
<1>5. ASSUME s[1] # 0 PROVE s[1] = a + 1 /\ a < b /\ Carries(t, a + 1, b)
  <2>1. s[1] \in a + 1 .. b /\ a < b /\ a + 1 \in a + 1 .. b /\ a + 1 # 0
    BY <1>1, <1>2, <1>5
  <2>2. PICK i \in 1 .. m : s[i] = a + 1
    BY <1>2, <2>1
  <2>3. s[1] = a + 1
    <3>1. CASE i = 1
      BY <2>2, <3>1
    <3>2. CASE i # 1
      <4>1. s[1] < s[i]
        BY <1>1, <1>2, <1>5, <2>1, <2>2, <3>2
      <4>2. QED
        BY <1>2, <2>1, <2>2, <4>1
    <3>3. QED
      BY <3>1, <3>2
  <2>4. ASSUME NEW k \in 1 .. l PROVE t[k] = 0 \/ t[k] \in a + 1 + 1 .. b
    <3>1. t[k] = s[k + 1] /\ k + 1 \in 1 .. m /\ 1 < k + 1
      BY <1>1
    <3>2. CASE s[k + 1] # 0
      <4>1. s[1] < s[k + 1] /\ s[k + 1] \in a + 1 .. b
        BY <1>1, <1>2, <1>5, <3>1, <3>2
      <4>2. QED
        BY <1>2, <2>3, <3>1, <4>1
    <3>3. QED
      BY <3>1, <3>2
  <2>5. ASSUME NEW n \in a + 1 + 1 .. b PROVE \E k \in 1 .. l : t[k] = n
    <3>1. n \in a + 1 .. b /\ n # a + 1
      BY <1>2
    <3>2. PICK k \in 1 .. m : s[k] = n
      BY <1>2, <3>1
    <3>3. k # 1
      BY <2>3, <3>1, <3>2
    <3>4. QED
      BY <1>1, <3>2, <3>3
  <2>6. a + 1 \in Nat /\ a + 1 <= b
    BY <1>2, <2>1
  <2>7. QED
    BY <1>2, <1>3, <2>1, <2>3, <2>4, <2>5, <2>6 DEF Carries, l
<1>6. QED
  BY <1>4, <1>5

-----------------------------------------------------------------------------
(* What the members of a queue weigh together *)

Weights(q, v) == [i \in 1 .. Len(q) |-> v[q[i]]]

\* The weights of a queue, place by place.
LEMMA WeightsTyped ==
  ASSUME NEW S, NEW v \in [S -> Nat]
  PROVE  \A q \in Seq(S) :
           /\ Weights(q, v) \in Seq(Nat) /\ Len(Weights(q, v)) = Len(q) /\ Len(q) \in Nat
           /\ \A i \in 1 .. Len(q) : Weights(q, v)[i] = v[q[i]] /\ q[i] \in S
           /\ Total(Weights(q, v)) \in Nat
<1> SUFFICES ASSUME NEW q \in Seq(S)
             PROVE  /\ Weights(q, v) \in Seq(Nat) /\ Len(Weights(q, v)) = Len(q) /\ Len(q) \in Nat
                    /\ \A i \in 1 .. Len(q) : Weights(q, v)[i] = v[q[i]] /\ q[i] \in S
                    /\ Total(Weights(q, v)) \in Nat
  OBVIOUS
<1>1. Len(q) \in Nat
  BY LenProperties
<1>2. \A i \in 1 .. Len(q) : q[i] \in S /\ v[q[i]] \in Nat
  BY ElementOfSeq
<1>3. Weights(q, v) \in [1 .. Len(q) -> Nat]
  BY <1>2 DEF Weights
<1>4. Weights(q, v) \in Seq(Nat) /\ Len(Weights(q, v)) = Len(q)
  BY <1>1, <1>3
<1>5. QED
  BY <1>1, <1>2, <1>4, TotalNat DEF Weights

\* The weight of a queue that is empty, grows, shrinks or is joined to another.
LEMMA WeightsEmpty ==
  ASSUME NEW v
  PROVE  Total(Weights(<<>>, v)) = 0
<1>1. Len(Weights(<<>>, v)) = 0
  <2>1. Weights(<<>>, v) \in [1 .. 0 -> Nat]
    BY DEF Weights
  <2>2. QED
    BY <2>1
<1>2. QED
  BY <1>1, TotalEmpty

LEMMA WeightsGrow ==
  ASSUME NEW S, NEW v \in [S -> Nat], NEW q \in Seq(S), NEW t \in Seq(S), NEW w \in S,
         Grown(t, q, w)
  PROVE  Total(Weights(t, v)) = Total(Weights(q, v)) + v[w]
<1>0. \A x \in Seq(S) :
        /\ Weights(x, v) \in Seq(Nat) /\ Len(Weights(x, v)) = Len(x) /\ Len(x) \in Nat
        /\ \A i \in 1 .. Len(x) : Weights(x, v)[i] = v[x[i]] /\ x[i] \in S
        /\ Total(Weights(x, v)) \in Nat
  BY WeightsTyped
<1> DEFINE a == Weights(q, v)
           b == Weights(t, v)
<1>1. /\ a \in Seq(Nat) /\ Len(a) = Len(q) /\ Len(q) \in Nat
      /\ \A i \in 1 .. Len(q) : a[i] = v[q[i]]
  BY <1>0
<1>2. Len(b) = Len(t) /\ \A i \in 1 .. Len(t) : b[i] = v[t[i]]
  BY <1>0
<1>3. Len(t) = Len(q) + 1 /\ t[Len(q) + 1] = w /\ \A i \in 1 .. Len(q) : t[i] = q[i]
  BY DEF Grown
<1> HIDE DEF a, b
<1>4. (\A i \in 1 .. Len(a) : b[i] = a[i]) /\ b[Len(a) + 1] = v[w]
  BY <1>1, <1>2, <1>3
<1>5. Grown(b, a, v[w])
  BY <1>1, <1>2, <1>3, <1>4 DEF Grown
<1>6. v[w] \in Nat
  OBVIOUS
<1>7. QED
  BY <1>1, <1>5, <1>6, TotalGrows DEF a, b

LEMMA WeightsShrink ==
  ASSUME NEW S, NEW v \in [S -> Nat], NEW q \in Seq(S), NEW t \in Seq(S), Shrunk(t, q)
  PROVE  Total(Weights(q, v)) = v[q[1]] + Total(Weights(t, v))
<1>0. \A x \in Seq(S) :
        /\ Weights(x, v) \in Seq(Nat) /\ Len(Weights(x, v)) = Len(x) /\ Len(x) \in Nat
        /\ \A i \in 1 .. Len(x) : Weights(x, v)[i] = v[x[i]] /\ x[i] \in S
        /\ Total(Weights(x, v)) \in Nat
  BY WeightsTyped
<1> DEFINE a == Weights(q, v)
           b == Weights(t, v)
<1>1. /\ a \in Seq(Nat) /\ Len(a) = Len(q) /\ Len(q) \in Nat
      /\ \A i \in 1 .. Len(q) : a[i] = v[q[i]]
  BY <1>0
<1>2. b \in Seq(Nat) /\ Len(b) = Len(t) /\ Len(t) \in Nat /\ \A i \in 1 .. Len(t) : b[i] = v[t[i]]
  BY <1>0
<1>3. Len(q) > 0 /\ Len(t) = Len(q) - 1 /\ \A i \in 1 .. Len(t) : t[i] = q[i + 1]
  BY DEF Shrunk
<1> HIDE DEF a, b
<1>4. \A i \in 1 .. Len(b) : b[i] = a[i + 1]
  <2>1. ASSUME NEW i \in 1 .. Len(t) PROVE b[i] = a[i + 1]
    <3>1. i + 1 \in 1 .. Len(q)
      BY <1>1, <1>3
    <3>2. QED
      BY <1>1, <1>2, <1>3, <3>1
  <2>2. QED
    BY <1>2, <2>1
<1>5. Shrunk(b, a) /\ a[1] = v[q[1]]
  BY <1>1, <1>2, <1>3, <1>4 DEF Shrunk
<1>6. QED
  BY <1>1, <1>2, <1>5, TotalShrinks DEF a, b

LEMMA WeightsJoin ==
  ASSUME NEW S, NEW v \in [S -> Nat], NEW q \in Seq(S), NEW u \in Seq(S)
  PROVE  /\ q \o u \in Seq(S)
         /\ Total(Weights(q \o u, v)) = Total(Weights(q, v)) + Total(Weights(u, v))
<1>0. \A x \in Seq(S) :
        /\ Weights(x, v) \in Seq(Nat) /\ Len(Weights(x, v)) = Len(x) /\ Len(x) \in Nat
        /\ \A i \in 1 .. Len(x) : Weights(x, v)[i] = v[x[i]] /\ x[i] \in S
        /\ Total(Weights(x, v)) \in Nat
  BY WeightsTyped
<1> DEFINE t == q \o u
           a == Weights(q, v)
           b == Weights(u, v)
           c == Weights(t, v)
<1>1. /\ t \in Seq(S) /\ Len(t) = Len(q) + Len(u)
      /\ \A i \in 1 .. Len(q) + Len(u) : t[i] = IF i <= Len(q) THEN q[i] ELSE u[i - Len(q)]
  BY ConcatProperties
<1> HIDE DEF t
<1>2. /\ a \in Seq(Nat) /\ Len(a) = Len(q) /\ Len(q) \in Nat
      /\ \A i \in 1 .. Len(q) : a[i] = v[q[i]]
  BY <1>0
<1>3. b \in Seq(Nat) /\ Len(b) = Len(u) /\ Len(u) \in Nat /\ \A i \in 1 .. Len(u) : b[i] = v[u[i]]
  BY <1>0
<1>4. c \in Seq(Nat) /\ Len(c) = Len(t) /\ \A i \in 1 .. Len(t) : c[i] = v[t[i]]
  BY <1>1, <1>0
<1> HIDE DEF a, b, c
<1>5. \A i \in 1 .. Len(a) : c[i] = a[i]
  BY <1>1, <1>2, <1>3, <1>4
<1>6. \A i \in 1 .. Len(b) : c[Len(a) + i] = b[i]
  <2>1. ASSUME NEW i \in 1 .. Len(u) PROVE c[Len(q) + i] = b[i]
    <3>1. /\ Len(q) + i \in 1 .. Len(q) + Len(u) /\ ~(Len(q) + i <= Len(q))
          /\ (Len(q) + i) - Len(q) = i
      BY <1>2, <1>3
    <3>2. t[Len(q) + i] = u[i]
      BY <1>1, <3>1
    <3>3. c[Len(q) + i] = v[t[Len(q) + i]]
      BY <1>1, <1>4, <3>1
    <3>4. b[i] = v[u[i]]
      BY <1>3
    <3>5. QED
      BY <3>2, <3>3, <3>4
  <2>2. QED
    BY <1>2, <1>3, <2>1
<1>7. Joined(c, a, b)
  BY <1>1, <1>2, <1>3, <1>4, <1>5, <1>6 DEF Joined
<1>8. QED
  BY <1>1, <1>2, <1>3, <1>7, TotalJoins DEF a, b, c, t

-----------------------------------------------------------------------------
(* Queues of messages: put at the end, taken from the front                *)

LEMMA AppendGrows ==
  ASSUME NEW S, NEW s \in Seq(S), NEW x \in S
  PROVE  Append(s, x) \in Seq(S) /\ Grown(Append(s, x), s, x)
BY AppendProperties DEF Grown

LEMMA TailShrinks ==
  ASSUME NEW S, NEW s \in Seq(S), s # <<>>
  PROVE  /\ Tail(s) \in Seq(S) /\ Shrunk(Tail(s), s)
         /\ Head(s) = s[1] /\ Head(s) \in S /\ 1 \in 1 .. Len(s)
<1>1. Len(s) \in Nat /\ Len(s) > 0
  BY EmptySeq, LenProperties
<1>2. Tail(s) \in Seq(S) /\ Len(Tail(s)) = Len(s) - 1 /\ \A i \in 1 .. Len(s) - 1 : Tail(s)[i] = s[i + 1]
  BY HeadTailProperties
<1>3. Head(s) = s[1] /\ Head(s) \in S
  BY HeadTailProperties
<1>4. QED
  BY <1>1, <1>2, <1>3 DEF Shrunk

LEMMA ShortQueues ==
  ASSUME NEW S
  PROVE  <<>> \in Seq(S) /\ \A x \in S : <<x>> \in Seq(S)
OBVIOUS

LEMMA WiderQueues ==
  ASSUME NEW S, NEW T, S \subseteq T
  PROVE  Seq(S) \subseteq Seq(T)
<1> SUFFICES ASSUME NEW s \in Seq(S) PROVE s \in Seq(T)
  OBVIOUS
<1>1. s \in [1 .. Len(s) -> S] /\ Len(s) \in Nat
  BY LenProperties
<1>2. s \in [1 .. Len(s) -> T]
  BY <1>1
<1>3. QED
  BY <1>1, <1>2, SeqDef

\* The members of a queue after that are those of before, and the new ones.
LEMMA MembersGrow ==
  ASSUME NEW S, NEW s \in Seq(S), NEW x \in S
  PROVE  /\ Len(Append(s, x)) = Len(s) + 1 /\ Len(s) \in Nat
         /\ Append(s, x)[Len(s) + 1] = x
         /\ \A i \in 1 .. Len(s) : Append(s, x)[i] = s[i] /\ i \in 1 .. Len(Append(s, x))
         /\ \A i \in 1 .. Len(Append(s, x)) : i \in 1 .. Len(s) \/ i = Len(s) + 1
BY AppendProperties, LenProperties

LEMMA MembersShrink ==
  ASSUME NEW S, NEW s \in Seq(S), s # <<>>
  PROVE  /\ Len(s) \in Nat /\ Len(Tail(s)) = Len(s) - 1
         /\ \A i \in 1 .. Len(Tail(s)) : Tail(s)[i] = s[i + 1] /\ i + 1 \in 1 .. Len(s)
<1>1. Len(s) \in Nat /\ Len(s) > 0
  BY EmptySeq, LenProperties
<1>2. Tail(s) \in Seq(S) /\ Len(Tail(s)) = Len(s) - 1 /\ \A i \in 1 .. Len(s) - 1 : Tail(s)[i] = s[i + 1]
  BY HeadTailProperties
<1>3. QED
  BY <1>1, <1>2

LEMMA MembersJoin ==
  ASSUME NEW S, NEW s \in Seq(S), NEW u \in Seq(S)
  PROVE  /\ s \o u \in Seq(S) /\ Len(s \o u) = Len(s) + Len(u) /\ Len(s) \in Nat /\ Len(u) \in Nat
         /\ \A i \in 1 .. Len(s) : (s \o u)[i] = s[i] /\ i \in 1 .. Len(s \o u)
         /\ \A i \in 1 .. Len(s \o u) :
              \/ i \in 1 .. Len(s) /\ (s \o u)[i] = s[i]
              \/ i > Len(s) /\ i - Len(s) \in 1 .. Len(u) /\ (s \o u)[i] = u[i - Len(s)]
<1>1. Len(s) \in Nat /\ Len(u) \in Nat
  BY LenProperties
<1>2. /\ s \o u \in Seq(S) /\ Len(s \o u) = Len(s) + Len(u)
      /\ \A i \in 1 .. Len(s) + Len(u) : (s \o u)[i] = IF i <= Len(s) THEN s[i] ELSE u[i - Len(s)]
  BY ConcatProperties
<1>3. QED
  BY <1>1, <1>2

\* The weight of a queue when a member comes or goes.
LEMMA WeightOfAppend ==
  ASSUME NEW S, NEW v \in [S -> Nat], NEW q \in Seq(S), NEW w \in S
  PROVE  Total(Weights(Append(q, w), v)) = Total(Weights(q, v)) + v[w]
<1>1. Append(q, w) \in Seq(S) /\ Grown(Append(q, w), q, w)
  BY AppendGrows
<1>2. QED
  BY <1>1, WeightsGrow

LEMMA WeightOfTail ==
  ASSUME NEW S, NEW v \in [S -> Nat], NEW q \in Seq(S), q # <<>>
  PROVE  Total(Weights(q, v)) = v[Head(q)] + Total(Weights(Tail(q), v))
<1>1. Tail(q) \in Seq(S) /\ Shrunk(Tail(q), q) /\ Head(q) = q[1]
  BY TailShrinks
<1>2. Total(Weights(q, v)) = v[q[1]] + Total(Weights(Tail(q), v))
  BY <1>1, WeightsShrink
<1>3. QED
  BY <1>1, <1>2

\* Nothing in a queue weighs more than the queue, and members that weigh one
\* at most come to their number at most.
LEMMA TotalBounds ==
  ASSUME NEW s \in Seq(Nat)
  PROVE  /\ \A i \in 1 .. Len(s) : s[i] <= Total(s)
         /\ (\A i \in 1 .. Len(s) : s[i] <= 1) => Total(s) <= Len(s)
<1>1. PICK f : SumsOf(s, f) /\ Total(s) = f[Len(s)]
  BY TotalIs
<1>2. Len(s) \in Nat /\ \A i \in 1 .. Len(s) : s[i] \in Nat
  BY LenProperties, ElementOfSeq
<1> DEFINE P(n) == /\ f[n] \in Nat /\ \A i \in 1 .. n : s[i] <= f[n]
                   /\ (\A i \in 1 .. Len(s) : s[i] <= 1) => f[n] <= n
           T == {n \in Nat : n <= Len(s) => P(n)}
<1>3. 0 \in T
  <2>1. f[0] = 0
    BY <1>1, <1>2 DEF SumsOf
  <2>2. QED
    BY <2>1
<1>4. ASSUME NEW n \in Nat, n \in T PROVE n + 1 \in T
  <2> SUFFICES ASSUME n + 1 <= Len(s) PROVE P(n + 1)
    OBVIOUS
  <2>1. n + 1 \in 0 .. Len(s) /\ n + 1 # 0 /\ n + 1 - 1 = n /\ n + 1 \in 1 .. Len(s)
    BY <1>2
  <2>2. f[n + 1] = f[n] + s[n + 1]
    BY <1>1, <2>1 DEF SumsOf
  <2>3. P(n) /\ s[n + 1] \in Nat
    BY <1>2, <1>4, <2>1
  <2>4. f[n + 1] \in Nat /\ s[n + 1] <= f[n + 1] /\ f[n] <= f[n + 1]
    BY <2>2, <2>3
  <2>5. ASSUME NEW i \in 1 .. n + 1 PROVE s[i] <= f[n + 1]
    <3>1. CASE i = n + 1
      BY <2>4, <3>1
    <3>2. CASE i \in 1 .. n
      <4>1. s[i] \in Nat /\ s[i] <= f[n]
        BY <1>2, <2>1, <2>3, <3>2
      <4>2. QED
        BY <2>3, <2>4, <4>1
    <3>3. QED
      BY <3>1, <3>2
  <2>6. (\A i \in 1 .. Len(s) : s[i] <= 1) => f[n + 1] <= n + 1
    <3>1. SUFFICES ASSUME \A i \in 1 .. Len(s) : s[i] <= 1 PROVE f[n + 1] <= n + 1
      OBVIOUS
    <3>2. f[n] <= n /\ s[n + 1] <= 1
      BY <2>1, <2>3, <3>1
    <3>3. QED
      BY <2>2, <2>3, <3>2
  <2>7. QED
    BY <2>4, <2>5, <2>6
<1>5. Nat \subseteq T
  <2> HIDE DEF T
  <2> QED BY <1>3, <1>4, Induction
<1>6. P(Len(s))
  BY <1>2, <1>5
<1>7. QED
  BY <1>1, <1>6

LEMMA WeightBounds ==
  ASSUME NEW S, NEW v \in [S -> Nat], NEW q \in Seq(S)
  PROVE  /\ Total(Weights(q, v)) \in Nat
         /\ \A i \in 1 .. Len(q) : v[q[i]] <= Total(Weights(q, v))
         /\ (\A i \in 1 .. Len(q) : v[q[i]] <= 1) => Total(Weights(q, v)) <= Len(q)
<1>1. /\ Weights(q, v) \in Seq(Nat) /\ Len(Weights(q, v)) = Len(q)
      /\ \A i \in 1 .. Len(q) : Weights(q, v)[i] = v[q[i]]
      /\ Total(Weights(q, v)) \in Nat
  BY WeightsTyped
<1> HIDE DEF Weights
<1>2. QED
  BY <1>1, TotalBounds

\* A queue of messages some of which carry numbers.
LEMMA CarriesEmpty ==
  ASSUME NEW v
  PROVE  /\ \A a \in Nat : Carries(Weights(<<>>, v), a, a)
         /\ \A a, b : Carries(Weights(<<>>, v), a, b) => a = b /\ a \in Nat
<1>1. Len(Weights(<<>>, v)) = 0
  <2>1. Weights(<<>>, v) \in [1 .. 0 -> Nat]
    BY DEF Weights
  <2>2. QED
    BY <2>1
<1>2. Len(Weights(<<>>, v)) \in Nat /\ \A i \in 1 .. Len(Weights(<<>>, v)) : Weights(<<>>, v)[i] = 0
  BY <1>1
<1>3. \A a, b : Carries(Weights(<<>>, v), a, b) => a = b
  BY <1>2, CarriesNothing
<1>4. QED
  BY <1>2, <1>3, CarriesNone DEF Carries

LEMMA CarriesAppend ==
  ASSUME NEW S, NEW v \in [S -> Nat], NEW q \in Seq(S), NEW w \in S, NEW a, NEW b,
         Carries(Weights(q, v), a, b)
  PROVE  /\ v[w] = 0 => Carries(Weights(Append(q, w), v), a, b)
         /\ v[w] = b + 1 => Carries(Weights(Append(q, w), v), a, b + 1)
<1>0. \A z \in Seq(S) :
        /\ Weights(z, v) \in Seq(Nat) /\ Len(Weights(z, v)) = Len(z) /\ Len(z) \in Nat
        /\ \A i \in 1 .. Len(z) : Weights(z, v)[i] = v[z[i]] /\ z[i] \in S
        /\ Total(Weights(z, v)) \in Nat
  BY WeightsTyped
<1>1. Append(q, w) \in Seq(S) /\ Grown(Append(q, w), q, w)
  BY AppendGrows
<1> DEFINE t == Append(q, w)
           x == Weights(q, v)
           y == Weights(t, v)
<1>2. Len(x) = Len(q) /\ Len(q) \in Nat /\ \A i \in 1 .. Len(q) : x[i] = v[q[i]]
  BY <1>0
<1>3. Len(y) = Len(t) /\ \A i \in 1 .. Len(t) : y[i] = v[t[i]]
  BY <1>0, <1>1
<1>4. Len(t) = Len(q) + 1 /\ t[Len(q) + 1] = w /\ \A i \in 1 .. Len(q) : t[i] = q[i]
  BY <1>1 DEF Grown
<1> HIDE DEF t, x, y
<1>5. Grown(y, x, v[w])
  BY <1>2, <1>3, <1>4 DEF Grown
<1>6. Len(x) \in Nat /\ Carries(x, a, b)
  BY <1>2 DEF x
<1>7. QED
  BY <1>5, <1>6, CarriesMore DEF y, t

LEMMA CarriesTail ==
  ASSUME NEW S, NEW v \in [S -> Nat], NEW q \in Seq(S), q # <<>>, NEW a, NEW b,
         Carries(Weights(q, v), a, b)
  PROVE  /\ v[Head(q)] = 0 => Carries(Weights(Tail(q), v), a, b)
         /\ v[Head(q)] # 0 => v[Head(q)] = a + 1 /\ a < b /\ Carries(Weights(Tail(q), v), a + 1, b)
<1>0. \A z \in Seq(S) :
        /\ Weights(z, v) \in Seq(Nat) /\ Len(Weights(z, v)) = Len(z) /\ Len(z) \in Nat
        /\ \A i \in 1 .. Len(z) : Weights(z, v)[i] = v[z[i]] /\ z[i] \in S
        /\ Total(Weights(z, v)) \in Nat
  BY WeightsTyped
<1>1. Tail(q) \in Seq(S) /\ Shrunk(Tail(q), q) /\ Head(q) = q[1] /\ 1 \in 1 .. Len(q)
  BY TailShrinks
<1> DEFINE t == Tail(q)
           x == Weights(q, v)
           y == Weights(t, v)
<1>2. Len(x) = Len(q) /\ Len(q) \in Nat /\ \A i \in 1 .. Len(q) : x[i] = v[q[i]]
  BY <1>0
<1>3. Len(y) = Len(t) /\ Len(t) \in Nat /\ \A i \in 1 .. Len(t) : y[i] = v[t[i]]
  BY <1>0, <1>1
<1>4. Len(q) > 0 /\ Len(t) = Len(q) - 1 /\ \A i \in 1 .. Len(t) : t[i] = q[i + 1]
  BY <1>1 DEF Shrunk
<1> HIDE DEF t, x, y
<1>5. \A i \in 1 .. Len(y) : y[i] = x[i + 1]
  <2>1. ASSUME NEW i \in 1 .. Len(t) PROVE y[i] = x[i + 1]
    <3>1. i + 1 \in 1 .. Len(q)
      BY <1>2, <1>3, <1>4
    <3>2. QED
      BY <1>2, <1>3, <1>4, <3>1
  <2>2. QED
    BY <1>3, <2>1
<1>6. Shrunk(y, x) /\ x[1] = v[Head(q)]
  BY <1>1, <1>2, <1>3, <1>4, <1>5 DEF Shrunk
<1>7. Len(x) \in Nat /\ Carries(x, a, b)
  BY <1>2 DEF x
<1>8. QED
  BY <1>6, <1>7, CarriesLess DEF y, t

-----------------------------------------------------------------------------
(* The members of a queue, whatever their order.                           *)

Members(q) == {q[i] : i \in 1 .. Len(q)}

LEMMA MembersNone == Members(<<>>) = {}
BY DEF Members

LEMMA MembersOne ==
  ASSUME NEW x
  PROVE  Members(<<x>>) = {x}
BY DEF Members

LEMMA MembersTyped ==
  ASSUME NEW S, NEW q \in Seq(S)
  PROVE  Members(q) \subseteq S
BY ElementOfSeq DEF Members

LEMMA MembersAppend ==
  ASSUME NEW S, NEW q \in Seq(S), NEW x \in S
  PROVE  Members(Append(q, x)) = Members(q) \cup {x}
<1> DEFINE t == Append(q, x)
           n == Len(q)
<1>1. /\ Len(t) = n + 1 /\ n \in Nat /\ t[n + 1] = x
      /\ \A i \in 1 .. n : t[i] = q[i] /\ i \in 1 .. Len(t)
      /\ \A i \in 1 .. Len(t) : i \in 1 .. n \/ i = n + 1
  BY MembersGrow
<1>2. n + 1 \in 1 .. Len(t)
  BY <1>1
<1> HIDE DEF t
<1>3. \A y \in Members(t) : y \in Members(q) \/ y = x
  BY <1>1 DEF Members
<1>4. \A y \in Members(q) : y \in Members(t)
  BY <1>1 DEF Members
<1>5. x \in Members(t)
  BY <1>1, <1>2 DEF Members
<1>6. Members(t) = Members(q) \cup {x}
  BY <1>3, <1>4, <1>5
<1>7. QED
  BY <1>6 DEF t

LEMMA MembersTail ==
  ASSUME NEW S, NEW q \in Seq(S), q # <<>>
  PROVE  /\ Head(q) \in Members(q) /\ Members(Tail(q)) \subseteq Members(q)
         /\ Members(q) = Members(Tail(q)) \cup {Head(q)}
<1> DEFINE t == Tail(q)
           n == Len(q)
<1>1. /\ n \in Nat /\ Len(t) = n - 1 /\ \A i \in 1 .. Len(t) : t[i] = q[i + 1] /\ i + 1 \in 1 .. n
  BY MembersShrink
<1>2. 1 \in 1 .. n /\ Head(q) = q[1]
  BY TailShrinks
<1>3. Head(q) \in Members(q)
  BY <1>2 DEF Members
<1> HIDE DEF t
<1>4. Members(t) \subseteq Members(q)
  BY <1>1 DEF Members
<1>5. ASSUME NEW i \in 1 .. n, i # 1 PROVE q[i] \in Members(t)
  <2>1. i - 1 \in 1 .. Len(t) /\ (i - 1) + 1 = i
    BY <1>1, <1>5
  <2>2. t[i - 1] = q[i]
    BY <1>1, <2>1
  <2>3. QED
    BY <2>1, <2>2 DEF Members
<1>6. \A y \in Members(q) : y \in Members(t) \/ y = Head(q)
  BY <1>2, <1>5 DEF Members
<1>7. Members(q) = Members(t) \cup {Head(q)}
  BY <1>3, <1>4, <1>6
<1>8. QED
  BY <1>3, <1>4, <1>7 DEF t

LEMMA MembersOfJoin ==
  ASSUME NEW S, NEW q \in Seq(S), NEW u \in Seq(S)
  PROVE  Members(q \o u) = Members(q) \cup Members(u)
<1> DEFINE t == q \o u
           n == Len(q)
           k == Len(u)
<1>1. /\ t \in Seq(S) /\ Len(t) = n + k /\ n \in Nat /\ k \in Nat
      /\ \A i \in 1 .. n : t[i] = q[i] /\ i \in 1 .. Len(t)
      /\ \A i \in 1 .. Len(t) :
           \/ i \in 1 .. n /\ t[i] = q[i]
           \/ i > n /\ i - n \in 1 .. k /\ t[i] = u[i - n]
  BY MembersJoin
<1> HIDE DEF t
<1>2. \A y \in Members(t) : y \in Members(q) \/ y \in Members(u)
  BY <1>1 DEF Members
<1>3. \A y \in Members(q) : y \in Members(t)
  BY <1>1 DEF Members
<1>4. ASSUME NEW i \in 1 .. k PROVE u[i] \in Members(t)
  <2>1. i + n \in 1 .. Len(t) /\ ~(i + n \in 1 .. n) /\ (i + n) - n = i
    BY <1>1
  <2>2. t[i + n] = u[i]
    BY <1>1, <2>1
  <2>3. QED
    BY <2>1, <2>2 DEF Members
<1>5. Members(t) = Members(q) \cup Members(u)
  BY <1>2, <1>3, <1>4 DEF Members
<1>6. QED
  BY <1>5 DEF t

Shifts(q, u, k) == q \o SubSeq(u, 1, k + 1) = Append(q \o SubSeq(u, 1, k), u[k + 1])

\* The first of a queue moved to the end of another, k of them: together the
\* two carry what they did.
LEMMA PartGrows ==
  ASSUME NEW S, NEW q \in Seq(S), NEW u \in Seq(S), NEW k \in Nat, k + 1 <= Len(u)
  PROVE  /\ u[k + 1] \in S /\ q \o SubSeq(u, 1, k) \in Seq(S)
         /\ Shifts(q, u, k)
         /\ SubSeq(u, k + 1, Len(u)) \in Seq(S) /\ SubSeq(u, k + 1, Len(u)) # <<>>
         /\ Head(SubSeq(u, k + 1, Len(u))) = u[k + 1]
         /\ Tail(SubSeq(u, k + 1, Len(u))) = SubSeq(u, k + 1 + 1, Len(u))
<1> DEFINE n == Len(u)
           r == SubSeq(u, k + 1, n)
           p == SubSeq(u, 1, k)
<1>1. n \in Nat /\ k + 1 \in 1 .. n /\ n \in k + 1 .. n /\ 1 \in 1 .. n /\ k + 1 \in 1 .. n
  BY LenProperties
<1>2. \A i \in 1 .. n : u[i] \in S
  BY ElementOfSeq
<1>3. Head(r) = u[k + 1] /\ Tail(r) = SubSeq(u, k + 1 + 1, n)
  BY <1>1, HeadTailOfSubSeq
<1>4. r \in Seq(S) /\ r # <<>>
  <2>1. \A i \in k + 1 .. n : u[i] \in S
    BY <1>1, <1>2
  <2>2. r \in Seq(S) /\ Len(r) = n - (k + 1) + 1
    BY <1>1, <2>1, SubSeqProperties
  <2> HIDE DEF r
  <2>3. Len(r) # 0
    BY <1>1, <2>2
  <2>4. QED
    BY <2>2, <2>3, EmptySeq
<1>5. p \in Seq(S)
  <2>1. \A i \in 1 .. k : u[i] \in S
    BY <1>1, <1>2
  <2>2. QED
    BY <2>1, SubSeqProperties
<1>6. SubSeq(u, 1, k + 1) = p \o <<u[k + 1]>>
  <2>1. SubSeq(u, 1, k + 1) = SubSeq(u, 1, k + 1 - 1) \o <<u[k + 1]>>
    BY <1>1, SubSeqRecursiveSecond
  <2>2. k + 1 - 1 = k
    OBVIOUS
  <2>3. QED
    BY <2>1, <2>2
<1>7. u[k + 1] \in S
  BY <1>1, <1>2
<1> HIDE DEF p, r
<1>8. q \o p \in Seq(S) /\ <<u[k + 1]>> \in Seq(S)
  BY <1>5, <1>7, ConcatProperties
<1>9. q \o (p \o <<u[k + 1]>>) = (q \o p) \o <<u[k + 1]>>
  BY <1>5, <1>8, ConcatAssociative
<1>10. Append(q \o p, u[k + 1]) = (q \o p) \o <<u[k + 1]>>
  BY <1>7, <1>8, AppendIsConcat
<1>11. QED
  BY <1>3, <1>4, <1>6, <1>7, <1>8, <1>9, <1>10 DEF p, r, Shifts

LEMMA CarriesPart ==
  ASSUME NEW S, NEW v \in [S -> Nat], NEW q \in Seq(S), NEW u \in Seq(S), NEW a, NEW b, NEW c,
         Carries(Weights(q, v), a, b), Carries(Weights(u, v), b, c), NEW k \in 0 .. Len(u)
  PROVE  \E d \in Nat : /\ Carries(Weights(q \o SubSeq(u, 1, k), v), a, d)
                        /\ Carries(Weights(SubSeq(u, k + 1, Len(u)), v), d, c)
<1> DEFINE G(j, d) == /\ Carries(Weights(q \o SubSeq(u, 1, j), v), a, d)
                      /\ Carries(Weights(SubSeq(u, j + 1, Len(u)), v), d, c)
           T == {j \in Nat : j <= Len(u) => \E d \in Nat : G(j, d)}
<1>1. 0 \in T
  <2>1. SubSeq(u, 1, 0) = <<>> /\ q \o <<>> = q /\ SubSeq(u, 0 + 1, Len(u)) = u
    BY SubSeqEmpty, SubSeqFull, ConcatEmptySeq
  <2>2. b \in Nat
    BY DEF Carries
  <2>3. G(0, b)
    BY <2>1
  <2> HIDE DEF G
  <2>4. QED
    BY <2>2, <2>3
<1>2. ASSUME NEW j \in Nat, j \in T PROVE j + 1 \in T
  <2> SUFFICES ASSUME j + 1 <= Len(u) PROVE \E d \in Nat : G(j + 1, d)
    OBVIOUS
  <2> DEFINE p == q \o SubSeq(u, 1, j)
             r == SubSeq(u, j + 1, Len(u))
             x == u[j + 1]
  <2> HIDE DEF G
  <2>1. /\ x \in S /\ p \in Seq(S) /\ q \o SubSeq(u, 1, j + 1) = Append(p, x)
        /\ r \in Seq(S) /\ r # <<>> /\ Head(r) = x /\ Tail(r) = SubSeq(u, j + 1 + 1, Len(u))
    <3>1. x \in S /\ p \in Seq(S)
      BY PartGrows
    <3>2. q \o SubSeq(u, 1, j + 1) = Append(p, x)
      <4> HIDE DEF T
      <4>1. q \o SubSeq(u, 1, j + 1) = Append(q \o SubSeq(u, 1, j), u[j + 1])
        <5>1. Shifts(q, u, j)
          BY PartGrows
        <5>2. QED
          BY <5>1, Zenon DEF Shifts
      <4>2. QED
        BY <4>1
    <3>3. r \in Seq(S) /\ r # <<>>
      BY PartGrows
    <3>4. Head(r) = x
      BY PartGrows
    <3>5. Tail(r) = SubSeq(u, j + 1 + 1, Len(u))
      BY PartGrows
    <3> HIDE DEF p, r, x
    <3>6. QED
      BY <3>1, <3>2, <3>3, <3>4, <3>5
  <2>2. Len(u) \in Nat
    BY LenProperties
  <2>3. PICK d \in Nat : G(j, d)
    BY <1>2, <2>2
  <2>4. Carries(Weights(p, v), a, d) /\ Carries(Weights(r, v), d, c)
    BY <2>3 DEF G
  <2> HIDE DEF p, r, x
  <2>5. CASE v[x] = 0
    <3>1. Carries(Weights(Append(p, x), v), a, d)
      BY <2>1, <2>4, <2>5, CarriesAppend
    <3>2. Carries(Weights(Tail(r), v), d, c)
      BY <2>1, <2>4, <2>5, CarriesTail
    <3>3. G(j + 1, d)
      BY <2>1, <3>1, <3>2 DEF G
    <3>4. QED
      BY <3>3
  <2>6. CASE v[x] # 0
    <3>1. v[x] = d + 1 /\ Carries(Weights(Tail(r), v), d + 1, c)
      BY <2>1, <2>4, <2>6, CarriesTail
    <3>2. Carries(Weights(Append(p, x), v), a, d + 1)
      BY <2>1, <2>4, <3>1, CarriesAppend
    <3>3. G(j + 1, d + 1)
      BY <2>1, <3>1, <3>2 DEF G
    <3>4. QED
      BY <3>3
  <2>7. QED
    BY <2>5, <2>6
<1>3. Nat \subseteq T
  <2> HIDE DEF T
  <2> QED BY <1>1, <1>2, Induction
<1>4. k \in Nat /\ k <= Len(u)
  BY LenProperties
<1>5. QED
  BY <1>3, <1>4

LEMMA CarriesJoin ==
  ASSUME NEW S, NEW v \in [S -> Nat], NEW q \in Seq(S), NEW u \in Seq(S), NEW a, NEW b, NEW c,
         Carries(Weights(q, v), a, b), Carries(Weights(u, v), b, c)
  PROVE  Carries(Weights(q \o u, v), a, c)
<1> DEFINE k == Len(u)
<1>1. k \in Nat /\ k \in 0 .. Len(u) /\ k < k + 1
  BY LenProperties
<1>2. SubSeq(u, 1, k) = u /\ SubSeq(u, k + 1, Len(u)) = <<>>
  BY <1>1, SubSeqFull, SubSeqEmpty
<1>3. PICK d \in Nat : /\ Carries(Weights(q \o SubSeq(u, 1, k), v), a, d)
                       /\ Carries(Weights(SubSeq(u, k + 1, Len(u)), v), d, c)
  BY <1>1, CarriesPart
<1>4. d = c
  BY <1>2, <1>3, CarriesEmpty
<1>5. QED
  BY <1>2, <1>3, <1>4

\* What weighs nothing changes nothing.
LEMMA CarriesQuiet ==
  ASSUME NEW S, NEW v \in [S -> Nat], NEW u \in Seq(S), \A m \in Members(u) : v[m] = 0
  PROVE  /\ \A a \in Nat : Carries(Weights(u, v), a, a)
         /\ \A a, b : Carries(Weights(u, v), a, b) => a = b /\ a \in Nat
<1> DEFINE w == Weights(u, v)
<1>1. Len(w) = Len(u) /\ Len(u) \in Nat /\ \A i \in 1 .. Len(u) : w[i] = v[u[i]]
  BY WeightsTyped
<1> HIDE DEF w
<1>2. Len(w) \in Nat /\ \A i \in 1 .. Len(w) : w[i] = 0
  BY <1>1 DEF Members
<1>3. (\A a \in Nat : Carries(w, a, a)) /\ \A a, b : Carries(w, a, b) => a = b
  BY <1>2, CarriesNone, CarriesNothing
<1>4. QED
  BY <1>3 DEF Carries, w


-----------------------------------------------------------------------------
(* What is left of a sequence when some of its members go.                 *)

Distinct(q) == \A i, j \in 1 .. Len(q) : q[i] = q[j] => i = j

LEMMA DistinctAppend ==
  ASSUME NEW S, NEW q \in Seq(S), NEW x \in S, Distinct(q), x \notin Members(q)
  PROVE  Distinct(Append(q, x))
<1> DEFINE t == Append(q, x)
           n == Len(q)
<1>1. /\ Len(t) = n + 1 /\ n \in Nat /\ t[n + 1] = x
      /\ \A i \in 1 .. n : t[i] = q[i] /\ i \in 1 .. Len(t)
      /\ \A i \in 1 .. Len(t) : i \in 1 .. n \/ i = n + 1
  BY MembersGrow
<1> HIDE DEF t
<1>2. \A i \in 1 .. n : q[i] # x
  BY DEF Members
<1>3. ASSUME NEW i \in 1 .. Len(t), NEW j \in 1 .. Len(t), t[i] = t[j] PROVE i = j
  <2>1. CASE i \in 1 .. n /\ j \in 1 .. n
    BY <1>1, <1>3, <2>1 DEF Distinct
  <2>2. CASE i = n + 1 /\ j \in 1 .. n
    BY <1>1, <1>2, <1>3, <2>2
  <2>3. CASE i \in 1 .. n /\ j = n + 1
    BY <1>1, <1>2, <1>3, <2>3
  <2>4. QED
    BY <1>1, <2>1, <2>2, <2>3
<1>4. Distinct(t)
  BY <1>3 DEF Distinct
<1>5. QED
  BY <1>4 DEF t

\* f gives what is left of each prefix of s.
KeptOf(s, gone, f) ==
  f = [i \in 0 .. Len(s) |-> IF i = 0 THEN <<>>
                             ELSE IF s[i] \in gone THEN f[i - 1] ELSE Append(f[i - 1], s[i])]

LEMMA KeptExists ==
  ASSUME NEW s, Len(s) \in Nat, NEW gone
  PROVE  \E f : KeptOf(s, gone, f)
<1> DEFINE After(i, q) == IF s[i] \in gone THEN q ELSE Append(q, s[i])
           G(n, g) == g = [i \in 0 .. n |-> IF i = 0 THEN <<>> ELSE After(i, g[i - 1])]
           S == {n \in Nat : \E g : G(n, g)}
<1>1. 0 \in S
  <2>1. G(0, [i \in 0 .. 0 |-> <<>>])
    OBVIOUS
  <2> QED BY <2>1
<1>2. ASSUME NEW n \in Nat, n \in S PROVE n + 1 \in S
  <2>1. PICK g : G(n, g)
    BY <1>2
  <2> DEFINE h == [i \in 0 .. n + 1 |-> IF i = n + 1 THEN After(n + 1, g[n]) ELSE g[i]]
  <2>2. G(n + 1, h)
    <3> SUFFICES ASSUME NEW i \in 0 .. n + 1
                 PROVE  h[i] = IF i = 0 THEN <<>> ELSE After(i, h[i - 1])
      OBVIOUS
    <3> HIDE DEF After
    <3>1. CASE i = n + 1
      BY <3>1
    <3>2. CASE i \in 0 .. n
      BY <3>2, <2>1
    <3> QED BY <3>1, <3>2
  <2>3. \E w : G(n + 1, w)
    <3> HIDE DEF h, After
    <3> QED BY <2>2
  <2> HIDE DEF G
  <2> QED BY <2>3
<1>3. Nat \subseteq S
  <2> HIDE DEF S
  <2> QED BY <1>1, <1>2, Induction
<1>4. Len(s) \in S
  BY <1>3
<1> QED BY <1>4 DEF KeptOf

LEMMA RemovingIs ==
  ASSUME NEW S, NEW s \in Seq(S), NEW gone
  PROVE  /\ Removing(s, gone) \in Seq(S) /\ Removing(s, gone) \in Seq(S \ gone)
         /\ Members(Removing(s, gone)) = Members(s) \ gone
         /\ Distinct(s) => Distinct(Removing(s, gone))
<1> DEFINE f == CHOOSE f : KeptOf(s, gone, f)
           n == Len(s)
           Before(i) == {s[j] : j \in 1 .. i}
           Good(i) == /\ f[i] \in Seq(S \ gone) /\ Members(f[i]) = Before(i) \ gone
                      /\ Distinct(s) => Distinct(f[i])
           P == {i \in Nat : i <= n => Good(i)}
<1>1. n \in Nat /\ \A i \in 1 .. n : s[i] \in S
  BY LenProperties, ElementOfSeq
<1>2. KeptOf(s, gone, f)
  BY <1>1, KeptExists
<1>3. Removing(s, gone) = f[n]
  BY DEF Removing, KeptOf
<1> HIDE DEF f
<1>4. f[0] = <<>> /\ \A i \in 1 .. n : f[i] = IF s[i] \in gone THEN f[i - 1] ELSE Append(f[i - 1], s[i])
  <2> DEFINE g == [i \in 0 .. n |-> IF i = 0 THEN <<>>
                                   ELSE IF s[i] \in gone THEN f[i - 1] ELSE Append(f[i - 1], s[i])]
  <2>1. f = g
    BY <1>2 DEF KeptOf
  <2>2. g[0] = <<>> /\ \A i \in 1 .. n : g[i] = IF s[i] \in gone THEN f[i - 1] ELSE Append(f[i - 1], s[i])
    BY <1>1
  <2> HIDE DEF g
  <2>3. QED
    BY <2>1, <2>2
<1>5. 0 \in P
  <2>1. Before(0) = {}
    OBVIOUS
  <2>2. <<>> \in Seq(S \ gone) /\ Members(<<>>) = {} /\ Distinct(<<>>)
    BY MembersNone DEF Distinct
  <2>3. QED
    BY <1>4, <2>1, <2>2
<1>6. ASSUME NEW i \in Nat, i \in P PROVE i + 1 \in P
  <2> SUFFICES ASSUME i + 1 <= n PROVE Good(i + 1)
    OBVIOUS
  <2>1. Good(i) /\ i + 1 \in 1 .. n /\ (i + 1) - 1 = i
    BY <1>1, <1>6
  <2>2. f[i + 1] = IF s[i + 1] \in gone THEN f[i] ELSE Append(f[i], s[i + 1])
    BY <1>4, <2>1
  <2>3. Before(i + 1) = Before(i) \cup {s[i + 1]}
    <3>1. 1 .. i + 1 = (1 .. i) \cup {i + 1}
      OBVIOUS
    <3>2. QED
      BY <3>1
  <2>4. Distinct(s) => s[i + 1] \notin Before(i)
    <3>1. \A j \in 1 .. i : j \in 1 .. n /\ j # i + 1
      BY <1>1, <2>1
    <3>2. QED
      BY <2>1, <3>1 DEF Distinct
  <2>5. s[i + 1] \in S
    BY <1>1, <2>1
  <2> HIDE DEF Before
  <2>6. CASE s[i + 1] \in gone
    BY <2>1, <2>2, <2>3, <2>6
  <2>7. CASE s[i + 1] \notin gone
    <3>1. s[i + 1] \in S \ gone
      BY <2>5, <2>7
    <3>2. /\ Append(f[i], s[i + 1]) \in Seq(S \ gone)
          /\ Members(Append(f[i], s[i + 1])) = Members(f[i]) \cup {s[i + 1]}
      BY <2>1, <3>1, AppendGrows, MembersAppend
    <3>3. Distinct(s) => Distinct(Append(f[i], s[i + 1]))
      BY <2>1, <2>4, <3>1, DistinctAppend
    <3>4. QED
      BY <2>1, <2>2, <2>3, <2>7, <3>2, <3>3
  <2>8. QED
    BY <2>6, <2>7
<1>7. Nat \subseteq P
  <2> HIDE DEF P
  <2> QED BY <1>5, <1>6, Induction
<1>8. Good(n)
  <2>1. n \in P /\ n <= n
    BY <1>1, <1>7
  <2> HIDE DEF Good
  <2>2. QED
    BY <2>1
<1>9. Before(n) = Members(s)
  BY DEF Members
<1>10. Seq(S \ gone) \subseteq Seq(S)
  BY WiderQueues
<1>11. QED
  BY <1>3, <1>8, <1>9, <1>10
=============================================================================
