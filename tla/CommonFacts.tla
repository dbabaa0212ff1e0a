---------------------------- MODULE CommonFacts ----------------------------
(***************************************************************************)
(* Facts that the proofs of several components use.  Of sets of numbers:   *)
(* such a set has a least element, a bounded one has a greatest, and       *)
(* induction in the form of a set that is closed under successor.  Of      *)
(* sequences: what Append and Tail do to the length and the elements.      *)
(***************************************************************************)
EXTENDS Integers, SequenceTheorems, WellFoundedInduction, TLAPS

(* A set of natural numbers that is not empty has a least element.         *)
LEMMA LeastElement ==
  ASSUME NEW S \in SUBSET Nat, S # {}
  PROVE  \E x \in S : \A y \in S : x <= y
<1> DEFINE R == OpToRel(<, Nat)
<1>1. IsWellFoundedOn(R, Nat)
  BY NatLessThanWellFounded, Zenon DEF OpToRel
<1>2. \A x, y \in Nat : y < x => <<y, x>> \in R
  BY DEF OpToRel
<1> HIDE DEF R
<1>3. PICK x \in S : \A y \in S : ~ (<<y, x>> \in R)
  BY <1>1, WFMin
<1>4. ASSUME NEW y \in S PROVE x <= y
  <2>1. x \in Nat /\ y \in Nat
    OBVIOUS
  <2>2. ~ (y < x)
    BY <1>2, <1>3, <2>1
  <2> QED
    BY <2>1, <2>2
<1> QED
  BY <1>4

(* A set of indices that is not empty has a greatest element.              *)
LEMMA GreatestElement ==
  ASSUME NEW n \in Nat, NEW S \in SUBSET (1 .. n), S # {}
  PROVE  \E x \in S : \A y \in S : y <= x
<1> DEFINE T == {m \in Nat : \A y \in S : y <= m}
<1>1. n \in T
  OBVIOUS
<1>2. PICK t \in T : \A u \in T : t <= u
  <2>1. T \in SUBSET Nat /\ T # {}
    BY <1>1
  <2> HIDE DEF T
  <2> QED
    BY <2>1, LeastElement
<1>3. t \in Nat /\ \A y \in S : y \in Nat /\ y <= t
  OBVIOUS
<1>4. CASE t \in S
  BY <1>3, <1>4
<1>5. CASE t \notin S
  <2>1. \A y \in S : y < t
    BY <1>3, <1>5
  <2>2. PICK y \in S : TRUE
    OBVIOUS
  <2>3. t - 1 \in Nat /\ \A z \in S : z <= t - 1
    BY <1>3, <2>1, <2>2
  <2>4. t - 1 \in T
    BY <2>3
  <2> HIDE DEF T
  <2>5. t <= t - 1
    BY <1>2, <2>4
  <2> QED
    BY <1>3, <2>5
<1> QED
  BY <1>4, <1>5

(* Induction over the natural numbers, for a set.                          *)
LEMMA SetInduction ==
  ASSUME NEW S, 0 \in S, \A n \in Nat : n \in S => n + 1 \in S
  PROVE  \A n \in Nat : n \in S
<1> DEFINE T == {n \in Nat : n \notin S}
<1>1. SUFFICES ASSUME T # {} PROVE FALSE
  OBVIOUS
<1>2. PICK t \in T : \A u \in T : t <= u
  <2>1. T \in SUBSET Nat
    OBVIOUS
  <2> HIDE DEF T
  <2> QED
    BY <1>1, <2>1, LeastElement
<1>3. t \in Nat /\ t # 0 /\ t \notin S
  OBVIOUS
<1>4. t - 1 \in Nat /\ (t - 1) + 1 = t
  BY <1>3
<1>5. t - 1 \notin T
  BY <1>2, <1>3, <1>4
<1> QED
  BY <1>3, <1>4, <1>5

(* F says what follows, at place k, what is there at the place before; f   *)
(* starts with a and goes on as F says, up to place m.                     *)
IsSuccession(F, m, S) == F \in [(1 .. m) \X S -> S]
Iterates(f, a, m, F, S) ==
  /\ f \in [0 .. m -> S]
  /\ f[0] = a
  /\ \A k \in 1 .. m : f[k] = F[<<k, f[k - 1]>>]

(* What is given for 0, and for k by what it is for k - 1, is a function.  *)
LEMMA IterationExists ==
  ASSUME NEW S, NEW a \in S, NEW m \in Nat, NEW F, IsSuccession(F, m, S)
  PROVE  \E f : Iterates(f, a, m, F, S)
<1>0. F \in [(1 .. m) \X S -> S]
  BY DEF IsSuccession
<1> DEFINE Starts(n, f) == f[0] = a /\ \A k \in 1 .. n : f[k] = F[<<k, f[k - 1]>>]
           T == {n \in Nat : n <= m => \E f \in [0 .. n -> S] : Starts(n, f)}
<1>1. 0 \in T
  <2> DEFINE f == [k \in 0 .. 0 |-> a]
  <2>1. f \in [0 .. 0 -> S] /\ Starts(0, f)
    OBVIOUS
  <2> QED
    BY <2>1
<1>2. ASSUME NEW n \in Nat, n \in T PROVE n + 1 \in T
  <2> SUFFICES ASSUME n + 1 <= m
               PROVE  \E g \in [0 .. n + 1 -> S] : Starts(n + 1, g)
    OBVIOUS
  <2>1. PICK f \in [0 .. n -> S] : Starts(n, f)
    BY <1>2
  <2>2. f[n] \in S /\ n + 1 \in 1 .. m
    OBVIOUS
  <2> DEFINE next == F[<<n + 1, f[n]>>]
             g == [k \in 0 .. n + 1 |-> IF k = n + 1 THEN next ELSE f[k]]
  <2>3. next \in S
    BY <1>0, <2>2
  <2> HIDE DEF next
  <2>4. g \in [0 .. n + 1 -> S]
    BY <2>3
  <2>5. g[n + 1] = next /\ \A k \in 0 .. n : g[k] = f[k]
    OBVIOUS
  <2>6. ASSUME NEW k \in 1 .. n + 1 PROVE g[k] = F[<<k, g[k - 1]>>]
    <3>1. k - 1 \in 0 .. n /\ g[k - 1] = f[k - 1]
      BY <2>5
    <3>2. CASE k = n + 1
      <4>1. k - 1 = n /\ g[k] = next
        BY <2>5, <3>2
      <4> HIDE DEF g
      <4> QED
        BY <3>1, <3>2, <4>1 DEF next
    <3>3. CASE k \in 1 .. n
      <4>1. k \in 0 .. n
        BY <3>3
      <4>2. g[k] = f[k] /\ f[k] = F[<<k, f[k - 1]>>]
        BY <2>1, <2>5, <3>3, <4>1
      <4> QED
        BY <3>1, <4>2
    <3> QED
      BY <3>2, <3>3
  <2>7. g[0] = a
    BY <2>1, <2>5
  <2> HIDE DEF g
  <2> QED
    BY <2>4, <2>6, <2>7
<1>3. \A n \in Nat : n \in T
  <2> HIDE DEF T
  <2> QED
    BY <1>1, <1>2, SetInduction
<1>4. m \in T /\ m <= m
  BY <1>3
<1> QED
  BY <1>4 DEF Iterates

(* A sequence with one element more.                                       *)
LEMMA AppendFacts ==
  ASSUME NEW S, NEW s \in Seq(S), NEW e \in S
  PROVE  /\ Append(s, e) \in Seq(S)
         /\ Len(s) \in Nat
         /\ Len(Append(s, e)) = Len(s) + 1
         /\ Append(s, e)[Len(s) + 1] = e
         /\ \A i \in 1 .. Len(s) : Append(s, e)[i] = s[i] /\ s[i] \in S
OBVIOUS

(* A sequence of one element.                                              *)
LEMMA SingleFacts ==
  ASSUME NEW S, NEW e \in S
  PROVE  /\ <<e>> \in Seq(S)
         /\ Len(<<e>>) = 1
         /\ <<e>>[1] = e
OBVIOUS

(* A sequence without its first element.                                   *)
LEMMA TailFacts ==
  ASSUME NEW S, NEW s \in Seq(S), s # <<>>
  PROVE  /\ Tail(s) \in Seq(S)
         /\ Head(s) = s[1]
         /\ s[1] \in S
         /\ Len(s) \in Nat \ {0}
         /\ Len(Tail(s)) = Len(s) - 1
         /\ \A i \in 1 .. Len(Tail(s)) : Tail(s)[i] = s[i + 1] /\ i + 1 \in 1 .. Len(s)
<1>1. Len(s) \in Nat \ {0} /\ s[1] \in S /\ Head(s) = s[1]
  OBVIOUS
<1>2. Len(Tail(s)) = Len(s) - 1 /\ Tail(s) \in Seq(S)
      /\ \A i \in 1 .. Len(Tail(s)) : Tail(s)[i] = s[i + 1]
  BY HeadTailProperties
<1> QED
  BY <1>1, <1>2

(* A function on the first numbers is a sequence.                          *)
LEMMA FunctionIsSequence ==
  ASSUME NEW S, NEW n \in Nat, NEW f \in [1 .. n -> S]
  PROVE  f \in Seq(S) /\ Len(f) = n
OBVIOUS

============================================================================
