--------------------------- MODULE OverloadsProofs ---------------------------
(***************************************************************************)
(* The choice of the overload, for any number of candidates, of arguments  *)
(* and of ranks: being better is a strict order, so that a call has no     *)
(* candidate, or one that beats all others, or is ambiguous.               *)
(***************************************************************************)
EXTENDS Overloads, Minimality, TLAPS

\* Every candidate has a rank for each of the n arguments.
Ranked(ranks, C, n) == ranks \in [C -> [1..n -> Nat]]

LEMMA BetterIsStrict ==
  ASSUME NEW n \in Nat, NEW a \in [1..n -> Nat]
  PROVE  ~isBetterThan(a, a)
BY DEF isBetterThan

LEMMA BetterIsTransitive ==
  ASSUME NEW n \in Nat, NEW a \in [1..n -> Nat], NEW b \in [1..n -> Nat],
         NEW c \in [1..n -> Nat], isBetterThan(a, b), isBetterThan(b, c)
  PROVE  isBetterThan(a, c)
<1>1. \A i \in 1..n : a[i] \in Nat /\ b[i] \in Nat /\ c[i] \in Nat /\ a[i] <= b[i] /\ b[i] <= c[i]
  BY DEF isBetterThan
<1>2. PICK i \in 1..n : a[i] < b[i]
  BY DEF isBetterThan
<1>3. a[i] < c[i] /\ \A j \in 1..n : a[j] <= c[j]
  BY <1>1, <1>2
<1> QED
  BY <1>3 DEF isBetterThan

\* Each candidate is unbeaten, or one is better that is.
LEMMA UnbeatenBelow ==
  ASSUME NEW n \in Nat, NEW C, IsFiniteSet(C), NEW ranks, Ranked(ranks, C, n), NEW m \in C
  PROVE  \E u \in Unbeaten(ranks) : u = m \/ isBetterThan(ranks[u], ranks[m])
<1> DEFINE R == {e \in C \X C : isBetterThan(ranks[e[1]], ranks[e[2]])}
<1>1. DOMAIN ranks = C /\ \A x \in C : ranks[x] \in [1..n -> Nat]
  BY DEF Ranked
<1>2. \A x, y \in C : <<x, y>> \in R <=> isBetterThan(ranks[x], ranks[y])
  OBVIOUS
<1> HIDE DEF R
<1>3. \A x \in C : <<x, x>> \notin R
  BY <1>1, <1>2, BetterIsStrict
<1>4. \A x, y, z \in C : <<x, y>> \in R /\ <<y, z>> \in R => <<x, z>> \in R
  BY <1>1, <1>2, BetterIsTransitive
<1>5. PICK u \in C : (u = m \/ <<u, m>> \in R) /\ Before(u, C, R) = {}
  BY <1>3, <1>4, MinimalBefore
<1>6. u \in Unbeaten(ranks)
  BY <1>1, <1>2, <1>5 DEF Unbeaten, Before
<1> QED
  BY <1>2, <1>5, <1>6

\* If something takes the arguments, something is unbeaten: a call is not
\* reported as unknown for want of a best candidate (ResolveCall.cpp:157).
THEOREM SomeUnbeaten ==
  ASSUME NEW n \in Nat, NEW C, IsFiniteSet(C), C # {}, NEW ranks, Ranked(ranks, C, n)
  PROVE  Unbeaten(ranks) # {}
BY UnbeatenBelow

\* The candidate that resolveOverload returns, the only unbeaten one, is
\* better than each other candidate, though it has been compared for being
\* beaten only; and a call that has such a candidate is never found ambiguous
\* (ResolveCall.cpp:136-165).
THEOREM ChosenBeatsAll ==
  ASSUME NEW n \in Nat, NEW C, IsFiniteSet(C), NEW ranks, Ranked(ranks, C, n), NEW m
  PROVE  Unbeaten(ranks) = {m} <=> BeatsAll(m, ranks)
<1>1. DOMAIN ranks = C /\ \A x \in C : ranks[x] \in [1..n -> Nat]
  BY DEF Ranked
<1>2. ASSUME Unbeaten(ranks) = {m} PROVE BeatsAll(m, ranks)
  <2>1. m \in C
    BY <1>1, <1>2 DEF Unbeaten
  <2>2. ASSUME NEW o \in C \ {m} PROVE isBetterThan(ranks[m], ranks[o])
    BY <1>2, <2>2, UnbeatenBelow
  <2> QED
    BY <1>1, <2>1, <2>2 DEF BeatsAll
<1>3. ASSUME BeatsAll(m, ranks) PROVE Unbeaten(ranks) = {m}
  <2>1. m \in C /\ \A o \in C \ {m} : isBetterThan(ranks[m], ranks[o])
    BY <1>1, <1>3 DEF BeatsAll
  <2>2. ASSUME NEW o \in C, isBetterThan(ranks[o], ranks[m]) PROVE FALSE
    <3>1. o # m
      BY <1>1, <2>2, BetterIsStrict
    <3>2. isBetterThan(ranks[o], ranks[o])
      BY <1>1, <2>1, <2>2, <3>1, BetterIsTransitive
    <3> QED
      BY <1>1, <3>2, BetterIsStrict
  <2>3. m \in Unbeaten(ranks)
    BY <1>1, <2>1, <2>2 DEF Unbeaten
  <2>4. \A o \in Unbeaten(ranks) : o = m
    BY <1>1, <2>1 DEF Unbeaten
  <2> QED
    BY <2>3, <2>4
<1> QED
  BY <1>2, <1>3
=============================================================================
