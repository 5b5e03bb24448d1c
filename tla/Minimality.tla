----------------------------- MODULE Minimality -----------------------------
(***************************************************************************)
(* Least numbers, and minimal elements of finite sets: what takes the      *)
(* place of an induction in the proofs of the other modules.               *)
(***************************************************************************)
EXTENDS Naturals, FiniteSets, FiniteSetTheorems, WellFoundedInduction, TLAPS

\* Every set of numbers that is not empty has a least element.
Less == {ss \in Nat \X Nat : ss[1] < ss[2]}

LEMMA LeastNumber ==
  ASSUME NEW T \in SUBSET Nat, T # {}
  PROVE  \E n \in T : \A m \in T : n <= m
<1>1. IsWellFoundedOn(Less, Nat)
  BY NatLessThanWellFounded DEF OpToRel, Less
<1>2. PICK n \in T : \A m \in T : <<m, n>> \notin Less
  BY <1>1, WFMin
<1>3. ASSUME NEW m \in T PROVE n <= m
  <2>1. m \in Nat /\ n \in Nat /\ ~(m < n)
    BY <1>2 DEF Less
  <2> QED
    BY <2>1
<1> QED
  BY <1>3

\* The elements of C that come before x.
Before(x, C, R) == {y \in C : <<y, x>> \in R}

\* In a finite set with a strict order each element is minimal, or a minimal
\* one comes before it.
LEMMA MinimalBefore ==
  ASSUME NEW C, IsFiniteSet(C), NEW R,
         \A x \in C : <<x, x>> \notin R,
         \A x, y, z \in C : <<x, y>> \in R /\ <<y, z>> \in R => <<x, z>> \in R,
         NEW x \in C
  PROVE  \E y \in C : (y = x \/ <<y, x>> \in R) /\ Before(y, C, R) = {}
<1> DEFINE D     == {y \in C : y = x \/ <<y, x>> \in R}
           sizes == {Cardinality(Before(y, C, R)) : y \in D}
<1>1. \A y \in C : IsFiniteSet(Before(y, C, R)) /\ Cardinality(Before(y, C, R)) \in Nat
  <2>1. \A y \in C : Before(y, C, R) \subseteq C
    BY DEF Before
  <2> QED
    BY <2>1, FS_Subset, FS_CardinalityType
<1>2. sizes \in SUBSET Nat /\ sizes # {}
  <2>1. x \in D /\ D \subseteq C
    OBVIOUS
  <2> HIDE DEF D
  <2>2. \A k \in sizes : k \in Nat
    BY <1>1, <2>1
  <2>3. Cardinality(Before(x, C, R)) \in sizes
    BY <2>1
  <2> QED
    BY <2>2, <2>3
<1>3. PICK n \in sizes : \A m \in sizes : n <= m
  <2> HIDE DEF sizes
  <2> QED
    BY <1>2, LeastNumber
<1>4. PICK y \in D : n = Cardinality(Before(y, C, R))
  OBVIOUS
<1>5. ASSUME NEW z \in Before(y, C, R) PROVE FALSE
  <2>1. z \in D /\ z \in C /\ y \in C /\ <<z, y>> \in R
    BY <1>5 DEF Before
  <2>2. Before(z, C, R) \subseteq Before(y, C, R) /\ z \notin Before(z, C, R)
    BY <2>1 DEF Before
  <2>3. Cardinality(Before(z, C, R)) < Cardinality(Before(y, C, R))
    <3>1. Before(z, C, R) # Before(y, C, R)
      BY <1>5, <2>2
    <3> QED
      BY <1>1, <2>1, <2>2, <3>1, FS_Subset
  <2>4. n <= Cardinality(Before(z, C, R))
    BY <1>3, <2>1
  <2>5. n \in Nat /\ Cardinality(Before(z, C, R)) \in Nat
    BY <1>1, <1>2, <2>1
  <2> QED
    BY <1>4, <2>3, <2>4, <2>5
<1> QED
  BY <1>4, <1>5
=============================================================================
