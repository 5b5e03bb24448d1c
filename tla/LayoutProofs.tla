---------------------------- MODULE LayoutProofs ----------------------------
(***************************************************************************)
(* The numbering of fields for every set of types, in every order of       *)
(* registration and with every graph of bases: chains are numbered without *)
(* gap or overlap, and exactly the cyclic graphs are refused.              *)
(*                                                                         *)
(* The types that are Done are closed under bases, so that the family of a *)
(* type is the type and the family of its base (FamilyOfDerived), and what *)
(* holds of the base's numbers carries over.  The types being visited are  *)
(* a chain of bases, so that a base among them closes a cycle.             *)
(***************************************************************************)
EXTENDS Layout, SequenceTheorems, Minimality, TLAPS

Done == {c \in Laid : Is(c, "Done")}

\* The fields of type and its bases are numbered from 0 on.
Consecutive(fields, count, index) ==
  /\ \A f \in fields : index[f] \in 0..(count - 1)
  /\ \A k \in 0..(count - 1) : \E f \in fields : index[f] = k
  /\ \A f, g \in fields : index[f] = index[g] => f = g
NumberedBy(type, count, index) == Consecutive(AllFields(type), count, index)

\* The stack is a chain of bases, of all the types being visited.
Chain ==
  /\ visiting \in Seq(Laid)
  /\ \A i, k \in DOMAIN visiting : visiting[i] = visiting[k] => i = k
  /\ \A i \in DOMAIN visiting : i + 1 \in DOMAIN visiting =>
       HasBase(visiting[i]) /\ visiting[i + 1] = BaseOf(visiting[i])
  /\ \A c \in Laid : Is(c, "Visiting") <=> \E i \in DOMAIN visiting : visiting[i] = c

Layered ==
  /\ Closed(Done)
  /\ DOMAIN fieldCount = Done
  /\ DOMAIN fieldIndex = UNION {FieldsOf(c) : c \in Done}
  /\ \A c \in Done : /\ fieldCount[c] \in Nat
                     /\ NumberedBy(c, fieldCount[c], fieldIndex)
                     /\ HasBase(c) => c \notin Family(BaseOf(c))

IInv ==
  /\ Linked
  /\ turn \in Nat \ {0}
  /\ layoutState \in [DOMAIN layoutState -> {"Visiting", "Done"}]
  /\ DOMAIN layoutState \subseteq Laid
  /\ Chain
  /\ Layered
  /\ \A i \in DOMAIN registered : i < turn /\ registered[i] \in Laid => registered[i] \in Done
  /\ cyclic => \E c \in Laid : HasBase(c) /\ c \in Family(BaseOf(c))

-----------------------------------------------------------------------------
LEMMA FamilyContains ==
  ASSUME NEW c \in Laid PROVE c \in Family(c) /\ Family(c) \subseteq Laid
BY DEF Family

\* The family of a type whose bases are all Done.
LEMMA FamilyInDone ==
  ASSUME Closed(Done), NEW c \in Done PROVE Family(c) \subseteq Done
BY DEF Family, Done

\* A type is the first of its family; the rest is the family of its base.
LEMMA FamilyOfDerived ==
  ASSUME Closed(Done), NEW c \in Laid, HasBase(c), BaseOf(c) \in Done
  PROVE  Family(c) = {c} \cup Family(BaseOf(c))
<1> DEFINE b == BaseOf(c)
           F == {c} \cup Family(b)
<1>1. b \in Laid /\ Family(b) \subseteq Done /\ b \in Family(b)
  BY FamilyInDone, FamilyContains DEF Done
<1>2. F \subseteq Laid /\ c \in F
  BY <1>1 DEF Done
<1>3. Closed(F)
  <2>1. ASSUME NEW d \in Family(b), HasBase(d) PROVE BaseOf(d) \in Family(b)
    <3>1. BaseOf(d) \in Laid
      BY <1>1, <2>1 DEF Closed, Done
    <3>2. \A S \in SUBSET Laid : b \in S /\ Closed(S) => BaseOf(d) \in S
      BY <2>1 DEF Family, Closed
    <3> QED
      BY <3>1, <3>2 DEF Family
  <2> QED
    BY <1>1, <2>1 DEF Closed
<1>4. Family(c) \subseteq F
  BY <1>2, <1>3 DEF Family
<1>5. Family(b) \subseteq Family(c)
  <2>1. ASSUME NEW d \in Family(b), NEW S \in SUBSET Laid, c \in S, Closed(S) PROVE d \in S
    BY <2>1 DEF Family, Closed
  <2> QED
    BY <1>1, <2>1 DEF Family
<1> QED
  BY <1>4, <1>5, FamilyContains

LEMMA FamilyOfRoot ==
  ASSUME NEW c \in Laid, ~HasBase(c) PROVE Family(c) = {c}
<1>1. Closed({c}) /\ {c} \in SUBSET Laid
  BY DEF Closed
<1> QED
  BY <1>1, FamilyContains DEF Family

\* The numbers a type gives to its own fields.
LEMMA OwnNumbers ==
  ASSUME Linked, NEW c \in Laid, First(c) \in Nat
  PROVE  /\ DOMAIN Numbers(c) = FieldsOf(c)
         /\ Len(symbols[c].fields) \in Nat
         /\ DOMAIN symbols[c].fields = 1..Len(symbols[c].fields)
         /\ \A i \in 1..Len(symbols[c].fields) :
              Numbers(c)[symbols[c].fields[i]] = First(c) + i - 1
<1> DEFINE fields == symbols[c].fields
<1>1. fields \in Seq(FieldsOf(c))
  BY DEF Linked
<1>2. Len(fields) \in Nat /\ DOMAIN fields = 1..Len(fields)
  BY <1>1
<1>3. ASSUME NEW i \in DOMAIN fields
      PROVE  (CHOOSE k \in DOMAIN fields : fields[k] = fields[i]) = i
  BY DEF Linked
<1>4. \A i \in DOMAIN fields : fields[i] \in FieldsOf(c)
  BY DEF FieldsOf, Listed
<1> HIDE DEF fields
<1>5. Numbers(c) = [f \in FieldsOf(c) |-> First(c) + (CHOOSE k \in DOMAIN fields : fields[k] = f) - 1]
  BY DEF Numbers, fields
<1> QED
  BY <1>2, <1>3, <1>4, <1>5 DEF fields

\* Each field is one type's.
LEMMA FieldsApart ==
  ASSUME Linked, NEW c \in Laid, NEW d \in Laid, NEW f \in FieldsOf(c), f \in FieldsOf(d)
  PROVE  c = d
<1>1. PICK i \in DOMAIN symbols[c].fields : f = symbols[c].fields[i]
  BY DEF FieldsOf, Listed
<1>2. PICK k \in DOMAIN symbols[d].fields : f = symbols[d].fields[k]
  BY DEF FieldsOf, Listed
<1> QED
  BY <1>1, <1>2 DEF Linked

\* Nothing in a family depends on anything but the types.
LEMMA TypesStay ==
  UNCHANGED linked =>
    /\ Laid' = Laid /\ (Linked <=> Linked')
    /\ \A c : /\ BaseOf(c)' = BaseOf(c) /\ (HasBase(c)' <=> HasBase(c))
              /\ FieldsOf(c)' = FieldsOf(c) /\ Family(c)' = Family(c)
              /\ AllFields(c)' = AllFields(c)
BY DEF linked, Laid, Linked, BaseOf, HasBase, FieldsOf, Listed, Family, Closed, AllFields

\* A base on the stack closes a cycle.
LEMMA CycleFound ==
  ASSUME Chain, visiting # <<>>, HasBase(Top), NEW k \in DOMAIN visiting, BaseOf(Top) = visiting[k]
  PROVE  HasBase(visiting[k]) /\ visiting[k] \in Family(BaseOf(visiting[k]))
<1> DEFINE n == Len(visiting)
           c == visiting[k]
<1>1. n \in Nat /\ DOMAIN visiting = 1..n /\ n \in DOMAIN visiting /\ c \in Laid
  BY DEF Chain
<1>2. CASE k = n
  <2>1. c = Top /\ BaseOf(c) = c
    BY <1>2 DEF Top
  <2> QED
    BY <1>1, <2>1, FamilyContains
<1>3. CASE k # n
  <2>1. k + 1 \in DOMAIN visiting /\ HasBase(c) /\ visiting[k + 1] = BaseOf(c)
    BY <1>1, <1>3 DEF Chain
  <2>2. ASSUME NEW S \in SUBSET Laid, BaseOf(c) \in S, Closed(S) PROVE c \in S
    <3> DEFINE T == {i \in (k + 1)..n : visiting[i] \notin S}
    <3>1. T = {}
      <4> SUFFICES ASSUME T # {} PROVE FALSE
        OBVIOUS
      <4>1. T \in SUBSET Nat
        BY <1>1
      <4>2. PICK m \in T : \A i \in T : m <= i
        BY <4>1, LeastNumber
      <4>3. m \in (k + 1)..n /\ visiting[m] \notin S /\ m # k + 1
        BY <2>1, <2>2, <4>2
      <4> DEFINE j == m - 1
      <4>4. j \in (k + 1)..n /\ j \in DOMAIN visiting /\ j + 1 = m /\ m \in DOMAIN visiting /\ ~(m <= j)
        BY <1>1, <4>3
      <4> HIDE DEF j
      <4>5. visiting[j] \in S
        BY <4>2, <4>4
      <4>6. HasBase(visiting[j]) /\ visiting[m] = BaseOf(visiting[j])
        BY <4>4 DEF Chain
      <4> QED
        BY <2>2, <4>3, <4>5, <4>6 DEF Closed
    <3>2. n \in (k + 1)..n
      BY <1>1, <1>3
    <3>3. Top \in S
      BY <3>1, <3>2 DEF Top
    <3> QED
      BY <2>2, <3>3 DEF Closed
  <2> QED
    BY <1>1, <2>1, <2>2 DEF Family
<1> QED
  BY <1>2, <1>3

-----------------------------------------------------------------------------
LEMMA InitIInv == LayoutInit /\ Linked => IInv
<1> SUFFICES ASSUME LayoutInit, Linked PROVE IInv
  OBVIOUS
<1>1. Done = {} /\ DOMAIN layoutState = {}
  BY DEF LayoutInit, Done, Is
<1>2. Chain
  BY <1>1 DEF LayoutInit, Chain, Is
<1>3. Layered
  BY <1>1 DEF LayoutInit, Layered, Closed
<1>4. Linked => \A i \in DOMAIN registered : i \in Nat /\ ~(i < 1)
  BY DEF Linked
<1> QED
  BY <1>1, <1>2, <1>3, <1>4 DEF LayoutInit, IInv

\* Nothing is numbered, and nothing that was Done is not.
LEMMA LayeredStays ==
  ASSUME IInv, UNCHANGED <<linked, fieldCount, fieldIndex>>, Done' = Done
  PROVE  Layered'
BY TypesStay DEF IInv, Layered, Closed, NumberedBy

\* A type is entered for the loop, or for the type on top, whose base it is.
LEMMA EnterInv ==
  ASSUME IInv, NEW c \in Laid, ~Is(c, "Done"), EnterType(c),
         visiting = <<>> \/ (HasBase(Top) /\ c = BaseOf(Top))
  PROVE  IInv'
<1>1. CASE Is(c, "Visiting")
  <2>1. PICK k \in DOMAIN visiting : visiting[k] = c
    BY <1>1 DEF IInv, Chain
  <2>2. visiting # <<>> /\ HasBase(Top) /\ c = BaseOf(Top)
    BY <2>1
  <2>3. HasBase(c) /\ c \in Family(BaseOf(c))
    BY <2>1, <2>2, CycleFound DEF IInv
  <2>4. UNCHANGED <<linked, turn, visiting, layoutState, fieldCount, fieldIndex>>
    BY <1>1 DEF EnterType
  <2>5. Done' = Done /\ Chain'
    BY <2>4, TypesStay DEF Done, Chain, Is, IInv
  <2>6. Layered'
    BY <2>4, <2>5, LayeredStays
  <2> QED
    BY <2>3, <2>4, <2>5, <2>6, TypesStay DEF IInv, linked
<1>2. CASE ~Is(c, "Visiting")
  <2>1. /\ layoutState' = With(layoutState, [t \in {c} |-> "Visiting"])
        /\ visiting' = Append(visiting, c)
        /\ UNCHANGED <<linked, turn, fieldCount, fieldIndex, cyclic>>
    BY <1>2 DEF EnterType
  <2>2. c \notin DOMAIN layoutState
    BY <1>2 DEF IInv, Is
  <2>3. /\ DOMAIN layoutState' = DOMAIN layoutState \cup {c} /\ layoutState'[c] = "Visiting"
        /\ \A d \in DOMAIN layoutState : layoutState'[d] = layoutState[d]
        /\ layoutState' \in [DOMAIN layoutState' -> {"Visiting", "Done"}]
    BY <2>1, <2>2 DEF IInv, With
  <2>4. Done' = Done
    BY <2>1, <2>2, <2>3, TypesStay DEF Done, Is
  <2>5. Chain'
    <3> DEFINE n == Len(visiting)
    <3>1. /\ n \in Nat /\ DOMAIN visiting = 1..n /\ visiting' \in Seq(Laid)
          /\ DOMAIN visiting' = 1..(n + 1) /\ visiting'[n + 1] = c
          /\ \A i \in 1..n : visiting'[i] = visiting[i] /\ visiting[i] \in Laid
      BY <2>1 DEF IInv, Chain
    <3>2. \A i \in 1..n : visiting[i] # c
      BY <1>2, <3>1 DEF IInv, Chain
    <3>3. \A i, k \in 1..(n + 1) : visiting'[i] = visiting'[k] => i = k
      BY <3>1, <3>2 DEF IInv, Chain
    <3>4. ASSUME NEW i \in 1..(n + 1), i + 1 \in 1..(n + 1)
          PROVE  HasBase(visiting'[i]) /\ visiting'[i + 1] = BaseOf(visiting'[i])
      <4>1. i \in 1..n
        BY <3>1, <3>4
      <4>2. CASE i + 1 \in 1..n
        BY <3>1, <4>1, <4>2 DEF IInv, Chain
      <4>3. CASE i + 1 = n + 1
        <5>1. i = n
          <6>1. n \in Nat
            BY <3>1
          <6> HIDE DEF n
          <6> QED
            BY <6>1, <4>1, <4>3
        <5>3. visiting # <<>>
          BY <3>1, <4>1
        <5>2. visiting'[i] = Top
          BY <3>1, <4>1, <5>1 DEF Top
        <5> QED
          BY <3>1, <4>3, <5>1, <5>2, <5>3
      <4> QED
        BY <3>1, <4>1, <4>2, <4>3
    <3>5. \A d \in Laid : (d \in DOMAIN layoutState' /\ layoutState'[d] = "Visiting")
                            <=> \E i \in 1..(n + 1) : visiting'[i] = d
      <4> TAKE d \in Laid
      <4>1. CASE d = c
        BY <2>3, <3>1, <4>1
      <4>2. CASE d # c
        <5>1. (\E i \in 1..(n + 1) : visiting'[i] = d) <=> \E i \in 1..n : visiting[i] = d
          BY <3>1, <4>2
        <5> QED
          BY <2>3, <3>1, <4>2, <5>1 DEF IInv, Chain, Is
      <4> QED
        BY <4>1, <4>2
    <3> HIDE DEF n
    <3>6. \A i, k \in DOMAIN visiting' : visiting'[i] = visiting'[k] => i = k
      BY <3>1, <3>3
    <3>7. \A i \in DOMAIN visiting' : i + 1 \in DOMAIN visiting' =>
            HasBase(visiting'[i]) /\ visiting'[i + 1] = BaseOf(visiting'[i])
      BY <3>1, <3>4
    <3>8. \A i \in DOMAIN visiting' : i + 1 \in DOMAIN visiting' =>
            HasBase(visiting[i])' /\ visiting'[i + 1] = BaseOf(visiting[i])'
      BY <2>1, <3>7 DEF linked, HasBase, BaseOf
    <3>9. \A d \in Laid' : Is(d, "Visiting")' <=> \E i \in DOMAIN visiting' : visiting'[i] = d
      BY <2>1, <3>1, <3>5, TypesStay DEF Is
    <3>10. visiting' \in Seq(Laid')
      BY <2>1, <3>1, TypesStay
    <3> QED
      BY <3>6, <3>8, <3>9, <3>10 DEF Chain
  <2>6. Layered'
    BY <2>1, <2>4, LayeredStays
  <2> QED
    BY <2>1, <2>3, <2>4, <2>5, <2>6, TypesStay DEF IInv, linked
<1> QED
  BY <1>1, <1>2

LEMMA VisitTypeInv == IInv /\ VisitType => IInv'
BY EnterInv DEF VisitType

LEMMA VisitBaseInv == IInv /\ VisitBase => IInv'
<1> SUFFICES ASSUME IInv, VisitBase PROVE IInv'
  OBVIOUS
<1>1. Top \in Laid
  BY DEF VisitBase, IInv, Chain, Top
<1>2. BaseOf(Top) \in Laid
  BY <1>1 DEF VisitBase, IInv, Linked
<1> QED
  BY <1>2, EnterInv DEF VisitBase

LEMMA SkipTypeInv == IInv /\ SkipType => IInv'
<1> SUFFICES ASSUME IInv, SkipType PROVE IInv'
  OBVIOUS
<1>1. /\ turn' = turn + 1 /\ (registered[turn] \in Laid => registered[turn] \in Done)
      /\ UNCHANGED <<linked, visiting, layoutState, fieldCount, fieldIndex, cyclic>>
  BY DEF SkipType, Done
<1>2. Done' = Done /\ Chain'
  BY <1>1, TypesStay DEF Done, Chain, Is, IInv
<1>3. Layered'
  BY <1>1, <1>2, LayeredStays
<1>4. \A i \in DOMAIN registered : i < turn' /\ registered[i] \in Laid => registered[i] \in Done
  <2>1. \A i \in DOMAIN registered : i \in Nat
    BY DEF IInv, Linked
  <2>2. \A i \in DOMAIN registered : i < turn' => i < turn \/ i = turn
    BY <1>1, <2>1 DEF IInv
  <2> QED
    BY <1>1, <2>2 DEF IInv
<1> QED
  BY <1>1, <1>2, <1>3, <1>4, TypesStay DEF IInv, linked

-----------------------------------------------------------------------------
\* The m own fields are numbered from n on, in the order of at.
Follows(own, m, at, n, index) ==
  /\ \A f \in own : \E i \in 1..m : f = at[i]
  /\ \A i \in 1..m : at[i] \in own /\ index[at[i]] = n + i - 1
Joined(all, own, based) == \A f : f \in all <=> f \in own \/ f \in based

\* Two ranges of numbers, one after the other, for two sets of fields.
LEMMA NumberedTogether ==
  ASSUME NEW all, NEW own, NEW based, NEW index, NEW n \in Nat, NEW m \in Nat, NEW at,
         Consecutive(based, n, index),
         Follows(own, m, at, n, index), Joined(all, own, based)
  PROVE  Consecutive(all, n + m, index)
<1>1. \A f \in based : index[f] \in Nat /\ index[f] < n
  BY DEF Consecutive
<1>2. \A f \in own : \E i \in 1..m : f = at[i] /\ index[f] = n + i - 1
  BY DEF Follows
<1>3. \A f \in own : index[f] \in Nat /\ n <= index[f] /\ index[f] < n + m
  BY <1>2
<1>4. ASSUME NEW f \in all PROVE index[f] \in 0..(n + m - 1)
  BY <1>1, <1>3 DEF Joined
<1>5. ASSUME NEW k \in 0..(n + m - 1) PROVE \E f \in all : index[f] = k
  <2>1. CASE k < n
    <3>1. k \in 0..(n - 1)
      BY <2>1
    <3> QED
      BY <3>1 DEF Consecutive, Joined
  <2>2. CASE ~(k < n)
    <3> DEFINE i == k - n + 1
    <3>1. i \in 1..m /\ n + i - 1 = k
      BY <2>2
    <3> HIDE DEF i
    <3>2. at[i] \in own /\ index[at[i]] = k
      BY <3>1 DEF Follows
    <3> QED
      BY <3>2 DEF Joined
  <2> QED
    BY <2>1, <2>2
<1>6. ASSUME NEW f \in own, NEW g \in own, index[f] = index[g] PROVE f = g
  <2>1. PICK i \in 1..m : f = at[i] /\ index[f] = n + i - 1
    BY <1>2
  <2>2. PICK k \in 1..m : g = at[k] /\ index[g] = n + k - 1
    BY <1>2
  <2>3. i = k
    BY <1>6, <2>1, <2>2
  <2> QED
    BY <2>1, <2>2, <2>3
<1>7. \A f \in own, g \in based : index[f] # index[g]
  BY <1>1, <1>3
<1>8. \A f, g \in based : index[f] = index[g] => f = g
  BY DEF Consecutive
<1>9. \A f, g \in all : index[f] = index[g] => f = g
  BY <1>6, <1>7, <1>8 DEF Joined
<1> QED
  BY <1>4, <1>5, <1>9 DEF Consecutive

\* What NumberFields does to the numbers: the fields of the type on top follow
\* those of its base, and no other field's number changes.
LEMMA NumbersFollow ==
  ASSUME IInv, NumberFields
  PROVE  /\ Top \in Laid /\ Top \notin Done /\ (HasBase(Top) => BaseOf(Top) \in Done)
         /\ \A c \in Done : \A f \in AllFields(c) : fieldIndex'[f] = fieldIndex[f]
         /\ DOMAIN fieldIndex' = DOMAIN fieldIndex \cup FieldsOf(Top)
         /\ DOMAIN fieldCount' = DOMAIN fieldCount \cup {Top}
         /\ \A c \in Done : fieldCount'[c] = fieldCount[c]
         /\ fieldCount'[Top] \in Nat
         /\ NumberedBy(Top, fieldCount'[Top], fieldIndex')
<1>1. Top \in Laid /\ Is(Top, "Visiting")
  <2>1. Len(visiting) \in DOMAIN visiting /\ Top \in Laid
    BY DEF NumberFields, IInv, Chain, Top
  <2> QED
    BY <2>1 DEF IInv, Chain, Top
<1>2. Top \notin Done /\ (HasBase(Top) => BaseOf(Top) \in Done)
  <2>1. HasBase(Top) => BaseOf(Top) \in Laid
    BY <1>1 DEF IInv, Linked
  <2> QED
    BY <1>1, <2>1 DEF NumberFields, Done, Is
<1>3. First(Top) \in Nat
  BY <1>2 DEF First, IInv, Layered
<1> DEFINE fields == symbols[Top].fields
           m == Len(fields)
           n == First(Top)
           based == IF HasBase(Top) THEN AllFields(BaseOf(Top)) ELSE {}
<1>4. /\ DOMAIN Numbers(Top) = FieldsOf(Top) /\ m \in Nat /\ DOMAIN fields = 1..m
      /\ \A i \in 1..m : Numbers(Top)[fields[i]] = n + i - 1
  BY <1>1, <1>3, OwnNumbers DEF IInv
<1>5. FieldsOf(Top) = {fields[i] : i \in 1..m}
  BY <1>4 DEF FieldsOf, Listed
<1>6. /\ fieldIndex' = With(fieldIndex, Numbers(Top))
      /\ fieldCount' = With(fieldCount, [t \in {Top} |-> n + m])
  BY DEF NumberFields
<1>7. /\ DOMAIN fieldCount' = DOMAIN fieldCount \cup {Top} /\ fieldCount'[Top] = n + m
      /\ \A c \in Done : fieldCount'[c] = fieldCount[c]
  <2> HIDE DEF n, m
  <2> QED
    BY <1>2, <1>6 DEF With, IInv, Layered
<1>8. DOMAIN fieldIndex' = DOMAIN fieldIndex \cup FieldsOf(Top)
  BY <1>4, <1>6 DEF With
<1>9. ASSUME NEW c \in Done, NEW f \in AllFields(c)
      PROVE  f \in DOMAIN fieldIndex /\ f \notin FieldsOf(Top) /\ fieldIndex'[f] = fieldIndex[f]
  <2>1. PICK d \in Done : f \in FieldsOf(d)
    BY <1>9, FamilyInDone DEF AllFields, IInv, Layered
  <2>2. d \in Laid /\ d # Top
    BY <1>2 DEF Done
  <2>3. f \notin FieldsOf(Top)
    BY <1>1, <2>1, <2>2, FieldsApart DEF IInv
  <2>4. f \in DOMAIN fieldIndex
    BY <2>1 DEF IInv, Layered
  <2> QED
    BY <1>4, <1>6, <2>3, <2>4 DEF With
<1>10. AllFields(Top) = FieldsOf(Top) \cup based
  <2>1. CASE HasBase(Top)
    BY <1>1, <1>2, <2>1, FamilyOfDerived DEF AllFields, IInv, Layered
  <2>2. CASE ~HasBase(Top)
    BY <1>1, <2>2, FamilyOfRoot DEF AllFields
  <2> QED
    BY <2>1, <2>2
<1>11. Consecutive(based, n, fieldIndex')
  <2>1. CASE HasBase(Top)
    <3>1. n = fieldCount[BaseOf(Top)] /\ NumberedBy(BaseOf(Top), n, fieldIndex)
      BY <1>2, <2>1 DEF First, IInv, Layered
    <3>2. based = AllFields(BaseOf(Top)) /\ \A f \in based : fieldIndex'[f] = fieldIndex[f]
      BY <1>2, <1>9, <2>1
    <3> HIDE DEF n, based
    <3> QED
      BY <3>1, <3>2 DEF NumberedBy, Consecutive
  <2>2. CASE ~HasBase(Top)
    <3>1. n = 0 /\ based = {}
      BY <2>2 DEF First
    <3> HIDE DEF n, based
    <3> QED
      BY <3>1 DEF Consecutive
  <2> QED
    BY <2>1, <2>2
<1>12. \A i \in 1..m : fieldIndex'[fields[i]] = n + i - 1
  <2>1. \A i \in 1..m : fields[i] \in FieldsOf(Top)
    BY <1>5
  <2> HIDE DEF fields, m, n
  <2> QED
    BY <1>4, <1>6, <2>1 DEF With
<1>13. NumberedBy(Top, n + m, fieldIndex')
  <2>1. n \in Nat /\ m \in Nat
    BY <1>3, <1>4
  <2>2. Follows(FieldsOf(Top), m, fields, n, fieldIndex')
    BY <1>5, <1>12 DEF Follows
  <2>3. Joined(AllFields(Top), FieldsOf(Top), based)
    BY <1>10 DEF Joined
  <2> HIDE DEF fields, m, n, based
  <2> QED
    BY <1>11, <2>1, <2>2, <2>3, NumberedTogether DEF NumberedBy
<1>14. fieldCount'[Top] \in Nat
  BY <1>3, <1>4, <1>7
<1> QED
  BY <1>1, <1>2, <1>7, <1>8, <1>9, <1>13, <1>14

\* The type on top is Done, and the one under it, which it is the base of, is on top.
LEMMA NumberFieldsInv == IInv /\ NumberFields => IInv'
<1> SUFFICES ASSUME IInv, NumberFields PROVE IInv'
  OBVIOUS
<1> DEFINE n == Len(visiting)
<1>1. /\ n \in Nat \ {0} /\ DOMAIN visiting = 1..n /\ visiting[n] = Top
      /\ \A i \in 1..n : visiting[i] \in Laid
  BY DEF NumberFields, IInv, Chain, Top
<1>2. /\ layoutState' = [layoutState EXCEPT ![Top] = "Done"]
      /\ visiting' = SubSeq(visiting, 1, n - 1)
      /\ UNCHANGED <<linked, turn, cyclic>>
  BY DEF NumberFields
<1>3. /\ visiting' \in Seq(Laid) /\ DOMAIN visiting' = 1..(n - 1)
      /\ \A i \in 1..(n - 1) : visiting'[i] = visiting[i] /\ i \in 1..n /\ i # n
  BY <1>1, <1>2 DEF IInv, Chain
<1> HIDE DEF n
<1>4. Is(Top, "Visiting") /\ Top \in DOMAIN layoutState /\ Top \in Laid
  BY <1>1 DEF IInv, Chain, Is
<1>5. /\ DOMAIN layoutState' = DOMAIN layoutState /\ layoutState'[Top] = "Done"
      /\ \A c \in DOMAIN layoutState : c # Top => layoutState'[c] = layoutState[c]
      /\ layoutState' \in [DOMAIN layoutState' -> {"Visiting", "Done"}]
  BY <1>2, <1>4 DEF IInv
<1>6. Done' = Done \cup {Top}
  BY <1>2, <1>4, <1>5, TypesStay DEF Done, Is
<1>7. Chain'
  <2>1. \A i, k \in DOMAIN visiting' : visiting'[i] = visiting'[k] => i = k
    BY <1>1, <1>3 DEF IInv, Chain
  <2>2. \A i \in DOMAIN visiting' : i + 1 \in DOMAIN visiting' =>
          HasBase(visiting'[i]) /\ visiting'[i + 1] = BaseOf(visiting'[i])
    BY <1>1, <1>3 DEF IInv, Chain
  <2>3. \A i \in DOMAIN visiting' : i + 1 \in DOMAIN visiting' =>
          HasBase(visiting[i])' /\ visiting'[i + 1] = BaseOf(visiting[i])'
    BY <1>2, <2>2 DEF linked, HasBase, BaseOf
  <2>4. \A d \in Laid : Is(d, "Visiting")' <=> \E i \in DOMAIN visiting' : visiting'[i] = d
    <3> TAKE d \in Laid
    <3>1. CASE d = Top
      <4>1. \A i \in 1..(n - 1) : visiting'[i] # Top
        BY <1>1, <1>3 DEF IInv, Chain
      <4> QED
        BY <1>3, <1>5, <3>1, <4>1 DEF Is
    <3>2. CASE d # Top
      <4>1. Is(d, "Visiting")' <=> Is(d, "Visiting")
        BY <1>5, <3>2 DEF Is
      <4>2. Is(d, "Visiting") <=> \E i \in 1..n : visiting[i] = d
        BY <1>1 DEF IInv, Chain
      <4>3. \A i \in 1..n : i # n => i \in 1..(n - 1)
        BY <1>1
      <4> QED
        BY <1>1, <1>3, <3>2, <4>1, <4>2, <4>3
    <3> QED
      BY <3>1, <3>2
  <2>5. \A d \in Laid' : Is(d, "Visiting")' <=> \E i \in DOMAIN visiting' : visiting'[i] = d
    BY <1>2, <2>4, TypesStay
  <2>6. visiting' \in Seq(Laid')
    BY <1>2, <1>3, TypesStay
  <2> QED
    BY <2>1, <2>3, <2>5, <2>6 DEF Chain
<1>8. Layered'
  <2>1. Closed(Done)' /\ (HasBase(Top) => Top \notin Family(BaseOf(Top)))
    <3>1. \A c \in Done \cup {Top} : HasBase(c) => BaseOf(c) \in Done \cup {Top}
      BY NumbersFollow DEF IInv, Layered, Closed
    <3>2. Closed(Done)'
      BY <1>2, <1>6, <3>1, TypesStay DEF Closed
    <3> QED
      BY <3>2, NumbersFollow, FamilyInDone DEF IInv, Layered
  <2>2. DOMAIN fieldCount' = Done'
    BY <1>6, NumbersFollow DEF IInv, Layered
  <2>3. DOMAIN fieldIndex' = UNION {FieldsOf(c) : c \in Done \cup {Top}}
    BY NumbersFollow DEF IInv, Layered
  <2>4. \A c \in Done \cup {Top} :
          /\ fieldCount'[c] \in Nat
          /\ NumberedBy(c, fieldCount'[c], fieldIndex')
          /\ HasBase(c) => c \notin Family(BaseOf(c))
    <3> TAKE c \in Done \cup {Top}
    <3>1. CASE c = Top
      BY <2>1, <3>1, NumbersFollow
    <3>2. CASE c \in Done
      <4>1. /\ fieldCount'[c] = fieldCount[c] /\ fieldCount[c] \in Nat
            /\ \A f \in AllFields(c) : fieldIndex'[f] = fieldIndex[f]
            /\ Consecutive(AllFields(c), fieldCount[c], fieldIndex)
            /\ HasBase(c) => c \notin Family(BaseOf(c))
        BY <3>2, NumbersFollow DEF IInv, Layered, NumberedBy
      <4>2. Consecutive(AllFields(c), fieldCount[c], fieldIndex')
        BY <4>1 DEF Consecutive
      <4> QED
        BY <4>1, <4>2 DEF NumberedBy
    <3> QED
      BY <3>1, <3>2
  <2>5. DOMAIN fieldIndex' = UNION {FieldsOf(c)' : c \in Done'}
    BY <1>2, <1>6, <2>3, TypesStay
  <2>6. \A c \in Done' :
          /\ fieldCount'[c] \in Nat
          /\ NumberedBy(c, fieldCount[c], fieldIndex)'
          /\ HasBase(c)' => c \notin Family(BaseOf(c))'
    BY <1>2, <1>6, <2>4, TypesStay DEF NumberedBy
  <2> QED
    BY <2>1, <2>2, <2>5, <2>6 DEF Layered
<1> QED
  BY <1>2, <1>5, <1>6, <1>7, <1>8, TypesStay DEF IInv, linked

LEMMA NextIInv == IInv /\ [Laying]_layout => IInv'
<1> SUFFICES ASSUME IInv, [Laying]_layout PROVE IInv'
  OBVIOUS
<1>1. CASE UNCHANGED layout
  <2>1. /\ UNCHANGED <<linked, turn, visiting, layoutState, fieldCount, fieldIndex, cyclic>>
    BY <1>1 DEF layout
  <2>2. Done' = Done /\ Chain'
    BY <2>1, TypesStay DEF Done, Chain, Is, IInv
  <2>3. Layered'
    BY <2>1, <2>2, LayeredStays
  <2> QED
    BY <2>1, <2>2, <2>3, TypesStay DEF IInv, linked
<1> QED
  BY <1>1, VisitTypeInv, SkipTypeInv, VisitBaseInv, NumberFieldsInv DEF Laying

LEMMA Invariant == LayoutSpec => []IInv
BY InitIInv, NextIInv, PTL DEF LayoutSpec

\* An object of any type begins with the object of its base, whatever the order
\* of registration and however long the chain, and no type that has been
\* numbered is its own base.
THEOREM ObjectsBeginWithBase == LayoutSpec => LayoutByInheritance
<1>1. ASSUME IInv, IInv', [Laying]_layout
      PROVE  [\A type \in DOMAIN fieldCount' :
                /\ {fieldIndex'[f] : f \in AllFields(type)} = 0..(fieldCount'[type] - 1)
                /\ \A f, g \in AllFields(type) : fieldIndex'[f] = fieldIndex'[g] => f = g
                /\ HasBase(type) => type \notin Family(BaseOf(type))
                /\ type \in DOMAIN fieldCount =>
                     \A f \in AllFields(type) : fieldIndex'[f] = fieldIndex[f]]_layout
  <2> SUFFICES ASSUME Laying, NEW type \in DOMAIN fieldCount'
               PROVE  /\ {fieldIndex'[f] : f \in AllFields(type)} = 0..(fieldCount'[type] - 1)
                      /\ \A f, g \in AllFields(type) : fieldIndex'[f] = fieldIndex'[g] => f = g
                      /\ HasBase(type) => type \notin Family(BaseOf(type))
                      /\ type \in DOMAIN fieldCount =>
                           \A f \in AllFields(type) : fieldIndex'[f] = fieldIndex[f]
    BY <1>1
  <2>1. UNCHANGED linked /\ (NumberFields \/ fieldIndex' = fieldIndex)
    BY DEF Laying, VisitType, SkipType, VisitBase, EnterType, NumberFields
  <2>2. /\ Consecutive(AllFields(type), fieldCount'[type], fieldIndex')
        /\ HasBase(type) => type \notin Family(BaseOf(type))
    BY <1>1, <2>1, TypesStay DEF IInv, Layered, NumberedBy
  <2>3. type \in DOMAIN fieldCount => \A f \in AllFields(type) : fieldIndex'[f] = fieldIndex[f]
    BY <1>1, <2>1, NumbersFollow DEF IInv, Layered
  <2>4. {fieldIndex'[f] : f \in AllFields(type)} = 0..(fieldCount'[type] - 1)
    BY <2>2 DEF Consecutive
  <2> QED
    BY <2>2, <2>3, <2>4 DEF Consecutive
<1> QED
  BY <1>1, Invariant, PTL DEF LayoutSpec, LayoutByInheritance

\* A program is refused by the layout only for a cycle of bases, and every class
\* and struct of one that is not refused has its numbers.
THEOREM OnlyCyclesRefused == LayoutSpec => []RefusedForCycles
<1>1. ASSUME IInv PROVE RefusedForCycles
  <2>1. ASSUME LaidOut, NEW c \in Laid PROVE c \in Done
    <3>1. PICK i \in DOMAIN registered : registered[i] = c
      BY <1>1 DEF IInv, Linked, Listed
    <3>2. Len(registered) \in Nat /\ i \in 1..Len(registered)
      BY <1>1 DEF IInv, Linked
    <3>3. i < turn
      BY <1>1, <2>1, <3>2 DEF LaidOut, IInv
    <3> QED
      BY <1>1, <3>1, <3>3 DEF IInv
  <2>2. LaidOut => DOMAIN fieldCount = Laid
    BY <1>1, <2>1 DEF IInv, Layered, Done
  <2> QED
    BY <1>1, <2>2 DEF RefusedForCycles, IInv
<1> QED
  BY <1>1, Invariant, PTL
=============================================================================
