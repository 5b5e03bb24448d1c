-------------------------- MODULE HeapProgramProofs --------------------------
(***************************************************************************)
(* No order of the steps of HeapProgram corrupts the memory, gives a block *)
(* two owners or loses what a variable owns; and they keep strings and     *)
(* enums as the values that CopyStore says they are.                       *)
(*                                                                         *)
(* The invariant says who owns every block: a buffer its string, a payload *)
(* its enum, and a block in use that has neither was abandoned by an       *)
(* earlier statement, with the temporary that had it.  Each step is shown  *)
(* to abandon none.                                                        *)
(***************************************************************************)
EXTENDS HeapProofs

-----------------------------------------------------------------------------
(* The whole memory: variables, temporaries and payloads. *)

Held(m, T, F) == T \cup Payloads(m, F)

\* A temporary is one of those that the statement has made.
Numbered(m, a) == a.root = "temp" => \E i \in 1..m.temps : a = TempAddr(i)

\* The strings T and the enums F are all that there is, apart from payloads.
Whole(m, T, F) ==
  /\ Fields(m) /\ m.temps \in Nat
  /\ Owns(m, Held(m, T, F), F)
  /\ DOMAIN m.cell \subseteq Held(m, T, F) \cup F
  /\ \A a \in T : a.root \notin Blocks
  /\ \A a \in T \cup F : Numbered(m, a)

Abandoned(m, T, F) == Orphans(m, Held(m, T, F), F)

\* From m, with T and F, to n, with U and G: no block has been abandoned.
Keeps(n, U, G, m, T, F) ==
  /\ n.status = "running" /\ Whole(n, U, G)
  /\ \A b \in Abandoned(n, U, G) : b \in Abandoned(m, T, F)

\* One step after another.
LEMMA KeepsCompose ==
  ASSUME NEW m, NEW T, NEW F, NEW n, NEW U, NEW G, NEW k, NEW V, NEW H,
         Keeps(n, U, G, m, T, F), Keeps(k, V, H, n, U, G)
  PROVE  Keeps(k, V, H, m, T, F)
BY DEF Keeps

\* A step that keeps the owners keeps the whole memory.
LEMMA StepKeeps ==
  ASSUME NEW m, NEW T, NEW F, Whole(m, T, F), NEW n, NEW U, NEW G, NEW W,
         Steps(n, W, G, m, Held(m, T, F), F), W = Held(n, U, G),
         \A a \in U : a \in T \/ a.root \notin Blocks,
         \A a \in U \cup G : a \in T \cup F \/ Numbered(m, a)
  PROVE  Keeps(n, U, G, m, T, F)
<1>1. /\ Fields(n) /\ n.temps = m.temps /\ n.status = "running" /\ Owns(n, W, G)
      /\ \A b \in Orphans(n, W, G) : b \in Orphans(m, Held(m, T, F), F)
      /\ DOMAIN n.cell \subseteq W \cup G
  BY DEF Steps, Whole
<1>2. \A a \in U \cup G : Numbered(n, a)
  BY <1>1 DEF Whole, Numbered
<1>3. \A a \in U : a.root \notin Blocks
  BY DEF Whole
<1>4. Whole(n, U, G)
  BY <1>1, <1>2, <1>3 DEF Whole
<1> QED
  BY <1>1, <1>4 DEF Keeps, Abandoned

\* Where payloads and enums are, and that no two are the same.
LEMMA PayloadFacts ==
  ASSUME NEW m, NEW T, NEW F, Whole(m, T, F)
  PROVE  /\ \A e \in F : m.cell[e].payload # Null =>
              PayloadOf(m, e) \in Held(m, T, F) /\ PayloadOf(m, e) \notin T
         /\ \A d, e \in F : /\ d # e /\ m.cell[d].payload # Null /\ m.cell[e].payload # Null
                            => PayloadOf(m, d) # PayloadOf(m, e)
         /\ \A a \in Payloads(m, F) : a.root \in Blocks
         /\ \A e \in F : /\ e \notin T /\ e \notin Held(m, T, F)
                         /\ e.root \notin Blocks /\ m.cell[e] \in Enum
<1>1. Owns(m, Held(m, T, F), F) /\ \A a \in T : a.root \notin Blocks
  BY DEF Whole
<1>2. \A e \in F : m.cell[e] \in Enum /\ PayloadOf(m, e).root = m.cell[e].payload
  BY <1>1, Addresses DEF Owns, PayloadOf
<1>3. \A e \in F : m.cell[e].payload # Null => m.cell[e].payload \in Blocks
  BY <1>2 DEF Enum
<1>4. \A e \in F : m.cell[e].payload # Null =>
              PayloadOf(m, e) \in Held(m, T, F) /\ PayloadOf(m, e) \notin T
  BY <1>1, <1>2, <1>3 DEF Owns
<1>5. \A d, e \in F : /\ d # e /\ m.cell[d].payload # Null /\ m.cell[e].payload # Null
                            => PayloadOf(m, d) # PayloadOf(m, e)
  BY <1>1, <1>2 DEF Owns
<1>6. \A a \in Payloads(m, F) : a.root \in Blocks
  BY <1>2, <1>3 DEF Payloads
<1>7. \A e \in F : e \notin T /\ e \notin Held(m, T, F) /\ e.root \notin Blocks
  BY <1>1 DEF Owns, Housed, Held
<1> QED
  BY <1>2, <1>4, <1>5, <1>6, <1>7

\* An enum is destroyed; all others hold what they held.
LEMMA DestroyKeeps ==
  ASSUME NEW m, NEW T, NEW F, Whole(m, T, F), m.status = "running", NEW a \in F
  PROVE  /\ Keeps(DestroyEnum(m, a), T, F, m, T, F)
         /\ DestroyEnum(m, a).cell[a] = EmptyEnum
         /\ \A e \in F : e # a => /\ DestroyEnum(m, a).cell[e] = m.cell[e]
                                  /\ Item(DestroyEnum(m, a), e) = Item(m, e)
         /\ \A s \in T : TextAt(DestroyEnum(m, a), s) = TextAt(m, s)
         /\ \A s \in Held(DestroyEnum(m, a), T, F) : TextAt(DestroyEnum(m, a), s) = TextAt(m, s)
<1> DEFINE n == DestroyEnum(m, a)
           S == Held(m, T, F)
           R == Rest(m, S, a)
<1>1. /\ Steps(n, R, F, m, S, F) /\ n.cell[a] = EmptyEnum
      /\ \A e \in F : e # a => n.cell[e] = m.cell[e]
      /\ \A s \in R : Same(n, m, s)
  <2>1. Owns(m, S, F) /\ Fields(m)
    BY DEF Whole
  <2> HIDE DEF S
  <2> QED
    BY <2>1, EnumDestroyed
<1> HIDE DEF n
<1>2. \A s \in S : s \in R <=> ~(m.cell[a].payload # Null /\ s = PayloadOf(m, a))
  BY DEF Rest
<1>3. R = Held(n, T, F)
  <2>1. \A e \in F : e # a => PayloadOf(n, e) = PayloadOf(m, e)
    BY <1>1 DEF PayloadOf
  <2>2. \A x : x \in Payloads(n, F) <=>
                \E e \in F : e # a /\ m.cell[e].payload # Null /\ x = PayloadOf(m, e)
    BY <1>1, <2>1, EmptyEnumFacts DEF Payloads
  <2>3. \A x : x \in Payloads(m, F) <=> \E e \in F : m.cell[e].payload # Null /\ x = PayloadOf(m, e)
    BY DEF Payloads
  <2>4. ASSUME NEW x PROVE x \in R <=> x \in T \cup Payloads(n, F)
    <3>1. R \subseteq S /\ S = T \cup Payloads(m, F)
      BY DEF Rest, Held
    <3>4. /\ m.cell[a].payload # Null => PayloadOf(m, a) \notin T
          /\ \A e \in F : e # a /\ m.cell[a].payload # Null /\ m.cell[e].payload # Null
                          => PayloadOf(m, e) # PayloadOf(m, a)
      BY PayloadFacts
    <3> HIDE DEF R, S
    <3>2. CASE x \in T
      BY <1>2, <3>1, <3>2, <3>4
    <3>3. CASE x \notin T
      <4>1. CASE x \in R
        BY <1>2, <2>2, <2>3, <3>1, <3>3, <4>1
      <4>2. CASE x \in Payloads(n, F)
        BY <1>2, <2>2, <2>3, <3>1, <3>3, <3>4, <4>2
      <4> QED
        BY <3>3, <4>1, <4>2
    <3> QED
      BY <3>2, <3>3
  <2> HIDE DEF R
  <2> QED
    BY <2>4 DEF Held
<1>4. Keeps(n, T, F, m, T, F)
  BY <1>1, <1>3, StepKeeps
<1>5. \A s \in Held(n, T, F) : TextAt(n, s) = TextAt(m, s)
  BY <1>1, <1>3 DEF Same
<1>6. ASSUME NEW e \in F, e # a PROVE Item(n, e) = Item(m, e)
  <2>1. n.cell[e] = m.cell[e] /\ PayloadOf(n, e) = PayloadOf(m, e)
    BY <1>1, <1>6 DEF PayloadOf
  <2>2. m.cell[e].payload # Null => PayloadOf(m, e) \in Held(n, T, F)
    BY <2>1 DEF Held, Payloads
  <2> QED
    BY <1>5, <2>1, <2>2 DEF Item
<1> QED
  BY <1>1, <1>4, <1>5, <1>6 DEF n, Held

\* An enum can be at out: it is new, or one of F that owns nothing.
Room(m, T, F, out) ==
  /\ out \notin T /\ out.root \notin Blocks
  /\ out \in F \/ Numbered(m, out)
  /\ out \in F => m.cell[out].payload = Null

EmptyItem == [tag |-> 1, text |-> <<>>]

\* In n the enum at out is the given item, and all else what it was in m.
WrittenEnum(n, m, T, F, out, item) ==
  /\ Keeps(n, T, F \cup {out}, m, T, F)
  /\ Item(n, out) = item
  /\ \A e \in F : e # out => Item(n, e) = Item(m, e)
  /\ \A s \in T : TextAt(n, s) = TextAt(m, s)

\* In n the enum at out has been made with the text of src.
WordIs(n, m, T, F, out, tag, src, category) ==
  /\ Keeps(n, T, F \cup {out}, m, T, F)
  /\ Item(n, out) = [tag |-> tag, text |-> TextAt(m, src)]
  /\ \A e \in F : e # out => Item(n, e) = Item(m, e)
  /\ \A s \in T : TextAt(n, s) = IF s = src THEN Given(m, src, category) ELSE TextAt(m, s)

\* What the enum without a payload says.
LEMMA EmptyItemOf ==
  ASSUME NEW m, NEW e, m.cell[e] = EmptyEnum
  PROVE  Item(m, e) = EmptyItem
BY EmptyEnumFacts DEF Item, EmptyItem

\* The new word of the enum at out.
LEMMA WordKeeps ==
  ASSUME NEW m, NEW T, NEW F, Whole(m, T, F), m.status = "running",
         NEW out, Room(m, T, F, out),
         NEW tag \in Nat, tag # 1, NEW src \in Held(m, T, F), NEW category,
         category = "OwnedTemp" => src \in T,
         Word(m, out, tag, src, category).status # "aborted"
  PROVE  WordIs(Word(m, out, tag, src, category), m, T, F, out, tag, src, category)
<1> DEFINE n == Word(m, out, tag, src, category)
           S == Held(m, T, F)
           G == F \cup {out}
<1> /\ out \notin T /\ out.root \notin Blocks /\ (out \in F \/ Numbered(m, out))
    /\ out \in F => m.cell[out].payload = Null
  BY DEF Room
<1>1. out \notin S
  BY PayloadFacts DEF Held
<1>2. PICK p : PutInto(n, m, S, F, out, tag, src, category, p)
  <2>1. Owns(m, S, F) /\ Fields(m)
    BY DEF Whole
  <2> HIDE DEF S, n, G
  <2>2. n.status # "aborted" /\ n = Word(m, out, tag, src, category) /\ src \in S
    BY DEF n, S
  <2> QED
    BY <1>1, <2>1, <2>2, WordMade
<1> HIDE DEF n
<1>3. /\ p \notin S /\ p.root \in Blocks /\ Steps(n, S \cup {p}, G, m, S, F)
      /\ n.cell[out].tag = tag /\ n.cell[out].payload # Null /\ PayloadOf(n, out) = p
      /\ \A e \in F : e # out => n.cell[e] = m.cell[e]
      /\ TextAt(n, p) = TextAt(m, src) /\ TextAt(n, src) = Given(m, src, category)
      /\ \A s \in S : s # src => TextAt(n, s) = TextAt(m, s)
  BY <1>2 DEF PutInto
<1>4. \A e \in F : e # out => PayloadOf(n, e) = PayloadOf(m, e)
  BY <1>3 DEF PayloadOf
<1>5. \A x : x \in Payloads(n, G) <=> x = p \/ x \in Payloads(m, F)
  <2>1. \A x : x \in Payloads(n, G) <=>
                x = p \/ \E e \in F : e # out /\ m.cell[e].payload # Null /\ x = PayloadOf(m, e)
    BY <1>3, <1>4 DEF Payloads
  <2>2. \A x : x \in Payloads(m, F) <=>
                \E e \in F : e # out /\ m.cell[e].payload # Null /\ x = PayloadOf(m, e)
    BY DEF Payloads
  <2> QED
    BY <2>1, <2>2
<1>6. S \cup {p} = Held(n, T, G)
  BY <1>5 DEF Held
<1>7. Keeps(n, T, G, m, T, F)
  <2>1. \A a \in T \cup G : a \in T \cup F \/ Numbered(m, a)
    OBVIOUS
  <2> HIDE DEF G
  <2> QED
    BY <1>3, <1>6, <2>1, StepKeeps
<1>8. Item(n, out) = [tag |-> tag, text |-> TextAt(m, src)]
  BY <1>3 DEF Item
<1>9. ASSUME NEW e \in F, e # out PROVE Item(n, e) = Item(m, e)
  <2>1. m.cell[e].payload # Null => PayloadOf(m, e) \in S /\ PayloadOf(m, e) \notin T
    BY PayloadFacts
  <2>2. ASSUME m.cell[e].payload # Null PROVE TextAt(n, PayloadOf(m, e)) = TextAt(m, PayloadOf(m, e))
    <3>1. CASE PayloadOf(m, e) = src
      BY <1>3, <2>1, <2>2, <3>1 DEF Given
    <3>2. CASE PayloadOf(m, e) # src
      BY <1>3, <2>1, <2>2, <3>2
    <3> QED
      BY <3>1, <3>2
  <2> QED
    BY <1>3, <1>4, <1>9, <2>2 DEF Item
<1>10. \A s \in T : TextAt(n, s) = IF s = src THEN Given(m, src, category) ELSE TextAt(m, s)
  BY <1>3 DEF Held
<1> QED
  BY <1>7, <1>8, <1>9, <1>10 DEF WordIs, n

\* An enum is written that has no payload.
LEMMA EmptyKeeps ==
  ASSUME NEW m, NEW T, NEW F, Whole(m, T, F), m.status = "running",
         NEW out, Room(m, T, F, out)
  PROVE  WrittenEnum(Store(m, out, EmptyEnum), m, T, F, out, EmptyItem)
<1> DEFINE n == Store(m, out, EmptyEnum)
           S == Held(m, T, F)
           G == F \cup {out}
<1> /\ out \notin T /\ out.root \notin Blocks /\ (out \in F \/ Numbered(m, out))
    /\ out \in F => m.cell[out].payload = Null
  BY DEF Room
<1>1. Owns(m, S, F) /\ Fields(m) /\ F \subseteq DOMAIN m.cell /\ DOMAIN m.cell \subseteq S \cup F
  BY DEF Whole, Owns
<1>2. EnumIs(n, m, S, F, out, EmptyEnum)
  <2>1. out \notin S
    BY PayloadFacts DEF Held
  <2>2. Fits(m, S, F, out, EmptyEnum)
    BY <2>1, EmptyEnumFacts DEF Fits
  <2> HIDE DEF S
  <2> QED
    BY <1>1, <2>2, EnumStored
<1>3. Fields(n) /\ n.temps = m.temps
  BY <1>1, FieldsKept
<1> HIDE DEF n
<1>4. /\ Owns(n, S, G) /\ Strays(n, S) = Strays(m, S) /\ n.status = "running"
      /\ n.cell[out] = EmptyEnum /\ DOMAIN n.cell = DOMAIN m.cell \cup {out}
      /\ \A e \in F : e # out => n.cell[e] = m.cell[e]
      /\ \A s \in S : Same(n, m, s)
  BY <1>1, <1>2 DEF EnumIs, Replaces
<1>5. ASSUME NEW b \in Orphans(n, S, G) PROVE b \in Orphans(m, S, F)
  <2>1. b \in Blocks /\ b # Null /\ b \in Strays(m, S)
    BY <1>4, HeapAssumption DEF Orphans, Strays
  <2>2. \A e \in F : m.cell[e].payload # b
    BY <1>4, <2>1 DEF Orphans
  <2> QED
    BY <2>1, <2>2 DEF Orphans
<1>6. Steps(n, S, G, m, S, F)
  BY <1>1, <1>3, <1>4, <1>5 DEF Steps
<1>7. \A e \in F : e # out => PayloadOf(n, e) = PayloadOf(m, e)
  BY <1>4 DEF PayloadOf
<1>8. S = Held(n, T, G)
  <2>1. \A x : x \in Payloads(n, G) <=>
                \E e \in F : e # out /\ m.cell[e].payload # Null /\ x = PayloadOf(m, e)
    BY <1>4, <1>7, EmptyEnumFacts DEF Payloads
  <2>2. \A x : x \in Payloads(m, F) <=>
                \E e \in F : e # out /\ m.cell[e].payload # Null /\ x = PayloadOf(m, e)
    BY DEF Payloads
  <2> QED
    BY <2>1, <2>2 DEF Held
<1>9. Keeps(n, T, G, m, T, F)
  <2>1. \A a \in T \cup G : a \in T \cup F \/ Numbered(m, a)
    OBVIOUS
  <2> HIDE DEF G
  <2> QED
    BY <1>6, <1>8, <2>1, StepKeeps
<1>10. ASSUME NEW e \in F, e # out PROVE Item(n, e) = Item(m, e)
  <2>1. m.cell[e].payload # Null => PayloadOf(m, e) \in S
    BY PayloadFacts
  <2> QED
    BY <1>4, <1>7, <1>10, <2>1 DEF Item, Same
<1>11. Item(n, out) = EmptyItem /\ \A s \in T : TextAt(n, s) = TextAt(m, s)
  BY <1>4, EmptyItemOf DEF Held, Same
<1> QED
  BY <1>9, <1>10, <1>11 DEF n, WrittenEnum

\* An enum is moved to one that owns nothing.
LEMMA MoveKeeps ==
  ASSUME NEW m, NEW T, NEW F, Whole(m, T, F), m.status = "running",
         NEW dst \in F, NEW src \in F, dst # src, m.cell[dst].payload = Null
  PROVE  /\ Keeps(EnumMoveAssign(m, dst, src), T, F, m, T, F)
         /\ Item(EnumMoveAssign(m, dst, src), dst) = Item(m, src)
         /\ EnumMoveAssign(m, dst, src).cell[src] = EmptyEnum
         /\ \A e \in F : e \notin {dst, src} => Item(EnumMoveAssign(m, dst, src), e) = Item(m, e)
         /\ \A s \in T : TextAt(EnumMoveAssign(m, dst, src), s) = TextAt(m, s)
<1> DEFINE n == EnumMoveAssign(m, dst, src)
           S == Held(m, T, F)
<1>1. /\ Steps(n, S, F, m, S, F) /\ n.cell[dst] = m.cell[src] /\ n.cell[src] = EmptyEnum
      /\ \A e \in F : e \notin {dst, src} => n.cell[e] = m.cell[e]
      /\ \A s \in S : Same(n, m, s)
  <2>1. Owns(m, S, F) /\ Fields(m)
    BY DEF Whole
  <2> HIDE DEF S
  <2> QED
    BY <2>1, EnumMoved
<1> HIDE DEF n
<1>2. S = Held(n, T, F)
  <2> DEFINE Others(x) == \E e \in F : /\ e \notin {dst, src} /\ m.cell[e].payload # Null
                                       /\ x = PayloadOf(m, e)
             Moved(x) == m.cell[src].payload # Null /\ x = PayloadOf(m, src)
  <2>1. /\ \A e \in F : e \notin {dst, src} => PayloadOf(n, e) = PayloadOf(m, e)
        /\ PayloadOf(n, dst) = PayloadOf(m, src)
    BY <1>1 DEF PayloadOf
  <2>2. \A x : x \in Payloads(n, F) <=> Others(x) \/ Moved(x)
    BY <1>1, <2>1, EmptyEnumFacts DEF Payloads
  <2>3. \A x : x \in Payloads(m, F) <=> Others(x) \/ Moved(x)
    BY DEF Payloads
  <2> HIDE DEF Others, Moved
  <2> QED
    BY <2>2, <2>3 DEF Held
<1>3. Keeps(n, T, F, m, T, F)
  BY <1>1, <1>2, StepKeeps
<1>4. \A e \in F : m.cell[e].payload # Null => TextAt(n, PayloadOf(m, e)) = TextAt(m, PayloadOf(m, e))
  BY <1>1, PayloadFacts DEF Same
<1>5. Item(n, dst) = Item(m, src)
  BY <1>1, <1>4 DEF Item, PayloadOf
<1>6. \A e \in F : e \notin {dst, src} => Item(n, e) = Item(m, e)
  BY <1>1, <1>4 DEF Item, PayloadOf
<1> QED
  BY <1>1, <1>3, <1>5, <1>6 DEF n, Same, Held

\* Nothing changes.
LEMMA NothingKeeps ==
  ASSUME NEW m, NEW T, NEW F, Whole(m, T, F), m.status = "running"
  PROVE  Keeps(m, T, F, m, T, F)
BY DEF Keeps

\* The copy of an enum, to one that owns nothing.
LEMMA CopyKeeps ==
  ASSUME NEW m, NEW T, NEW F, Whole(m, T, F), m.status = "running",
         NEW dst \in F, NEW src \in F, m.cell[dst] = EmptyEnum,
         EnumCopyAssign(m, dst, src).status # "aborted"
  PROVE  /\ Keeps(EnumCopyAssign(m, dst, src), T, F, m, T, F)
         /\ Item(EnumCopyAssign(m, dst, src), dst) = Item(m, src)
         /\ \A e \in F : e # dst => Item(EnumCopyAssign(m, dst, src), e) = Item(m, e)
         /\ \A s \in T : TextAt(EnumCopyAssign(m, dst, src), s) = TextAt(m, s)
<1> DEFINE n == EnumCopyAssign(m, dst, src)
           tag == m.cell[src].tag
           p == PayloadOf(m, src)
<1>1. /\ dst \notin T /\ dst.root \notin Blocks /\ m.cell[dst].payload = Null
      /\ m.cell[src] \in Enum /\ tag \in Nat
      /\ m.cell[src].payload = Null <=> tag = 1
      /\ m.cell[src].payload # Null => p \in Held(m, T, F)
  BY PayloadFacts, EmptyEnumFacts DEF Whole, Owns, Enum
<1>2. F \cup {dst} = F
  OBVIOUS
<1>3. Room(m, T, F, dst)
  BY <1>1 DEF Room
<1>4. CASE tag = 1
  <2> DEFINE k == Store(m, dst, EmptyEnum)
  <2>1. n = k
    BY <1>4 DEF EnumCopyAssign
  <2> HIDE DEF n
  <2>2. WrittenEnum(k, m, T, F, dst, EmptyItem)
    BY <1>3, EmptyKeeps
  <2> HIDE DEF k
  <2>3. Item(m, src) = EmptyItem
    BY <1>1, <1>4 DEF Item, EmptyItem
  <2> QED
    BY <1>2, <2>1, <2>2, <2>3 DEF n, WrittenEnum
<1>5. CASE tag # 1
  <2> DEFINE k == Word(m, dst, tag, p, "Borrowed")
  <2>1. n = k
    BY <1>5 DEF EnumCopyAssign
  <2>2. p \in Held(m, T, F) /\ Given(m, p, "Borrowed") = TextAt(m, p)
    BY <1>1, <1>5 DEF Given
  <2>3. k.status # "aborted"
    BY <2>1
  <2> HIDE DEF n, p, tag
  <2>4. WordIs(k, m, T, F, dst, tag, p, "Borrowed")
    <3>1. "Borrowed" = "OwnedTemp" => p \in T
      OBVIOUS
    <3> QED
      BY <1>1, <1>5, <1>3, <2>2, <2>3, <3>1, WordKeeps
  <2> HIDE DEF k
  <2>5. Item(m, src) = [tag |-> tag, text |-> TextAt(m, p)]
    BY <1>1, <1>5 DEF Item, p, tag
  <2> QED
    BY <1>2, <2>1, <2>2, <2>4, <2>5 DEF n, WordIs
<1> QED
  BY <1>4, <1>5

\* After the assignment of an enum the target is what the source was, and the
\* source is what it was or, if it was a temporary, empty.
LEMMA EnumAssignmentKeeps ==
  ASSUME NEW m, NEW T, NEW F, Whole(m, T, F), m.status = "running",
         NEW dst \in F, NEW src \in F, NEW category, category = "OwnedTemp" => dst # src,
         EnumAssign(m, dst, src, category).status # "aborted"
  PROVE  /\ Keeps(EnumAssign(m, dst, src, category), T, F, m, T, F)
         /\ dst # src =>
              /\ Item(EnumAssign(m, dst, src, category), dst) = Item(m, src)
              /\ Item(EnumAssign(m, dst, src, category), src)
                   = IF category = "OwnedTemp" THEN EmptyItem ELSE Item(m, src)
         /\ SameValue(dst, src) => EnumAssign(m, dst, src, category) = m
         /\ dst = src /\ ~SameValue(dst, src) =>
              Item(EnumAssign(m, dst, src, category), dst) = EmptyItem
         /\ \A e \in F : e \notin {dst, src} => Item(EnumAssign(m, dst, src, category), e) = Item(m, e)
         /\ \A s \in T : TextAt(EnumAssign(m, dst, src, category), s) = TextAt(m, s)
<1> DEFINE d == DestroyEnum(m, dst)
           n == EnumAssign(m, dst, src, category)
<1>1. CASE SameValue(dst, src)
  <2>1. n = m /\ dst = src
    BY <1>1 DEF EnumAssign, SameValue
  <2> QED
    BY <1>1, <2>1, NothingKeeps
<1>2. CASE ~SameValue(dst, src)
  <2>1. n = IF category = "OwnedTemp" THEN EnumMoveAssign(d, dst, src) ELSE EnumCopyAssign(d, dst, src)
    BY <1>2 DEF EnumAssign
  <2>2. /\ Keeps(d, T, F, m, T, F) /\ d.cell[dst] = EmptyEnum
        /\ \A e \in F : e # dst => Item(d, e) = Item(m, e)
        /\ \A s \in T : TextAt(d, s) = TextAt(m, s)
    BY DestroyKeeps
  <2> HIDE DEF d
  <2>3. Whole(d, T, F) /\ d.status = "running" /\ d.cell[dst].payload = Null
    BY <2>2, EmptyEnumFacts DEF Keeps
  <2>4. CASE category = "OwnedTemp"
    <3> DEFINE k == EnumMoveAssign(d, dst, src)
    <3>1. n = k /\ dst # src
      BY <2>1, <2>4
    <3> HIDE DEF n
    <3>2. /\ Keeps(k, T, F, d, T, F) /\ Item(k, dst) = Item(d, src) /\ k.cell[src] = EmptyEnum
          /\ \A e \in F : e \notin {dst, src} => Item(k, e) = Item(d, e)
          /\ \A s \in T : TextAt(k, s) = TextAt(d, s)
      BY <2>3, <3>1, MoveKeeps
    <3> HIDE DEF k
    <3>3. Keeps(k, T, F, m, T, F) /\ Item(k, src) = EmptyItem
      BY <2>2, <3>2, KeepsCompose, EmptyItemOf
    <3> QED
      BY <1>2, <2>2, <2>4, <3>1, <3>2, <3>3 DEF n
  <2>5. CASE category # "OwnedTemp"
    <3> DEFINE k == EnumCopyAssign(d, dst, src)
    <3>1. n = k
      BY <2>1, <2>5
    <3>2. k.status # "aborted"
      BY <3>1
    <3> HIDE DEF n
    <3>3. /\ Keeps(k, T, F, d, T, F) /\ Item(k, dst) = Item(d, src)
          /\ \A e \in F : e # dst => Item(k, e) = Item(d, e)
          /\ \A s \in T : TextAt(k, s) = TextAt(d, s)
      BY <2>2, <2>3, <3>2, CopyKeeps
    <3> HIDE DEF k
    <3>4. Keeps(k, T, F, m, T, F)
      BY <2>2, <3>3, KeepsCompose
    <3> QED
      BY <1>2, <2>2, <2>5, <3>1, <3>3, <3>4, EmptyItemOf DEF n
  <2> QED
    BY <2>4, <2>5
<1> QED
  BY <1>1, <1>2

-----------------------------------------------------------------------------
(* Steps on the strings of the whole memory. *)

\* Enums that are the same have the same payloads.
LEMMA SameItems ==
  ASSUME NEW m, NEW T, NEW F, Whole(m, T, F), NEW n,
         \A e \in F : n.cell[e] = m.cell[e]
  PROVE  /\ Payloads(n, F) = Payloads(m, F)
         /\ \A e \in F : m.cell[e].payload # Null => PayloadOf(n, e) = PayloadOf(m, e)
BY DEF Payloads, PayloadOf

\* Strings are changed that there were.
LEMMA StringsKeep ==
  ASSUME NEW m, NEW T, NEW F, Whole(m, T, F), NEW n, NEW A, Frames(n, m, A),
         A \subseteq Held(m, T, F), n.status = "running",
         StringsOwn(n, Held(m, T, F)), Texts(n, Held(m, T, F), Chars),
         Strays(n, Held(m, T, F)) = Strays(m, Held(m, T, F))
  PROVE  /\ Keeps(n, T, F, m, T, F)
         /\ Held(n, T, F) = Held(m, T, F)
         /\ \A e \in F : n.cell[e] = m.cell[e]
<1> DEFINE S == Held(m, T, F)
<1>1. Owns(m, S, F) /\ Fields(m) /\ DOMAIN m.cell \subseteq S \cup F /\ S \cap F = {}
  BY DEF Whole, Owns
<1>2. Owns(n, S, F) /\ Orphans(n, S, F) = Orphans(m, S, F) /\ \A e \in F : n.cell[e] = m.cell[e]
  <2> HIDE DEF S
  <2>1. \A a \in S : a \notin S /\ a.root \in Blocks =>
            a = PayloadAddr(a.root) /\ a.root \in Strays(m, S)
    OBVIOUS
  <2> QED
    BY <1>1, <2>1, StringStep DEF S
<1>3. Fields(n) /\ n.temps = m.temps /\ DOMAIN n.cell \subseteq S \cup F
  BY <1>1, FramesFields DEF Frames
<1>4. S = Held(n, T, F)
  BY <1>2, SameItems DEF Held
<1>5. Steps(n, S, F, m, S, F)
  BY <1>2, <1>3 DEF Steps
<1> QED
  BY <1>2, <1>4, <1>5, StepKeeps

\* A string can be at out: it is one of T, or new.
Place(m, T, F, out) ==
  out \notin F /\ out.root \notin Blocks /\ (out \in T \/ Numbered(m, out))

\* In n the string at out holds the text, and all else what it held in m.
Written(n, m, T, F, out, text) ==
  /\ Keeps(n, T \cup {out}, F, m, T, F)
  /\ TextAt(n, out) = text
  /\ \A s \in T : s # out => TextAt(n, s) = TextAt(m, s)
  /\ \A e \in F : Item(n, e) = Item(m, e)

\* A string is written; all others hold what they held.
LEMMA WriteKeeps ==
  ASSUME NEW m, NEW T, NEW F, Whole(m, T, F), NEW n, NEW out, Place(m, T, F, out),
         NEW text, Writes(n, m, Held(m, T, F), out, text)
  PROVE  Written(n, m, T, F, out, text)
<1> DEFINE S == Held(m, T, F)
           U == T \cup {out}
<1> /\ out \notin F /\ out.root \notin Blocks /\ (out \in T \/ Numbered(m, out))
    /\ Wrote(n, m, S, out, text) /\ Frames(n, m, {out})
  BY DEF Place, Writes
<1>1. /\ Owns(n, S \cup {out}, F) /\ Orphans(n, S \cup {out}, F) = Orphans(m, S, F)
      /\ \A e \in F : n.cell[e] = m.cell[e]
  <2>1. Owns(m, S, F) /\ Writes(n, m, S, out, text)
    BY DEF Whole
  <2> HIDE DEF S
  <2> QED
    BY <2>1, WrittenOwns
<1>2. /\ Fields(n) /\ n.temps = m.temps
      /\ DOMAIN m.cell \subseteq S \cup F => DOMAIN n.cell \subseteq (S \cup {out}) \cup F
  BY FramesFields DEF Whole, Frames
<1>3. S \cup {out} = Held(n, U, F)
  BY <1>1, SameItems DEF Held
<1>4. Steps(n, S \cup {out}, F, m, S, F)
  BY <1>1, <1>2 DEF Steps, Wrote
<1>5. Keeps(n, U, F, m, T, F)
  <2>1. /\ \A a \in U : a \in T \/ a.root \notin Blocks
        /\ \A a \in U \cup F : a \in T \cup F \/ Numbered(m, a)
    OBVIOUS
  <2> HIDE DEF U
  <2> QED
    BY <1>3, <1>4, <2>1, StepKeeps
<1>6. \A s \in S : s # out => TextAt(n, s) = TextAt(m, s)
  BY DEF Wrote, Same
<1>7. ASSUME NEW e \in F PROVE Item(n, e) = Item(m, e)
  <2>1. m.cell[e].payload # Null => /\ PayloadOf(n, e) = PayloadOf(m, e)
                                    /\ PayloadOf(m, e) \in S /\ PayloadOf(m, e) # out
    <3>1. \A a \in Payloads(m, F) : a.root \in Blocks /\ a \in S
      BY PayloadFacts DEF Held
    <3>2. m.cell[e].payload # Null => PayloadOf(m, e) \in Payloads(m, F)
      BY DEF Payloads
    <3> QED
      BY <1>1, <3>1, <3>2, SameItems
  <2>2. n.cell[e] = m.cell[e]
    BY <1>1
  <2> QED
    BY <1>6, <2>1, <2>2 DEF Item
<1> QED
  BY <1>5, <1>6, <1>7 DEF Wrote, Held, Written

\* What the lemmas on strings ask of a memory.
LEMMA WholeFacts ==
  ASSUME NEW m, NEW T, NEW F, Whole(m, T, F)
  PROVE  /\ StringsOwn(m, Held(m, T, F)) /\ Texts(m, Held(m, T, F), Chars)
         /\ Fields(m) /\ \A s \in Held(m, T, F) : TextAt(m, s) \in Seq(Chars)
BY DEF Whole, Owns, Texts

\* A string is destroyed; all others hold what they held.
LEMMA DestroyStringKeeps ==
  ASSUME NEW m, NEW T, NEW F, Whole(m, T, F), m.status = "running", NEW a \in T
  PROVE  /\ Keeps(DestroyS8(m, a), T, F, m, T, F)
         /\ DestroyS8(m, a).cell[a] = Empty
         /\ \A s \in T : s # a => TextAt(DestroyS8(m, a), s) = TextAt(m, s)
         /\ \A e \in F : Item(DestroyS8(m, a), e) = Item(m, e)
<1> DEFINE n == DestroyS8(m, a)
           S == Held(m, T, F)
<1>1. a \in S /\ StringsOwn(m, S) /\ Texts(m, S, Chars) /\ Fields(m)
  BY WholeFacts DEF Held
<1>2. /\ StringsOwn(n, S) /\ n.status = "running" /\ n.cell[a] = Empty
      /\ \A b \in S : b # a => Same(n, m, b)
      /\ Strays(n, S) = Strays(m, S)
  <2> HIDE DEF S
  <2> QED
    BY <1>1, DestroyKeepsOwners
<1>3. Frames(n, m, {a})
  BY <1>1, DestroyFrames
<1> HIDE DEF n
<1>4. Texts(n, S, Chars)
  <2>1. TextAt(n, a) = <<>> /\ <<>> \in Seq(Chars)
    BY <1>2, EmptyString DEF TextAt
  <2> HIDE DEF S
  <2> QED
    BY <1>1, <1>2, <2>1 DEF Texts, Same
<1>5. Keeps(n, T, F, m, T, F) /\ \A e \in F : n.cell[e] = m.cell[e]
  BY <1>1, <1>2, <1>3, <1>4, StringsKeep
<1>6. \A e \in F : Item(n, e) = Item(m, e)
  <2>1. \A e \in F : m.cell[e].payload # Null => /\ PayloadOf(n, e) = PayloadOf(m, e)
                                               /\ PayloadOf(m, e) \in S /\ PayloadOf(m, e) # a
    BY <1>5, SameItems, PayloadFacts
  <2> QED
    BY <1>2, <1>5, <2>1 DEF Item, Same
<1> QED
  BY <1>2, <1>5, <1>6 DEF n, Same, Held

\* The assignment of a string, to itself too.
LEMMA StringAssignmentKeeps ==
  ASSUME NEW m, NEW T, NEW F, Whole(m, T, F), m.status = "running",
         NEW dst \in T, NEW src \in Held(m, T, F), NEW category,
         category = "OwnedTemp" => dst # src /\ src \in T,
         StringAssign(m, dst, src, category).status # "aborted"
  PROVE  /\ Keeps(StringAssign(m, dst, src, category), T, F, m, T, F)
         /\ dst # src => /\ TextAt(StringAssign(m, dst, src, category), dst) = TextAt(m, src)
                         /\ TextAt(StringAssign(m, dst, src, category), src) = Given(m, src, category)
         /\ SameValue(dst, src) => StringAssign(m, dst, src, category) = m
         /\ dst = src /\ ~SameValue(dst, src) => StringAssign(m, dst, src, category).cell[dst] = Empty
         /\ \A s \in T : s \notin {dst, src} =>
              TextAt(StringAssign(m, dst, src, category), s) = TextAt(m, s)
         /\ \A e \in F : Item(StringAssign(m, dst, src, category), e) = Item(m, e)
<1> DEFINE n == StringAssign(m, dst, src, category)
           S == Held(m, T, F)
<1>1. dst \in S /\ src \in S /\ StringsOwn(m, S) /\ Texts(m, S, Chars) /\ Fields(m)
  BY WholeFacts DEF Held
<1>2. CASE SameValue(dst, src)
  <2>1. n = m /\ dst = src
    BY <1>2 DEF StringAssign, SameValue
  <2> QED
    BY <1>2, <2>1, NothingKeeps
<1>3. CASE ~SameValue(dst, src) /\ dst = src
  <2> DEFINE d == DestroyS8(m, dst)
             k == Store(d, dst, Empty)
  <2>1. /\ Keeps(d, T, F, m, T, F) /\ d.cell[dst] = Empty
        /\ \A s \in T : s # dst => TextAt(d, s) = TextAt(m, s)
        /\ \A e \in F : Item(d, e) = Item(m, e)
    BY DestroyStringKeeps
  <2>2. n = CopyS8(d, dst, dst)
    BY <1>3 DEF StringAssign, MoveOrCopy
  <2> HIDE DEF d, n
  <2>3. Whole(d, T, F) /\ d.status = "running" /\ dst \in DOMAIN d.cell
    BY <2>1 DEF Keeps, Whole, Owns, StringsOwn, Held
  <2>4. n = k
    BY <2>1, <2>2, <2>3, EmptyString DEF CopyS8, Using
  <2>5. k.cell[dst] = Empty
    BY <2>3 DEF Store, Whole, Fields
  <2>6. Wrote(k, d, Held(d, T, F), dst, <<>>) /\ Frames(k, d, {dst})
    <3>1. StringsOwn(d, Held(d, T, F)) /\ Vacant(d, Held(d, T, F), dst) /\ Fields(d)
      BY <2>1, <2>3, WholeFacts, EmptyString DEF Vacant
    <3> QED
      BY <2>3, <3>1, EmptyKeepsOwners, StoreFrames
  <2> HIDE DEF k
  <2>7. /\ Keeps(k, T \cup {dst}, F, d, T, F)
        /\ \A s \in T : s # dst => TextAt(k, s) = TextAt(d, s)
        /\ \A e \in F : Item(k, e) = Item(d, e)
    <3>1. Place(d, T, F, dst)
      BY <2>3, PayloadFacts DEF Whole, Place
    <3> DEFINE none == <<>>
    <3>2. Writes(k, d, Held(d, T, F), dst, none)
      BY <2>6 DEF Writes
    <3> HIDE DEF none
    <3> QED
      <4>1. Written(k, d, T, F, dst, none)
        BY <2>3, <3>1, <3>2, WriteKeeps
      <4> QED
        BY <4>1 DEF Written
  <2>8. T \cup {dst} = T
    OBVIOUS
  <2>9. Keeps(k, T, F, m, T, F)
    BY <2>1, <2>7, <2>8, KeepsCompose
  <2> QED
    BY <1>3, <2>1, <2>4, <2>7, <2>9, <2>5 DEF n
<1>4. CASE dst # src
  <2>1. /\ StringsOwn(n, S) /\ n.status = "running" /\ TextAt(n, dst) = TextAt(m, src)
        /\ TextAt(n, src) = IF category = "OwnedTemp" THEN <<>> ELSE TextAt(m, src)
        /\ \A b \in S \ {dst, src} : TextAt(n, b) = TextAt(m, b)
        /\ Strays(n, S) = Strays(m, S)
    <3> HIDE DEF S
    <3> QED
      BY <1>1, <1>4, AssignmentKeepsOwners
  <2> DEFINE A == {dst, src}
  <2>2. Frames(n, m, A) /\ A \subseteq S
    BY <1>1, AssignmentFrames
  <2> HIDE DEF n, A
  <2>3. Texts(n, S, Chars)
    <3>1. <<>> \in Seq(Chars) /\ \A b \in S : TextAt(m, b) \in Seq(Chars)
      BY WholeFacts
    <3> HIDE DEF S
    <3> QED
      BY <1>1, <2>1, <3>1 DEF Texts
  <2>4. Keeps(n, T, F, m, T, F) /\ \A e \in F : n.cell[e] = m.cell[e]
    BY <2>1, <2>2, <2>3, StringsKeep
  <2>5. ASSUME NEW e \in F PROVE Item(n, e) = Item(m, e)
    <3>1. m.cell[e].payload # Null => /\ PayloadOf(n, e) = PayloadOf(m, e)
                                      /\ PayloadOf(m, e) \in S /\ PayloadOf(m, e) \notin T
      BY <2>4, SameItems, PayloadFacts
    <3>2. m.cell[e].payload # Null => TextAt(n, PayloadOf(m, e)) = TextAt(m, PayloadOf(m, e))
      BY <2>1, <3>1
    <3> QED
      BY <2>4, <3>1, <3>2 DEF Item
  <2> QED
    BY <1>4, <2>1, <2>4, <2>5 DEF n, Given, SameValue, Held
<1> QED
  BY <1>2, <1>3, <1>4

-----------------------------------------------------------------------------
(* What ends: variables, temporaries, statements. *)

\* In n the name a is gone, and the others hold what they held in m.
Forgets(n, m, T, F, a) ==
  /\ Keeps(n, T \ {a}, F \ {a}, m, T, F)
  /\ \A s \in T \ {a} : TextAt(n, s) = TextAt(m, s)
  /\ \A e \in F \ {a} : Item(n, e) = Item(m, e)

\* A variable that owns nothing any more goes out of scope.
LEMMA ForgetKeeps ==
  ASSUME NEW m, NEW T, NEW F, Whole(m, T, F), m.status = "running", NEW a \in T \cup F,
         a \in T => m.cell[a].data = Null,
         a \in F => m.cell[a].payload = Null
  PROVE  Forgets(Without(m, {a}), m, T, F, a)
<1> DEFINE A == {a}
           n == Without(m, A)
           S == Held(m, T, F)
           U == T \ A
           G == F \ A
<1>1. /\ Owns(m, S, F) /\ IsMemory(m) /\ Fields(m) /\ DOMAIN m.cell \subseteq S \cup F
      /\ F \subseteq DOMAIN m.cell
  BY DEF Whole, Owns, StringsOwn
<1>2. \A x \in Payloads(m, F) : x # a
  BY PayloadFacts DEF Whole
<1>3. SparesPayloads(m, F, A) /\ AllEmpty(m, S, A)
  BY <1>2, PayloadFacts DEF SparesPayloads, AllEmpty, Held, Payloads
<1>4. Owns(n, S \ A, G) /\ Strays(n, S \ A) = Strays(m, S) /\ \A s \in S \ A : Same(n, m, s)
  <2> HIDE DEF S, A
  <2> QED
    BY <1>1, <1>3, Forgotten, ForgottenEmpty
<1>5. /\ Fields(n) /\ n.temps = m.temps /\ n.status = "running"
      /\ DOMAIN n.cell = DOMAIN m.cell \ A
      /\ \A x \in DOMAIN m.cell \ A : n.cell[x] = m.cell[x]
  <2> HIDE DEF A
  <2> QED
    BY <1>1, FieldsKept, WithoutFields
<1> HIDE DEF n
<1>6. \A e \in G : n.cell[e] = m.cell[e] /\ PayloadOf(n, e) = PayloadOf(m, e)
  BY <1>1, <1>5 DEF PayloadOf
<1>7. S \ A = Held(n, U, G)
  <2>1. \A x : x \in Payloads(n, G) <=> x \in Payloads(m, F)
    BY <1>6 DEF Payloads
  <2> QED
    BY <1>2, <2>1 DEF Held
<1>8. ASSUME NEW b \in Orphans(n, S \ A, G) PROVE b \in Orphans(m, S, F)
  <2>1. b \in Strays(m, S) /\ b \in Blocks /\ b # Null
    BY <1>4, HeapAssumption DEF Orphans, Strays
  <2>2. \A e \in F : m.cell[e].payload # b
    BY <1>6, <2>1 DEF Orphans
  <2> QED
    BY <2>1, <2>2 DEF Orphans
<1>9. Steps(n, S \ A, G, m, S, F)
  <2> HIDE DEF A
  <2> QED
    BY <1>1, <1>4, <1>5, <1>8 DEF Steps
<1>10. Keeps(n, U, G, m, T, F)
  <2>1. /\ \A x \in U : x \in T \/ x.root \notin Blocks
        /\ \A x \in U \cup G : x \in T \cup F \/ Numbered(m, x)
    OBVIOUS
  <2> HIDE DEF A, U, G
  <2> QED
    BY <1>7, <1>9, <2>1, StepKeeps
<1>11. \A s \in S \ A : TextAt(n, s) = TextAt(m, s)
  BY <1>4 DEF Same
<1>12. ASSUME NEW e \in G PROVE Item(n, e) = Item(m, e)
  <2>1. m.cell[e].payload # Null => PayloadOf(m, e) \in S \ A
    BY <1>2, PayloadFacts DEF Payloads
  <2> QED
    BY <1>6, <1>11, <2>1 DEF Item
<1> QED
  BY <1>10, <1>11, <1>12 DEF n, Held, Forgets

\* The slot of a new temporary.
LEMMA AllocaKeeps ==
  ASSUME NEW m, NEW T, NEW F, Whole(m, T, F), m.status = "running"
  PROVE  /\ Keeps(Alloca(m), T, F, m, T, F)
         /\ Held(Alloca(m), T, F) = Held(m, T, F)
         /\ Place(Alloca(m), T, F, NewTemp(m)) /\ NewTemp(m) \notin T
         /\ NewTemp(m).root = "temp"
         /\ \A s : TextAt(Alloca(m), s) = TextAt(m, s)
         /\ \A e : Item(Alloca(m), e) = Item(m, e)
<1> DEFINE n == Alloca(m)
           t == NewTemp(m)
           S == Held(m, T, F)
<1>1. Fields(m) /\ m.temps \in Nat /\ Owns(m, S, F) /\ IsMemory(m)
  BY DEF Whole, Owns, StringsOwn
<1>2. /\ Fields(n) /\ n.temps = m.temps + 1
      /\ n.cell = m.cell /\ n.block = m.block /\ n.text = m.text /\ n.status = m.status
  BY <1>1 DEF Fields, Alloca
<1>3. IsMemory(n)
  BY <1>1, <1>2 DEF IsMemory, Fields
<1>4. t = TempAddr(m.temps + 1) /\ t.root = "temp" /\ t.path = <<m.temps + 1>>
  BY Addresses DEF NewTemp
<1>5. t \notin T \cup F
  <2> SUFFICES ASSUME t \in T \cup F PROVE FALSE
    OBVIOUS
  <2>1. PICK i \in 1..m.temps : t = TempAddr(i)
    BY <1>4 DEF Whole, Numbered
  <2>2. t.path = <<i>>
    BY <2>1, Addresses
  <2>3. <<i>>[1] = <<m.temps + 1>>[1]
    BY <1>4, <2>2
  <2> QED
    BY <1>1, <2>3
<1> HIDE DEF n
<1>6. /\ \A s : TextAt(n, s) = TextAt(m, s)
      /\ \A e : PayloadOf(n, e) = PayloadOf(m, e)
      /\ Payloads(n, F) = Payloads(m, F)
  BY <1>2 DEF TextAt, PayloadOf, Payloads
<1>7. \A e : Item(n, e) = Item(m, e)
  BY <1>2, <1>6 DEF Item
<1>8. Owns(n, S, F)
  <2>1. Spares(n, m, S)
    BY <1>2, <1>3 DEF Spares
  <2> HIDE DEF S
  <2> QED
    BY <1>1, <2>1, OwnsUsed
<1>9. Held(n, T, F) = S
  BY <1>6 DEF Held
<1>10. Whole(n, T, F)
  <2>1. \A a \in T \cup F : Numbered(n, a)
    BY <1>1, <1>2 DEF Whole, Numbered
  <2> QED
    BY <1>1, <1>2, <1>8, <1>9, <2>1 DEF Whole
<1>11. Orphans(n, S, F) = Orphans(m, S, F)
  BY <1>2 DEF Orphans, Strays
<1>12. Keeps(n, T, F, m, T, F)
  BY <1>2, <1>9, <1>10, <1>11 DEF Keeps, Abandoned
<1>13. Place(n, T, F, t)
  <2>1. t.root \notin Blocks
    BY <1>4, HeapAssumption
  <2>2. Numbered(n, t)
    BY <1>1, <1>2, <1>4 DEF Numbered
  <2> HIDE DEF t
  <2> QED
    BY <1>5, <2>1, <2>2 DEF Place
<1> QED
  BY <1>4, <1>5, <1>6, <1>7, <1>9, <1>12, <1>13 DEF n

-----------------------------------------------------------------------------
(* Nothing is lost. *)

\* The pointer of a string, and that of an enum.
LEMMA Pointers ==
  ASSUME NEW v
  PROVE  (v \in String => Pointer(v) = v.data) /\ (v \in Enum => Pointer(v) = v.payload)
BY DEF Pointer, String, Enum

\* What is in a cell, and where it can point.
LEMMA WholePointers ==
  ASSUME NEW m, NEW T, NEW F, Whole(m, T, F)
  PROVE  /\ \A a \in Held(m, T, F) : a \in DOMAIN m.cell /\ Pointer(m.cell[a]) = m.cell[a].data
         /\ \A a \in F : a \in DOMAIN m.cell /\ Pointer(m.cell[a]) = m.cell[a].payload
         /\ \A a \in DOMAIN m.cell : /\ a \in Held(m, T, F) \cup F
                                     /\ Pointer(m.cell[a]) \in Blocks \cup {Null}
<1>1. \A a \in Held(m, T, F) : a \in DOMAIN m.cell /\ m.cell[a] \in String
  BY DEF Whole, Owns, StringsOwn
<1>2. \A a \in F : a \in DOMAIN m.cell /\ m.cell[a] \in Enum
  BY DEF Whole, Owns
<1>3. \A a \in DOMAIN m.cell : a \in Held(m, T, F) \cup F
  BY DEF Whole
<1>4. \A a \in Held(m, T, F) : /\ Pointer(m.cell[a]) = m.cell[a].data
                               /\ m.cell[a].data \in Blocks \cup {Null}
  BY <1>1, Pointers DEF String
<1>5. \A a \in F : Pointer(m.cell[a]) = m.cell[a].payload /\ m.cell[a].payload \in Blocks \cup {Null}
  BY <1>2, Pointers DEF Enum
<1> QED
  BY <1>1, <1>2, <1>3, <1>4, <1>5

\* What no string and no enum points to has been abandoned.
LEMMA AbandonedIsUnowned ==
  ASSUME NEW m, NEW T, NEW F, Whole(m, T, F), NEW b \in Blocks
  PROVE  b \in Abandoned(m, T, F) <=>
            m.block[b] = "live" /\ \A a \in DOMAIN m.cell : Pointer(m.cell[a]) # b
BY WholePointers DEF Abandoned, Orphans, Strays

\* What a variable owns is a block that some cell points to.
LEMMA OwnedIsOwned ==
  ASSUME Whole(mem, strings, enums), NEW b \in OwnedBy(mem, Variables)
  PROVE  b \in Blocks /\ \E a \in DOMAIN mem.cell : Pointer(mem.cell[a]) = b
<1>1. Variables \subseteq DOMAIN mem.cell
  BY WholePointers DEF Variables, Held
<1>2. PICK a \in DOMAIN mem.cell : Pointer(mem.cell[a]) = b /\ b # Null
  BY <1>1 DEF OwnedBy, PointedTo
<1>3. b \in Blocks
  BY <1>2, WholePointers
<1> QED
  BY <1>2, <1>3

\* A step that abandons no block loses none of a variable.
LEMMA NothingLost ==
  ASSUME Whole(mem, strings, enums), NEW n, NEW U, NEW G,
         Keeps(n, U, G, mem, strings, enums)
  PROVE  Lost(n) = {}
<1> SUFFICES ASSUME NEW b \in Lost(n) PROVE FALSE
  OBVIOUS
<1>1. b \in OwnedBy(mem, Variables) /\ n.block[b] = "live" /\ b \notin PointedTo(n, DOMAIN n.cell)
  BY DEF Lost
<1>2. b \in Blocks /\ b # Null /\ \E a \in DOMAIN mem.cell : Pointer(mem.cell[a]) = b
  BY <1>1, OwnedIsOwned, HeapAssumption
<1>3. \A a \in DOMAIN n.cell : Pointer(n.cell[a]) # b
  BY <1>1, <1>2 DEF PointedTo
<1>4. b \in Abandoned(n, U, G)
  BY <1>1, <1>2, <1>3, AbandonedIsUnowned DEF Keeps
<1>5. b \in Abandoned(mem, strings, enums)
  BY <1>4 DEF Keeps
<1> QED
  BY <1>2, <1>5, AbandonedIsUnowned

\* What the end of a statement does to the memory.
LEMMA ReusableFields ==
  ASSUME NEW m, Fields(m), IsMemory(m)
  PROVE  /\ IsMemory(Reusable(m)) /\ Fields(Reusable(m))
         /\ Reusable(m).cell = m.cell /\ Reusable(m).text = m.text
         /\ Reusable(m).status = m.status /\ Reusable(m).temps = 0
         /\ \A b \in Blocks : Reusable(m).block[b] = "live" <=> m.block[b] = "live"
<1> DEFINE B == [b \in Blocks |-> IF m.block[b] = "freed" THEN "unused" ELSE m.block[b]]
           n == Reusable(m)
<1>1. n = [m EXCEPT !.temps = 0, !.block = B]
  BY DEF Reusable, Fields
<1>2. /\ B \in [Blocks -> {"unused", "live", "freed"}]
      /\ \A b \in Blocks : B[b] = "live" <=> m.block[b] = "live"
  BY DEF IsMemory
<1> HIDE DEF B, n
<1>3. /\ Fields(n) /\ n.cell = m.cell /\ n.text = m.text /\ n.status = m.status /\ n.temps = 0
      /\ n.block = B
  BY <1>1 DEF Fields
<1>4. IsMemory(n)
  BY <1>2, <1>3 DEF IsMemory, Fields
<1> QED
  BY <1>2, <1>3, <1>4 DEF n

\* The statement ends: its temporaries are gone, and nothing else.
Gone(T, F) == {a \in T \cup F : Temporary(a)}
Ended(m, T, F) ==
  Reusable(Without(m, Gone(T, F) \cup Payloads(m, Gone(T, F) \cap F)))

Outlives(n, m, T, F) ==
  /\ Whole(n, T \ Gone(T, F), F \ Gone(T, F)) /\ n.status = "running"
  /\ DOMAIN n.cell = DOMAIN m.cell \ (Gone(T, F) \cup Payloads(m, Gone(T, F) \cap F))
  /\ \A x \in DOMAIN n.cell : n.cell[x] = m.cell[x]
  /\ \A s \in T \ Gone(T, F) : TextAt(n, s) = TextAt(m, s)
  /\ \A e \in F \ Gone(T, F) : Item(n, e) = Item(m, e)

\* The statement ends; the variables hold what they held.
LEMMA EndKeeps ==
  ASSUME NEW m, NEW T, NEW F, Whole(m, T, F), m.status = "running"
  PROVE  Outlives(Ended(m, T, F), m, T, F)
<1> DEFINE D == Gone(T, F)
           A == D \cup Payloads(m, D \cap F)
           k == Without(m, A)
           n == Ended(m, T, F)
           S == Held(m, T, F)
           U == T \ D
           G == F \ D
<1>1. /\ Owns(m, S, F) /\ IsMemory(m) /\ Fields(m) /\ DOMAIN m.cell \subseteq S \cup F
      /\ F \subseteq DOMAIN m.cell /\ m.temps \in Nat
  BY DEF Whole, Owns, StringsOwn
<1>2. n = Reusable(k)
  BY DEF Ended
<1>3. /\ \A x \in Payloads(m, F) : x.root \in Blocks /\ x \notin T \cup F
      /\ \A x : x \in Payloads(m, D \cap F) <=>
                \E e \in F : e \in D /\ m.cell[e].payload # Null /\ x = PayloadOf(m, e)
      /\ \A x : x \in Payloads(m, F) <=> \E e \in F : m.cell[e].payload # Null /\ x = PayloadOf(m, e)
      /\ D \subseteq T \cup F
  <2>1. \A x \in Payloads(m, F) : x.root \in Blocks /\ x \notin T \cup F
    BY PayloadFacts DEF Whole
  <2> QED
    BY <2>1 DEF Payloads, Gone
<1> HIDE DEF D
<1>4. \A e \in G : m.cell[e].payload # Null => PayloadOf(m, e) \notin A
  BY <1>3, PayloadFacts
<1>5. F \ A = G
  BY <1>3
<1>6. Owns(k, S \ A, G) /\ \A s \in S \ A : Same(k, m, s)
  <2>1. SparesPayloads(m, F, A)
    BY <1>4, <1>5 DEF SparesPayloads
  <2> HIDE DEF A, S, G
  <2> QED
    BY <1>1, <1>5, <2>1, Forgotten
<1>7. /\ Fields(k) /\ IsMemory(k) /\ k.status = "running" /\ k.block = m.block /\ k.text = m.text
      /\ DOMAIN k.cell = DOMAIN m.cell \ A
      /\ \A x \in DOMAIN m.cell \ A : k.cell[x] = m.cell[x]
  <2> HIDE DEF A
  <2> QED
    BY <1>1, FieldsKept, WithoutFields
<1> HIDE DEF k, n
<1>8. /\ IsMemory(n) /\ Fields(n) /\ n.cell = k.cell /\ n.text = k.text
      /\ n.status = "running" /\ n.temps = 0
      /\ \A b \in Blocks : n.block[b] = "live" <=> k.block[b] = "live"
  BY <1>2, <1>7, ReusableFields
<1>9. Owns(n, S \ A, G) /\ \A s \in S \ A : TextAt(n, s) = TextAt(m, s)
  <2>1. Spares(n, k, S \ A)
    BY <1>8 DEF Spares
  <2> HIDE DEF A, S, G
  <2> QED
    BY <1>6, <2>1, OwnsUsed DEF Same
<1>10. \A e \in G : n.cell[e] = m.cell[e] /\ PayloadOf(n, e) = PayloadOf(m, e)
  BY <1>1, <1>3, <1>5, <1>7, <1>8 DEF PayloadOf
<1>11. S \ A = Held(n, U, G)
  <2>1. \A x : x \in Payloads(n, G) <=>
                 \E e \in F : e \notin D /\ m.cell[e].payload # Null /\ x = PayloadOf(m, e)
    BY <1>10 DEF Payloads
  <2>2. \A x \in Payloads(m, F) : x \in Payloads(n, G) <=> x \notin A
    <3> SUFFICES ASSUME NEW x \in Payloads(m, F) PROVE x \in Payloads(n, G) <=> x \notin A
      OBVIOUS
    <3>1. x \in Payloads(n, G) => x \notin A
      BY <1>4, <2>1
    <3>2. PICK e \in F : m.cell[e].payload # Null /\ x = PayloadOf(m, e)
      BY <1>3
    <3>3. e \in D => x \in A
      BY <1>3, <3>2
    <3> QED
      BY <2>1, <3>1, <3>2, <3>3
  <2>3. \A x \in Payloads(n, G) : x \in Payloads(m, F)
    BY <1>3, <2>1
  <2>4. \A x \in T : x \in A <=> x \in D
    BY <1>3
  <2> HIDE DEF A
  <2> QED
    BY <2>2, <2>3, <2>4 DEF Held
<1>12. Whole(n, U, G)
  <2>1. \A a \in U \cup G : Numbered(n, a)
    BY DEF Numbered, D, Gone, Temporary
  <2>2. DOMAIN n.cell \subseteq (S \ A) \cup G
    BY <1>1, <1>5, <1>7, <1>8
  <2>3. \A a \in U : a.root \notin Blocks
    BY DEF Whole
  <2>4. n.temps \in Nat
    BY <1>8
  <2> HIDE DEF A, S, U, G
  <2> QED
    BY <1>8, <1>9, <1>11, <2>1, <2>2, <2>3, <2>4 DEF Whole
<1>13. \A s \in U : TextAt(n, s) = TextAt(m, s)
  BY <1>9, <1>11 DEF Held
<1>14. ASSUME NEW e \in G PROVE Item(n, e) = Item(m, e)
  <2>1. m.cell[e].payload # Null => PayloadOf(m, e) \in S \ A
    BY <1>4, PayloadFacts
  <2> QED
    BY <1>9, <1>10, <2>1 DEF Item
<1>15. DOMAIN n.cell = DOMAIN m.cell \ A /\ \A x \in DOMAIN n.cell : n.cell[x] = m.cell[x]
  BY <1>7, <1>8
<1> QED
  BY <1>8, <1>12, <1>13, <1>14, <1>15 DEF Outlives, n, D

\* Nothing that a variable owned is lost with the temporaries.
LEMMA NothingLostAtEnd ==
  ASSUME Whole(mem, strings, enums), mem.status = "running"
  PROVE  Lost(Ended(mem, strings, enums)) = {}
<1> DEFINE n == Ended(mem, strings, enums)
           D == Gone(strings, enums)
           A == D \cup Payloads(mem, D \cap enums)
<1>1. DOMAIN n.cell = DOMAIN mem.cell \ A /\ \A x \in DOMAIN n.cell : n.cell[x] = mem.cell[x]
  <2>1. Outlives(n, mem, strings, enums)
    BY EndKeeps
  <2> HIDE DEF n
  <2> QED
    BY <2>1 DEF Outlives
<1> HIDE DEF n
<1>2. \A v \in Variables : v \in DOMAIN n.cell
  <2>1. Variables \subseteq DOMAIN mem.cell
    BY WholePointers DEF Variables, Held
  <2>2. \A x \in Payloads(mem, D \cap enums) : x.root \in Blocks
    <3>1. \A x \in Payloads(mem, D \cap enums) : x \in Payloads(mem, enums)
      BY DEF Payloads
    <3> QED
      BY <3>1, PayloadFacts
  <2>3. \A v \in Variables : v.root \notin Blocks /\ v \notin D
    BY PayloadFacts DEF Whole, Variables, Gone
  <2> QED
    BY <1>1, <2>1, <2>2, <2>3
<1>3. ASSUME NEW b \in PointedTo(mem, Variables), PayloadAddr(b) \in DOMAIN mem.cell
      PROVE  PayloadAddr(b) \in DOMAIN n.cell
  <2>1. PICK v \in Variables : Pointer(mem.cell[v]) = b /\ b # Null
    BY DEF PointedTo
  <2>2. v \in strings \cup enums /\ ~Temporary(v)
    BY DEF Variables
  <2>3. b \in Blocks /\ PayloadAddr(b).root = b
    BY <1>1, <1>2, <2>1, WholePointers, Addresses
  <2>4. b \in Strays(mem, Held(mem, strings, enums))
    BY <1>3, <2>3 DEF Whole, Owns, Housed
  <2>5. v \in enums /\ mem.cell[v].payload = b
    BY <2>1, <2>2, <2>4, WholePointers DEF Held, Strays
  <2>6. PayloadAddr(b) = PayloadOf(mem, v) /\ v \notin D
    BY <2>2, <2>5 DEF PayloadOf, Gone
  <2>7. PayloadAddr(b) \notin Payloads(mem, D \cap enums)
    BY <2>1, <2>5, <2>6, PayloadFacts DEF Payloads
  <2>8. PayloadAddr(b) \notin D
    BY <2>3, PayloadFacts DEF Whole, Gone
  <2> QED
    BY <1>1, <1>3, <2>7, <2>8
<1> SUFFICES ASSUME NEW b \in Lost(n) PROVE FALSE
  BY DEF n
<1>4. b \in OwnedBy(mem, Variables) /\ b \notin PointedTo(n, DOMAIN n.cell)
  BY DEF Lost
<1>5. PICK a \in DOMAIN n.cell : Pointer(mem.cell[a]) = b /\ b # Null
  <2>1. CASE b \in PointedTo(mem, Variables)
    BY <1>2, <2>1 DEF PointedTo
  <2>2. CASE b \notin PointedTo(mem, Variables)
    BY <1>3, <1>4, <2>2 DEF OwnedBy, PointedTo
  <2> QED
    BY <2>1, <2>2
<1> QED
  BY <1>1, <1>4, <1>5 DEF PointedTo

-----------------------------------------------------------------------------
(* What each expression, assignment and end does to the whole memory. *)

\* A step on m after Alloca, seen from before it.
LEMMA WrittenFromAlloca ==
  ASSUME NEW m, NEW T, NEW F, Whole(m, T, F), m.status = "running",
         NEW n, NEW out, NEW text, Written(n, Alloca(m), T, F, out, text)
  PROVE  Written(n, m, T, F, out, text)
<1>1. /\ Keeps(Alloca(m), T, F, m, T, F)
      /\ \A s : TextAt(Alloca(m), s) = TextAt(m, s)
      /\ \A e : Item(Alloca(m), e) = Item(m, e)
  BY AllocaKeeps
<1>2. Keeps(n, T \cup {out}, F, Alloca(m), T, F)
  BY DEF Written
<1>3. Keeps(n, T \cup {out}, F, m, T, F)
  BY <1>1, <1>2, KeepsCompose
<1> QED
  BY <1>1, <1>3 DEF Written

\* A string is declared.
LEMMA EmptyWritten ==
  ASSUME NEW m, NEW T, NEW F, Whole(m, T, F), m.status = "running",
         NEW a, Place(m, T, F, a), a \notin T
  PROVE  Written(Store(m, a, Empty), m, T, F, a, <<>>)
<1> DEFINE n == Store(m, a, Empty)
           S == Held(m, T, F)
           none == <<>>
<1>1. StringsOwn(m, S) /\ Fields(m) /\ Vacant(m, S, a)
  BY WholeFacts, PayloadFacts DEF Held, Vacant, Place
<1>2. Writes(n, m, S, a, none)
  <2> HIDE DEF S
  <2>1. Wrote(n, m, S, a, none) /\ Frames(n, m, {a})
    BY <1>1, EmptyKeepsOwners, StoreFrames
  <2>2. none \in Seq(Chars)
    OBVIOUS
  <2> HIDE DEF n, none
  <2> QED
    BY <2>1, <2>2 DEF Writes
<1> HIDE DEF n, none
<1>3. Written(n, m, T, F, a, none)
  BY <1>2, WriteKeeps
<1> QED
  BY <1>3 DEF n, none

\* The vacant slot of the temporary.
LEMMA NewSlot ==
  ASSUME NEW m, NEW T, NEW F, Whole(m, T, F), m.status = "running"
  PROVE  LET k == Alloca(m)
         IN /\ Whole(k, T, F) /\ k.status = "running"
            /\ StringsOwn(k, Held(k, T, F)) /\ Texts(k, Held(k, T, F), Chars) /\ Fields(k)
            /\ Place(k, T, F, NewTemp(m)) /\ Vacant(k, Held(k, T, F), NewTemp(m))
            /\ Held(k, T, F) = Held(m, T, F)
            /\ \A s : TextAt(k, s) = TextAt(m, s)
<1> DEFINE k == Alloca(m)
           t == NewTemp(m)
<1>1. /\ Whole(k, T, F) /\ k.status = "running" /\ Place(k, T, F, t) /\ t \notin T
      /\ Held(k, T, F) = Held(m, T, F)
      /\ \A s : TextAt(k, s) = TextAt(m, s)
  BY AllocaKeeps DEF Keeps
<1> HIDE DEF k, t
<1>2. StringsOwn(k, Held(k, T, F)) /\ Texts(k, Held(k, T, F), Chars) /\ Fields(k)
  BY <1>1, WholeFacts
<1>3. Vacant(k, Held(k, T, F), t)
  BY <1>1, PayloadFacts DEF Held, Vacant, Place
<1> QED
  BY <1>1, <1>2, <1>3 DEF k, t

\* A temporary is made from a literal.
LEMMA LiteralWritten ==
  ASSUME NEW m, NEW T, NEW F, Whole(m, T, F), m.status = "running",
         NEW text \in Seq(Chars),
         FromLiteral(Alloca(m), NewTemp(m), text).status # "aborted"
  PROVE  Written(FromLiteral(Alloca(m), NewTemp(m), text), m, T, F, NewTemp(m), text)
<1> DEFINE k == Alloca(m)
           t == NewTemp(m)
           S == Held(k, T, F)
           n == FromLiteral(k, t, text)
<1>1. /\ Whole(k, T, F) /\ k.status = "running"
      /\ StringsOwn(k, S) /\ Fields(k) /\ Place(k, T, F, t) /\ Vacant(k, S, t)
  BY NewSlot
<1>2. text \in Seq(Chars)
  OBVIOUS
<1> HIDE DEF S, k, t
<1>3. Wrote(n, k, S, t, text)
  BY <1>1, <1>2, LiteralKeepsOwners DEF k, t
<1>4. Frames(n, k, {t})
  BY <1>1, LiteralFrames
<1> HIDE DEF n
<1>5. Writes(n, k, S, t, text)
  BY <1>2, <1>3, <1>4 DEF Writes
<1>6. Written(n, k, T, F, t, text)
  BY <1>1, <1>5, WriteKeeps DEF S
<1> QED
  BY <1>6, WrittenFromAlloca DEF n, k, t

\* A temporary is made from two strings.
LEMMA SumWritten ==
  ASSUME NEW m, NEW T, NEW F, Whole(m, T, F), m.status = "running",
         NEW a \in Held(m, T, F), NEW b \in Held(m, T, F),
         AddS8(Alloca(m), NewTemp(m), a, b).status # "aborted"
  PROVE  Written(AddS8(Alloca(m), NewTemp(m), a, b), m, T, F, NewTemp(m),
                 TextAt(m, a) \o TextAt(m, b))
<1> DEFINE k == Alloca(m)
           t == NewTemp(m)
           S == Held(k, T, F)
           n == AddS8(k, t, a, b)
           sum == TextAt(k, a) \o TextAt(k, b)
<1>1. /\ Whole(k, T, F) /\ k.status = "running"
      /\ StringsOwn(k, S) /\ Texts(k, S, Chars) /\ Fields(k) /\ Place(k, T, F, t) /\ Vacant(k, S, t)
      /\ S = Held(m, T, F) /\ \A s : TextAt(k, s) = TextAt(m, s)
  BY NewSlot
<1>2. a \in S /\ b \in S /\ n.status # "aborted"
  BY <1>1
<1> HIDE DEF S, k, t
<1>3. sum \in Seq(Chars)
  <2>1. TextAt(k, a) \in Seq(Chars) /\ TextAt(k, b) \in Seq(Chars)
    BY <1>1, <1>2 DEF Texts
  <2> QED
    BY <2>1
<1>4. Wrote(n, k, S, t, sum)
  BY <1>1, <1>2, SumKeepsOwners
<1>5. Frames(n, k, {t})
  BY <1>1, SumFrames
<1>6. sum = TextAt(m, a) \o TextAt(m, b)
  BY <1>1
<1> HIDE DEF n, sum
<1>7. Writes(n, k, S, t, sum)
  BY <1>3, <1>4, <1>5 DEF Writes
<1>8. Written(n, k, T, F, t, sum)
  BY <1>1, <1>7, WriteKeeps DEF S
<1>9. Written(n, m, T, F, t, sum)
  BY <1>8, WrittenFromAlloca DEF k
<1> QED
  BY <1>6, <1>9 DEF n, k, t

\* A comparison finds the buffers it reads.
LEMMA ComparisonKeeps ==
  ASSUME NEW m, NEW T, NEW F, Whole(m, T, F), NEW a \in Held(m, T, F), NEW b \in Held(m, T, F)
  PROVE  CheckEqS8(m, m.cell[a], m.cell[b]) = m
<1> DEFINE S == Held(m, T, F)
<1>1. StringsOwn(m, S) /\ Texts(m, S, Chars) /\ a \in S /\ b \in S
  BY WholeFacts
<1> HIDE DEF S
<1> QED
  BY <1>1, EqualityIsOfTexts

\* An enum is declared.
LEMMA EmptyEnumWritten ==
  ASSUME NEW m, NEW T, NEW F, Whole(m, T, F), m.status = "running",
         NEW a, Place(m, T, F, a), a \notin T
  PROVE  WrittenEnum(Store(m, a, EmptyEnum), m, T, F, a, EmptyItem)
<1>1. Room(m, T, F, a)
  BY DEF Place, Room
<1> QED
  BY <1>1, EmptyKeeps

\* A temporary is made that carries nothing.
LEMMA EmptyMade ==
  ASSUME NEW m, NEW T, NEW F, Whole(m, T, F), m.status = "running"
  PROVE  WrittenEnum(Store(Alloca(m), NewTemp(m), EmptyEnum), m, T, F, NewTemp(m), EmptyItem)
<1> DEFINE k == Alloca(m)
           t == NewTemp(m)
           n == Store(k, t, EmptyEnum)
<1>1. /\ Keeps(k, T, F, m, T, F) /\ Place(k, T, F, t) /\ t \notin T
      /\ \A s : TextAt(k, s) = TextAt(m, s)
      /\ \A e : Item(k, e) = Item(m, e)
  BY AllocaKeeps
<1> HIDE DEF k, t
<1>2. Whole(k, T, F) /\ k.status = "running"
  BY <1>1 DEF Keeps
<1>3. WrittenEnum(n, k, T, F, t, EmptyItem)
  BY <1>1, <1>2, EmptyEnumWritten
<1> HIDE DEF n
<1>4. Keeps(n, T, F \cup {t}, m, T, F)
  <2>1. Keeps(n, T, F \cup {t}, k, T, F)
    BY <1>3 DEF WrittenEnum
  <2> QED
    BY <1>1, <2>1, KeepsCompose
<1>5. WrittenEnum(n, m, T, F, t, EmptyItem)
  BY <1>1, <1>3, <1>4 DEF WrittenEnum
<1> QED
  BY <1>5 DEF n, k, t

\* A temporary is made that carries a text, which it takes or copies.
LEMMA WordWritten ==
  ASSUME NEW m, NEW T, NEW F, Whole(m, T, F), m.status = "running",
         NEW tag \in Nat \ {0, 1}, NEW src \in Held(m, T, F), NEW category,
         category = "OwnedTemp" => src \in T,
         Word(Alloca(m), NewTemp(m), tag, src, category).status # "aborted"
  PROVE  WordIs(Word(Alloca(m), NewTemp(m), tag, src, category), m, T, F,
                NewTemp(m), tag, src, category)
<1> DEFINE k == Alloca(m)
           t == NewTemp(m)
           n == Word(k, t, tag, src, category)
<1>1. /\ Keeps(k, T, F, m, T, F) /\ Place(k, T, F, t) /\ t \notin T
      /\ Held(k, T, F) = Held(m, T, F)
      /\ \A s : TextAt(k, s) = TextAt(m, s)
      /\ \A e : Item(k, e) = Item(m, e)
  BY AllocaKeeps
<1>2. n.status # "aborted" /\ tag \in Nat /\ tag # 1
  OBVIOUS
<1> HIDE DEF k, t
<1>3. Whole(k, T, F) /\ k.status = "running" /\ src \in Held(k, T, F)
  BY <1>1 DEF Keeps
<1>4. Room(k, T, F, t)
  BY <1>1 DEF Place, Room
<1>5. WordIs(n, k, T, F, t, tag, src, category)
  BY <1>2, <1>3, <1>4, WordKeeps
<1> HIDE DEF n
<1>6. Keeps(n, T, F \cup {t}, m, T, F)
  <2>1. Keeps(n, T, F \cup {t}, k, T, F)
    BY <1>5 DEF WordIs
  <2> QED
    BY <1>1, <2>1, KeepsCompose
<1>7. WordIs(n, m, T, F, t, tag, src, category)
  BY <1>1, <1>5, <1>6 DEF WordIs, Given
<1> QED
  BY <1>7 DEF n, k, t

-----------------------------------------------------------------------------
(* The inductive invariant. *)

\* As long as the process runs the memory is whole, and no step has lost what a
\* variable owned; it ends in no other way than for want of memory.
Sane ==
  /\ mem.status \in {"running", "aborted"}
  /\ lost = {}
  /\ mem.status = "running" => Whole(mem, strings, enums)

\* The memory m may follow, with the strings U and the enums G.
Safe(m, U, G) == m.status # "aborted" => Keeps(m, U, G, mem, strings, enums)

\* A step that keeps the memory whole keeps the invariant.
LEMMA ProceedSane ==
  ASSUME Sane, NEW m, NEW U, NEW G, Proceed(m, U, G), Safe(m, U, G)
  PROVE  Sane'
<1>1. mem.status = "running" /\ Whole(mem, strings, enums)
  BY DEF Proceed, Sane
<1>2. /\ mem' = m /\ strings' = U /\ enums' = G
      /\ lost' = IF m.status = "running" THEN Lost(m) ELSE {}
  BY DEF Proceed
<1>3. CASE m.status = "aborted"
  BY <1>2, <1>3 DEF Sane
<1>4. CASE m.status # "aborted"
  <2>1. Keeps(m, U, G, mem, strings, enums)
    BY <1>4 DEF Safe
  <2>2. m.status = "running" /\ Whole(m, U, G) /\ Lost(m) = {}
    BY <1>1, <2>1, NothingLost DEF Keeps
  <2> QED
    BY <1>2, <2>2 DEF Sane
<1> QED
  BY <1>3, <1>4

\* Steps are taken by a process that runs.
LEMMA ProceedRuns ==
  ASSUME Sane, NEW m, NEW U, NEW G, Proceed(m, U, G)
  PROVE  mem.status = "running" /\ Whole(mem, strings, enums)
BY DEF Proceed, Sane

\* What can be read are the strings of the memory.
LEMMA ReadablesHeld == Readables = Held(mem, strings, enums)
BY DEF Readables, Held

\* There is room for what is declared.
LEMMA UndeclaredPlace ==
  ASSUME NEW a \in Undeclared
  PROVE  Place(mem, strings, enums, a) /\ a \notin strings
BY DEF Undeclared, Place, Numbered

\* What is taken from is a temporary, and nothing is assigned to one.
LEMMA Taken ==
  ASSUME Whole(mem, strings, enums), NEW src \in Readables, Category(src) = "OwnedTemp"
  PROVE  src \in strings /\ Temporary(src)
<1>1. Temporary(src)
  BY DEF Category
<1>2. src \notin Payloads(mem, enums)
  BY <1>1, PayloadFacts, HeapAssumption DEF Temporary
<1> QED
  BY <1>1, <1>2 DEF Readables

\* Each step keeps the invariant.
LEMMA DeclareStringSane ==
  ASSUME Sane, NEW a, DeclareString(a)
  PROVE  Sane'
<1> DEFINE n == Store(mem, a, Empty)
           U == strings \cup {a}
<1>1. Proceed(n, U, enums) /\ a \in Undeclared
  BY DEF DeclareString
<1> HIDE DEF n, U
<1>2. mem.status = "running" /\ Whole(mem, strings, enums)
  BY <1>1, ProceedRuns
<1>3. Written(n, mem, strings, enums, a, <<>>)
  BY <1>1, <1>2, UndeclaredPlace, EmptyWritten DEF n
<1>4. Safe(n, U, enums)
  BY <1>3 DEF Written, Safe, U
<1> QED
  BY <1>1, <1>4, ProceedSane

LEMMA MakeLiteralSane ==
  ASSUME Sane, NEW text, MakeLiteral(text)
  PROVE  Sane'
<1> DEFINE n == FromLiteral(Alloca(mem), NewTemp(mem), text)
           U == strings \cup {NewTemp(mem)}
<1>1. Proceed(n, U, enums) /\ text \in Seq(Chars)
  BY DEF MakeLiteral
<1> HIDE DEF n, U
<1>2. mem.status = "running" /\ Whole(mem, strings, enums)
  BY <1>1, ProceedRuns
<1>3. ASSUME n.status # "aborted" PROVE Written(n, mem, strings, enums, NewTemp(mem), text)
  BY <1>1, <1>2, <1>3, LiteralWritten DEF n
<1>4. Safe(n, U, enums)
  BY <1>3 DEF Written, Safe, U
<1> QED
  BY <1>1, <1>4, ProceedSane

LEMMA MakeSumSane ==
  ASSUME Sane, NEW a, NEW b, MakeSum(a, b)
  PROVE  Sane'
<1> DEFINE n == AddS8(Alloca(mem), NewTemp(mem), a, b)
           U == strings \cup {NewTemp(mem)}
           sum == TextAt(mem, a) \o TextAt(mem, b)
<1>1. Proceed(n, U, enums) /\ a \in Held(mem, strings, enums) /\ b \in Held(mem, strings, enums)
  BY ReadablesHeld DEF MakeSum
<1> HIDE DEF n, U, sum
<1>2. mem.status = "running" /\ Whole(mem, strings, enums)
  BY <1>1, ProceedRuns
<1>3. ASSUME n.status # "aborted" PROVE Written(n, mem, strings, enums, NewTemp(mem), sum)
  BY <1>1, <1>2, <1>3, SumWritten DEF n, sum
<1>4. Safe(n, U, enums)
  BY <1>3 DEF Written, Safe, U
<1> QED
  BY <1>1, <1>4, ProceedSane

LEMMA CompareStringsSane ==
  ASSUME Sane, NEW a, NEW b, CompareStrings(a, b)
  PROVE  Sane'
<1> DEFINE n == CheckEqS8(mem, mem.cell[a], mem.cell[b])
<1>1. Proceed(n, strings, enums) /\ a \in Held(mem, strings, enums) /\ b \in Held(mem, strings, enums)
  BY ReadablesHeld DEF CompareStrings
<1> HIDE DEF n
<1>2. mem.status = "running" /\ Whole(mem, strings, enums)
  BY <1>1, ProceedRuns
<1>3. n = mem
  BY <1>1, <1>2, ComparisonKeeps DEF n
<1>4. Safe(n, strings, enums)
  BY <1>2, <1>3, NothingKeeps DEF Safe
<1> QED
  BY <1>1, <1>4, ProceedSane

LEMMA AssignStringSane ==
  ASSUME Sane, NEW dst, NEW src, AssignString(dst, src)
  PROVE  Sane'
<1> DEFINE category == Category(src)
           n == StringAssign(mem, dst, src, category)
<1>1. /\ Proceed(n, strings, enums) /\ dst \in strings /\ ~Temporary(dst)
      /\ src \in Readables /\ src \in Held(mem, strings, enums)
  BY ReadablesHeld DEF AssignString
<1> HIDE DEF n
<1>2. mem.status = "running" /\ Whole(mem, strings, enums)
  BY <1>1, ProceedRuns
<1>3. category = "OwnedTemp" => dst # src /\ src \in strings
  BY <1>1, <1>2, Taken
<1> HIDE DEF category
<1>4. ASSUME n.status # "aborted" PROVE Keeps(n, strings, enums, mem, strings, enums)
  BY <1>1, <1>2, <1>3, <1>4, StringAssignmentKeeps DEF n
<1>5. Safe(n, strings, enums)
  BY <1>4 DEF Safe
<1> QED
  BY <1>1, <1>5, ProceedSane

LEMMA DestroyStringSane ==
  ASSUME Sane, NEW t, DestroyString(t)
  PROVE  Sane'
<1> DEFINE n == DestroyS8(mem, t)
<1>1. Proceed(n, strings, enums) /\ t \in strings
  BY DEF DestroyString
<1> HIDE DEF n
<1>2. mem.status = "running" /\ Whole(mem, strings, enums)
  BY <1>1, ProceedRuns
<1>3. Keeps(n, strings, enums, mem, strings, enums)
  BY <1>1, <1>2, DestroyStringKeeps DEF n
<1> QED
  BY <1>1, <1>3, ProceedSane DEF Safe

LEMMA LeaveStringSane ==
  ASSUME Sane, NEW a, LeaveString(a)
  PROVE  Sane'
<1> DEFINE d == DestroyS8(mem, a)
           n == Without(d, {a})
           U == strings \ {a}
<1>1. Proceed(n, U, enums) /\ a \in strings
  BY DEF LeaveString
<1> HIDE DEF d, n, U
<1>2. mem.status = "running" /\ Whole(mem, strings, enums)
  BY <1>1, ProceedRuns
<1>3. Keeps(d, strings, enums, mem, strings, enums) /\ d.cell[a] = Empty
  BY <1>1, <1>2, DestroyStringKeeps DEF d
<1>4. Whole(d, strings, enums) /\ d.status = "running" /\ d.cell[a].data = Null /\ a \notin enums
  BY <1>1, <1>3, PayloadFacts, EmptyString DEF Keeps
<1>5. enums \ {a} = enums
  BY <1>4
<1>6. Keeps(n, U, enums \ {a}, d, strings, enums)
  <2>1. Forgets(n, d, strings, enums, a)
    BY <1>1, <1>4, ForgetKeeps DEF n
  <2> QED
    BY <2>1 DEF Forgets, U
<1>7. Keeps(n, U, enums, mem, strings, enums)
  BY <1>3, <1>5, <1>6, KeepsCompose
<1> QED
  BY <1>1, <1>7, ProceedSane DEF Safe

LEMMA DeclareEnumSane ==
  ASSUME Sane, NEW a, DeclareEnum(a)
  PROVE  Sane'
<1> DEFINE n == Store(mem, a, EmptyEnum)
           G == enums \cup {a}
<1>1. Proceed(n, strings, G) /\ a \in Undeclared
  BY DEF DeclareEnum
<1> HIDE DEF n, G
<1>2. mem.status = "running" /\ Whole(mem, strings, enums)
  BY <1>1, ProceedRuns
<1>3. WrittenEnum(n, mem, strings, enums, a, EmptyItem)
  BY <1>1, <1>2, UndeclaredPlace, EmptyEnumWritten DEF n
<1>4. Safe(n, strings, G)
  BY <1>3 DEF WrittenEnum, Safe, G
<1> QED
  BY <1>1, <1>4, ProceedSane

LEMMA MakeEmptySane ==
  ASSUME Sane, MakeEmpty
  PROVE  Sane'
<1> DEFINE n == Store(Alloca(mem), NewTemp(mem), EmptyEnum)
           G == enums \cup {NewTemp(mem)}
<1>1. Proceed(n, strings, G)
  BY DEF MakeEmpty
<1> HIDE DEF n, G
<1>2. mem.status = "running" /\ Whole(mem, strings, enums)
  BY <1>1, ProceedRuns
<1>3. WrittenEnum(n, mem, strings, enums, NewTemp(mem), EmptyItem)
  BY <1>1, <1>2, EmptyMade DEF n
<1>4. Safe(n, strings, G)
  BY <1>3 DEF WrittenEnum, Safe, G
<1> QED
  BY <1>1, <1>4, ProceedSane

LEMMA MakeWordSane ==
  ASSUME Sane, NEW tag, NEW src, MakeWord(tag, src)
  PROVE  Sane'
<1> DEFINE category == Category(src)
           n == Word(Alloca(mem), NewTemp(mem), tag, src, category)
           G == enums \cup {NewTemp(mem)}
<1>1. /\ Proceed(n, strings, G)
      /\ tag \in Nat \ {0, 1}
      /\ src \in Readables /\ src \in Held(mem, strings, enums)
  BY ReadablesHeld DEF MakeWord
<1> HIDE DEF n, G
<1>2. mem.status = "running" /\ Whole(mem, strings, enums)
  BY <1>1, ProceedRuns
<1>3. category = "OwnedTemp" => src \in strings
  BY <1>1, <1>2, Taken
<1> HIDE DEF category
<1>4. ASSUME n.status # "aborted"
      PROVE  WordIs(n, mem, strings, enums, NewTemp(mem), tag, src, category)
  BY <1>1, <1>2, <1>3, <1>4, WordWritten DEF n
<1>5. Safe(n, strings, G)
  BY <1>4 DEF WordIs, Safe, G
<1> QED
  BY <1>1, <1>5, ProceedSane

LEMMA AssignEnumSane ==
  ASSUME Sane, NEW dst, NEW src, AssignEnum(dst, src)
  PROVE  Sane'
<1> DEFINE category == Category(src)
           n == EnumAssign(mem, dst, src, category)
<1>1. Proceed(n, strings, enums) /\ dst \in enums /\ ~Temporary(dst) /\ src \in enums
  BY DEF AssignEnum
<1> HIDE DEF n
<1>2. mem.status = "running" /\ Whole(mem, strings, enums)
  BY <1>1, ProceedRuns
<1>3. category = "OwnedTemp" => dst # src
  BY <1>1 DEF Category
<1> HIDE DEF category
<1>4. ASSUME n.status # "aborted" PROVE Keeps(n, strings, enums, mem, strings, enums)
  BY <1>1, <1>2, <1>3, <1>4, EnumAssignmentKeeps DEF n
<1>5. Safe(n, strings, enums)
  BY <1>4 DEF Safe
<1> QED
  BY <1>1, <1>5, ProceedSane

LEMMA LeaveEnumSane ==
  ASSUME Sane, NEW a, LeaveEnum(a)
  PROVE  Sane'
<1> DEFINE d == DestroyEnum(mem, a)
           n == Without(d, {a})
           G == enums \ {a}
<1>1. Proceed(n, strings, G) /\ a \in enums
  BY DEF LeaveEnum
<1> HIDE DEF d, n, G
<1>2. mem.status = "running" /\ Whole(mem, strings, enums)
  BY <1>1, ProceedRuns
<1>3. Keeps(d, strings, enums, mem, strings, enums) /\ d.cell[a] = EmptyEnum
  BY <1>1, <1>2, DestroyKeeps DEF d
<1>4. Whole(d, strings, enums) /\ d.status = "running" /\ d.cell[a].payload = Null /\ a \notin strings
  BY <1>1, <1>3, PayloadFacts, EmptyEnumFacts DEF Keeps
<1>5. strings \ {a} = strings
  BY <1>4
<1>6. Keeps(n, strings \ {a}, G, d, strings, enums)
  <2>1. Forgets(n, d, strings, enums, a)
    BY <1>1, <1>4, ForgetKeeps DEF n
  <2> QED
    BY <2>1 DEF Forgets, G
<1>7. Keeps(n, strings, G, mem, strings, enums)
  BY <1>3, <1>5, <1>6, KeepsCompose
<1> QED
  BY <1>1, <1>7, ProceedSane DEF Safe

LEMMA EndStatementSane ==
  ASSUME Sane, EndStatement
  PROVE  Sane'
<1> DEFINE D == Gone(strings, enums)
           n == Ended(mem, strings, enums)
<1>1. Proceed(n, strings \ D, enums \ D)
  BY DEF EndStatement, Gone, Ended
<1> HIDE DEF n
<1>2. mem.status = "running" /\ Whole(mem, strings, enums)
  BY <1>1, ProceedRuns
<1>3. Whole(n, strings \ D, enums \ D) /\ n.status = "running" /\ Lost(n) = {}
  BY <1>2, EndKeeps, NothingLostAtEnd DEF Outlives, n
<1> QED
  BY <1>1, <1>3 DEF Proceed, Sane

\* Any step keeps the invariant.
LEMMA NextSane ==
  ASSUME Sane, Next
  PROVE  Sane'
BY DeclareStringSane, DeclareEnumSane, MakeLiteralSane, MakeSumSane, CompareStringsSane,
   AssignStringSane, DestroyStringSane, LeaveStringSane, MakeEmptySane, MakeWordSane,
   AssignEnumSane, LeaveEnumSane, EndStatementSane DEF Next

\* At first there is nothing.
LEMMA InitSane ==
  ASSUME Init
  PROVE  Sane
<1>1. IsMemory(NoMemory) /\ Fields(NoMemory)
  BY DEF NoMemory, IsMemory, Fields
<1>2. NoMemory.cell = << >> /\ NoMemory.temps = 0 /\ NoMemory.status = "running"
  BY DEF NoMemory
<1>3. DOMAIN NoMemory.cell = {}
  BY <1>2
<1>4. Held(NoMemory, {}, {}) = {}
  BY DEF Held, Payloads
<1>5. Owns(NoMemory, {}, {})
  BY <1>1, <1>3 DEF Owns, StringsOwn, Texts
<1>6. Whole(NoMemory, {}, {})
  BY <1>1, <1>2, <1>3, <1>4, <1>5 DEF Whole
<1> QED
  BY <1>2, <1>6 DEF Init, Sane

\* As long as there is memory, every buffer and every payload is where its owner
\* says, and the owners are the strings and enums in scope.
THEOREM SpecSane == Spec => []Sane
<1>1. Init => Sane
  BY InitSane
<1>2. Sane /\ [Next]_vars => Sane'
  <2> SUFFICES ASSUME Sane, [Next]_vars PROVE Sane'
    OBVIOUS
  <2>1. CASE Next
    BY <2>1, NextSane
  <2>2. CASE UNCHANGED vars
    BY <2>2 DEF vars, Sane, Whole, Fields, Owns, StringsOwn, IsMemory, Texts, Held, Payloads,
                PayloadOf, Numbered, Housed, Strays, Sound, TextAt
  <2> QED
    BY <2>1, <2>2
<1> QED
  BY <1>1, <1>2, PTL DEF Spec

\* No order of the steps of compiled code frees a block twice, reads one that
\* has been freed or uses an address that does not exist.
THEOREM SpecNoCorruption == Spec => []NoCorruption
<1>1. Sane => NoCorruption
  BY DEF Sane, NoCorruption
<1> QED
  BY <1>1, SpecSane, PTL

\* Whatever points to a block is alone in it.
LEMMA WholeSingleOwner ==
  ASSUME NEW m, NEW T, NEW F, Whole(m, T, F), NEW a \in DOMAIN m.cell, Pointer(m.cell[a]) # Null
  PROVE  /\ m.block[Pointer(m.cell[a])] = "live"
         /\ \A b \in DOMAIN m.cell \ {a} : Pointer(m.cell[b]) # Pointer(m.cell[a])
<1> DEFINE S == Held(m, T, F)
<1>1. /\ Owns(m, S, F)
      /\ \A x \in S : x \in DOMAIN m.cell /\ Pointer(m.cell[x]) = m.cell[x].data
      /\ \A x \in F : x \in DOMAIN m.cell /\ Pointer(m.cell[x]) = m.cell[x].payload
      /\ \A x \in DOMAIN m.cell : x \in S \cup F
  BY WholePointers DEF Whole
<1>2. \A e \in F : m.cell[e].payload # Null => m.cell[e].payload \in Strays(m, S)
  <2> SUFFICES ASSUME NEW e \in F, m.cell[e].payload # Null PROVE m.cell[e].payload \in Strays(m, S)
    OBVIOUS
  <2>1. /\ m.cell[e] \in Enum /\ PayloadOf(m, e) \in S /\ PayloadOf(m, e) \in DOMAIN m.cell
        /\ PayloadOf(m, e).root = m.cell[e].payload
    BY <1>1, Addresses DEF Owns, PayloadOf
  <2>2. m.cell[e].payload \in Blocks
    BY <2>1 DEF Enum
  <2> QED
    BY <1>1, <2>1, <2>2 DEF Owns, Housed
<1>3. \A s \in S : m.cell[s].data # Null => m.block[m.cell[s].data] = "live"
  BY <1>1 DEF Owns, StringsOwn, Sound
<1>4. \A x, y \in S : x # y /\ m.cell[x].data = m.cell[y].data => m.cell[x].data = Null
  BY <1>1 DEF Owns, StringsOwn
<1>5. \A d, e \in F : d # e /\ m.cell[d].payload = m.cell[e].payload => m.cell[d].payload = Null
  BY <1>1 DEF Owns
<1> HIDE DEF S
<1>6. CASE a \in S
  BY <1>1, <1>2, <1>3, <1>4, <1>6 DEF Strays
<1>7. CASE a \in F
  BY <1>1, <1>2, <1>5, <1>7 DEF Strays
<1> QED
  BY <1>1, <1>6, <1>7

\* After every step each buffer and each payload in use has exactly one owner,
\* and what an owner points to is live.
THEOREM SpecSingleOwner == Spec => []SingleOwner
<1>1. Sane => SingleOwner
  <2> SUFFICES ASSUME Sane, mem.status = "running",
                      NEW a \in DOMAIN mem.cell, Pointer(mem.cell[a]) # Null
               PROVE  /\ mem.block[Pointer(mem.cell[a])] = "live"
                      /\ \A b \in DOMAIN mem.cell \ {a} : Pointer(mem.cell[b]) # Pointer(mem.cell[a])
    BY DEF SingleOwner
  <2> QED
    BY WholeSingleOwner DEF Sane
<1> QED
  BY <1>1, SpecSane, PTL

\* No step leaks what a variable, a field or an element owned: only what a
\* temporary owns when its statement ends is leaked.
THEOREM SpecOnlyTemporariesLeak == Spec => []OnlyTemporariesLeak
<1>1. Sane => OnlyTemporariesLeak
  BY DEF Sane, OnlyTemporariesLeak
<1> QED
  BY <1>1, SpecSane, PTL

-----------------------------------------------------------------------------
(* The strings and the enums are values. *)

Temps == {TempAddr(n) : n \in Nat}

Copies == INSTANCE CopyStore
  WITH texts <- TextsNow, items <- ItemsNow, status <- mem.status,
       Locals <- Slots, Temporaries <- Temps

\* The memory n, with U and G, has the values t and i.
Has(n, U, G, t, i) == TextMap(n, U) = t /\ ItemMap(n, G) = i

\* A string that is written is one more value.
LEMMA WrittenHas ==
  ASSUME NEW m, NEW T, NEW F, NEW n, NEW out, NEW text, Written(n, m, T, F, out, text)
  PROVE  Has(n, T \cup {out}, F, Copies!With(TextMap(m, T), out, text), ItemMap(m, F))
<1>1. TextMap(n, T \cup {out}) = Copies!With(TextMap(m, T), out, text)
  BY DEF Written, TextMap, Copies!With
<1>2. ItemMap(n, F) = ItemMap(m, F)
  BY DEF Written, ItemMap
<1> QED
  BY <1>1, <1>2 DEF Has

\* So is an enum.
LEMMA WrittenEnumHas ==
  ASSUME NEW m, NEW T, NEW F, NEW n, NEW out, NEW item, WrittenEnum(n, m, T, F, out, item)
  PROVE  Has(n, T, F \cup {out}, TextMap(m, T), Copies!With(ItemMap(m, F), out, item))
<1>1. ItemMap(n, F \cup {out}) = Copies!With(ItemMap(m, F), out, item)
  BY DEF WrittenEnum, ItemMap, Copies!With
<1>2. TextMap(n, T) = TextMap(m, T)
  BY DEF WrittenEnum, TextMap
<1> QED
  BY <1>1, <1>2 DEF Has

\* A step of the memory is one of the values, or runs out of memory.
LEMMA ProceedValues ==
  ASSUME Sane, NEW m, NEW U, NEW G, Proceed(m, U, G), NEW t, NEW i,
         m.status # "aborted" => m.status = "running" /\ Has(m, U, G, t, i)
  PROVE  /\ TextsNow = TextMap(mem, strings) /\ ItemsNow = ItemMap(mem, enums)
         /\ Copies!Values(t, i) \/ Copies!Stop
<1>1. mem.status = "running" /\ mem' = m /\ strings' = U /\ enums' = G
  BY DEF Proceed
<1>2. TextsNow = TextMap(mem, strings) /\ ItemsNow = ItemMap(mem, enums)
  BY <1>1 DEF TextsNow, ItemsNow
<1>3. CASE m.status = "aborted"
  <2>1. TextsNow' = << >> /\ ItemsNow' = << >>
    BY <1>1, <1>3 DEF TextsNow, ItemsNow
  <2>2. Copies!Stop
    BY <1>1, <1>3, <2>1 DEF Copies!Stop
  <2> QED
    BY <1>2, <2>2
<1>4. CASE m.status # "aborted"
  <2>1. TextsNow' = TextMap(m, U) /\ ItemsNow' = ItemMap(m, G)
    BY <1>1, <1>4 DEF TextsNow, ItemsNow, TextMap, ItemMap
  <2>2. TextsNow' = t /\ ItemsNow' = i /\ mem'.status = mem.status
    BY <1>1, <1>4, <2>1 DEF Has
  <2>3. Copies!Values(t, i)
    BY <1>1, <2>2 DEF Copies!Values
  <2> QED
    BY <1>2, <2>3
<1> QED
  BY <1>3, <1>4

\* The names of the memory are those of the values.
LEMMA Names ==
  ASSUME Sane, mem.status = "running"
  PROVE  /\ Copies!Strings = strings /\ Copies!Enums = enums
         /\ \A a \in strings \cup enums : a \in Temps <=> Temporary(a)
         /\ \A a \in Undeclared : a \in Copies!New(Places)
         /\ NewTemp(mem) \in Copies!New(Temps)
<1>1. Whole(mem, strings, enums)
  BY DEF Sane
<1>2. Copies!Strings = strings /\ Copies!Enums = enums
  BY DEF Copies!Strings, Copies!Enums, TextsNow, ItemsNow, TextMap, ItemMap
<1>3. \A a \in Temps : Temporary(a)
  BY Addresses DEF Temps, Temporary
<1>4. ASSUME NEW a \in strings \cup enums, Temporary(a) PROVE a \in Temps
  <2>1. PICK j \in 1..mem.temps : a = TempAddr(j)
    BY <1>1, <1>4 DEF Whole, Numbered, Temporary
  <2>2. j \in Nat
    OBVIOUS
  <2> QED
    BY <2>1, <2>2 DEF Temps
<1>5. \A a \in Undeclared : a \in Copies!New(Places)
  BY <1>2 DEF Undeclared, Copies!New
<1>6. NewTemp(mem) \in Copies!New(Temps)
  <2>1. NewTemp(mem) \notin strings \cup enums
    BY <1>1, AllocaKeeps DEF Place
  <2>2. mem.temps + 1 \in Nat
    BY <1>1 DEF Whole
  <2>3. NewTemp(mem) \in Temps
    BY <2>2 DEF NewTemp, Temps
  <2> QED
    BY <1>2, <2>1, <2>3 DEF Copies!New
<1> QED
  BY <1>2, <1>3, <1>4, <1>5, <1>6

\* What a string or a payload says can be read.
LEMMA Reads ==
  ASSUME Sane, mem.status = "running", NEW src \in Readables
  PROVE  TextAt(mem, src) \in Copies!Readable
<1>1. /\ Copies!Strings = strings /\ Copies!Enums = enums
      /\ TextsNow = TextMap(mem, strings) /\ ItemsNow = ItemMap(mem, enums)
  BY Names DEF TextsNow, ItemsNow
<1>2. CASE src \in strings
  <2>1. TextsNow[src] = TextAt(mem, src)
    BY <1>1, <1>2 DEF TextMap
  <2> QED
    BY <1>1, <1>2, <2>1 DEF Copies!Readable
<1>3. CASE src \in Payloads(mem, enums)
  <2>1. PICK e \in enums : mem.cell[e].payload # Null /\ src = PayloadOf(mem, e)
    BY <1>3 DEF Payloads
  <2>2. mem.cell[e].tag # 1
    BY <2>1 DEF Sane, Whole, Owns
  <2>3. ItemsNow[e] = Item(mem, e)
    BY <1>1 DEF ItemMap
  <2>4. ItemsNow[e].tag # 1 /\ ItemsNow[e].text = TextAt(mem, src)
    BY <2>1, <2>2, <2>3 DEF Item
  <2> QED
    BY <1>1, <2>4 DEF Copies!Readable
<1> QED
  BY <1>2, <1>3 DEF Readables

\* A step on values or none.
Steady == UNCHANGED Copies!vars

\* Each step is one of the values, or runs out of memory.
LEMMA DeclareStringCopies ==
  ASSUME Sane, NEW a \in Places, DeclareString(a)
  PROVE  Copies!DeclareString(a) \/ Copies!Stop
<1> DEFINE n == Store(mem, a, Empty)
           U == strings \cup {a}
           none == <<>>
           t == Copies!With(TextMap(mem, strings), a, none)
           i == ItemMap(mem, enums)
<1>1. Proceed(n, U, enums) /\ a \in Undeclared
  BY DEF DeclareString
<1> HIDE DEF n, U
<1>2. mem.status = "running" /\ Whole(mem, strings, enums)
  BY <1>1, ProceedRuns
<1>3. Written(n, mem, strings, enums, a, none)
  BY <1>1, <1>2, UndeclaredPlace, EmptyWritten DEF n
<1> HIDE DEF none
<1>4. n.status = "running" /\ Has(n, U, enums, t, i)
  BY <1>3, WrittenHas DEF Written, Keeps, U
<1> HIDE DEF t, i
<1>5. TextsNow = TextMap(mem, strings) /\ ItemsNow = i /\ (Copies!Values(t, i) \/ Copies!Stop)
  BY <1>1, <1>4, ProceedValues DEF i
<1>6. a \in Copies!New(Places)
  BY <1>1, <1>2, Names
<1> QED
  BY <1>5, <1>6 DEF Copies!DeclareString, t, none

LEMMA MakeLiteralCopies ==
  ASSUME Sane, NEW text, MakeLiteral(text)
  PROVE  Copies!MakeString(NewTemp(mem), text) \/ Copies!Stop
<1> DEFINE n == FromLiteral(Alloca(mem), NewTemp(mem), text)
           U == strings \cup {NewTemp(mem)}
           t == Copies!With(TextMap(mem, strings), NewTemp(mem), text)
           i == ItemMap(mem, enums)
<1>1. Proceed(n, U, enums) /\ text \in Seq(Chars)
  BY DEF MakeLiteral
<1> HIDE DEF n, U
<1>2. mem.status = "running" /\ Whole(mem, strings, enums)
  BY <1>1, ProceedRuns
<1>3. ASSUME n.status # "aborted" PROVE Written(n, mem, strings, enums, NewTemp(mem), text)
  BY <1>1, <1>2, <1>3, LiteralWritten DEF n
<1>4. n.status # "aborted" => n.status = "running" /\ Has(n, U, enums, t, i)
  BY <1>3, WrittenHas DEF Written, Keeps, U
<1> HIDE DEF t, i
<1>5. TextsNow = TextMap(mem, strings) /\ ItemsNow = i /\ (Copies!Values(t, i) \/ Copies!Stop)
  BY <1>1, <1>4, ProceedValues DEF i
<1>6. NewTemp(mem) \in Copies!New(Temps)
  BY <1>2, Names
<1> QED
  BY <1>5, <1>6 DEF Copies!MakeString, t

LEMMA MakeSumCopies ==
  ASSUME Sane, NEW a, NEW b, MakeSum(a, b)
  PROVE  \/ \E u, v \in Copies!Readable : Copies!MakeString(NewTemp(mem), u \o v)
         \/ Copies!Stop
<1> DEFINE n == AddS8(Alloca(mem), NewTemp(mem), a, b)
           U == strings \cup {NewTemp(mem)}
           sum == TextAt(mem, a) \o TextAt(mem, b)
           t == Copies!With(TextMap(mem, strings), NewTemp(mem), sum)
           i == ItemMap(mem, enums)
<1>1. /\ Proceed(n, U, enums) /\ a \in Held(mem, strings, enums) /\ b \in Held(mem, strings, enums)
      /\ a \in Readables /\ b \in Readables
  BY ReadablesHeld DEF MakeSum
<1> HIDE DEF n, U, sum
<1>2. mem.status = "running" /\ Whole(mem, strings, enums)
  BY <1>1, ProceedRuns
<1>3. ASSUME n.status # "aborted" PROVE Written(n, mem, strings, enums, NewTemp(mem), sum)
  BY <1>1, <1>2, <1>3, SumWritten DEF n, sum
<1>4. n.status # "aborted" => n.status = "running" /\ Has(n, U, enums, t, i)
  BY <1>3, WrittenHas DEF Written, Keeps, U
<1> HIDE DEF t, i
<1>5. TextsNow = TextMap(mem, strings) /\ ItemsNow = i /\ (Copies!Values(t, i) \/ Copies!Stop)
  BY <1>1, <1>4, ProceedValues DEF i
<1>6. NewTemp(mem) \in Copies!New(Temps)
  BY <1>2, Names
<1>7. Copies!MakeString(NewTemp(mem), sum) \/ Copies!Stop
  BY <1>5, <1>6 DEF Copies!MakeString, t
<1>8. TextAt(mem, a) \in Copies!Readable /\ TextAt(mem, b) \in Copies!Readable
  BY <1>1, <1>2, Reads
<1> QED
  BY <1>7, <1>8 DEF sum

LEMMA CompareStringsCopies ==
  ASSUME Sane, NEW a, NEW b, CompareStrings(a, b)
  PROVE  Steady
<1> DEFINE n == CheckEqS8(mem, mem.cell[a], mem.cell[b])
<1>1. Proceed(n, strings, enums) /\ a \in Held(mem, strings, enums) /\ b \in Held(mem, strings, enums)
  BY ReadablesHeld DEF CompareStrings
<1> HIDE DEF n
<1>2. mem.status = "running" /\ Whole(mem, strings, enums)
  BY <1>1, ProceedRuns
<1>3. mem' = mem /\ strings' = strings /\ enums' = enums
  BY <1>1, <1>2, ComparisonKeeps DEF n, Proceed
<1> QED
  BY <1>3 DEF Steady, Copies!vars, TextsNow, ItemsNow, TextMap, ItemMap, Item, TextAt, PayloadOf

LEMMA AssignStringCopies ==
  ASSUME Sane, NEW dst, NEW src, AssignString(dst, src)
  PROVE  \/ Copies!TakeString(dst, src)
         \/ \E text \in Copies!Readable : Copies!CopyString(dst, text)
         \/ Copies!LoseString(dst)
         \/ Steady
         \/ Copies!Stop
<1> DEFINE category == Category(src)
           n == StringAssign(mem, dst, src, category)
           f == TextMap(mem, strings)
           i == ItemMap(mem, enums)
<1>1. /\ Proceed(n, strings, enums) /\ dst \in strings /\ ~Temporary(dst)
      /\ src \in Readables /\ src \in Held(mem, strings, enums)
  BY ReadablesHeld DEF AssignString
<1> HIDE DEF n
<1>2. mem.status = "running" /\ Whole(mem, strings, enums)
  BY <1>1, ProceedRuns
<1>3. category = "OwnedTemp" => dst # src /\ src \in strings /\ Temporary(src)
  BY <1>1, <1>2, Taken
<1>4. ASSUME n.status # "aborted"
      PROVE  /\ n.status = "running"
             /\ dst # src => /\ TextAt(n, dst) = TextAt(mem, src)
                             /\ TextAt(n, src) = Given(mem, src, category)
             /\ SameValue(dst, src) => n = mem
             /\ dst = src /\ ~SameValue(dst, src) => n.cell[dst] = Empty
             /\ \A s \in strings : s \notin {dst, src} => TextAt(n, s) = TextAt(mem, s)
             /\ \A e \in enums : Item(n, e) = Item(mem, e)
  <2> HIDE DEF category
  <2> QED
    BY <1>1, <1>2, <1>3, <1>4, StringAssignmentKeeps DEF n, Keeps
<1>5. /\ Copies!Strings = strings /\ Copies!Enums = enums /\ dst \notin Temps
      /\ src \in strings /\ Temporary(src) => src \in Temps
  BY <1>1, <1>2, Names
<1>6. n.status # "aborted" => ItemMap(n, enums) = i
  BY <1>4 DEF ItemMap
<1>7. CASE category = "OwnedTemp"
  <2> DEFINE none == <<>>
             t == Copies!With(Copies!With(f, dst, f[src]), src, none)
  <2>1. n.status # "aborted" => TextAt(n, dst) = TextAt(mem, src) /\ TextAt(n, src) = none
    BY <1>3, <1>4, <1>7 DEF Given
  <2> HIDE DEF none
  <2>2. n.status # "aborted" => TextMap(n, strings) = t
    BY <1>1, <1>3, <1>4, <1>7, <2>1 DEF TextMap, Copies!With
  <2>3. n.status # "aborted" => n.status = "running" /\ Has(n, strings, enums, t, i)
    BY <1>4, <1>6, <2>2 DEF Has
  <2> HIDE DEF t, i, f
  <2>4. TextsNow = f /\ ItemsNow = i /\ (Copies!Values(t, i) \/ Copies!Stop)
    BY <1>1, <2>3, ProceedValues DEF f, i
  <2> QED
    BY <1>1, <1>3, <1>5, <1>7, <2>4 DEF Copies!TakeString, t, none
<1>8. CASE category # "OwnedTemp" /\ dst # src
  <2> DEFINE text == TextAt(mem, src)
             t == Copies!With(f, dst, text)
  <2>1. n.status # "aborted" => TextAt(n, dst) = text /\ TextAt(n, src) = text
    BY <1>4, <1>8 DEF Given
  <2>2. n.status # "aborted" => TextMap(n, strings) = t
    BY <1>1, <1>4, <2>1 DEF TextMap, Copies!With
  <2>3. n.status # "aborted" => n.status = "running" /\ Has(n, strings, enums, t, i)
    BY <1>4, <1>6, <2>2 DEF Has
  <2> HIDE DEF t, i, f
  <2>4. TextsNow = f /\ ItemsNow = i /\ (Copies!Values(t, i) \/ Copies!Stop)
    BY <1>1, <2>3, ProceedValues DEF f, i
  <2>5. text \in Copies!Readable
    BY <1>1, <1>2, Reads
  <2> HIDE DEF text
  <2>6. Copies!CopyString(dst, text) \/ Copies!Stop
    BY <1>1, <1>5, <2>4 DEF Copies!CopyString, t
  <2> QED
    BY <2>5, <2>6
<1>9. CASE SameValue(dst, src)
  <2>1. n = mem
    BY <1>9 DEF n, StringAssign
  <2>2. mem' = mem /\ strings' = strings /\ enums' = enums
    BY <1>1, <2>1 DEF Proceed
  <2>3. Steady
    BY <2>2 DEF Steady, Copies!vars, TextsNow, ItemsNow, TextMap, ItemMap, Item, TextAt, PayloadOf
  <2> QED
    BY <2>3
<1>10. CASE dst = src /\ ~SameValue(dst, src)
  <2> DEFINE none == <<>>
             t == Copies!With(f, dst, none)
  <2>1. n.status # "aborted" => TextAt(n, dst) = none
    BY <1>4, <1>10, EmptyString DEF TextAt
  <2> HIDE DEF none
  <2>2. n.status # "aborted" => TextMap(n, strings) = t
    BY <1>1, <1>4, <1>10, <2>1 DEF TextMap, Copies!With
  <2>3. n.status # "aborted" => n.status = "running" /\ Has(n, strings, enums, t, i)
    BY <1>4, <1>6, <2>2 DEF Has
  <2> HIDE DEF t, i, f
  <2>4. TextsNow = f /\ ItemsNow = i /\ (Copies!Values(t, i) \/ Copies!Stop)
    BY <1>1, <2>3, ProceedValues DEF f, i
  <2>5. dst \notin Slots
    BY <1>10 DEF Slots, SameValue
  <2>6. Copies!LoseString(dst) \/ Copies!Stop
    BY <1>1, <1>5, <2>4, <2>5 DEF Copies!LoseString, t, none
  <2> QED
    BY <2>6
<1> QED
  BY <1>7, <1>8, <1>9, <1>10 DEF SameValue

LEMMA DestroyStringCopies ==
  ASSUME Sane, NEW t, DestroyString(t)
  PROVE  Copies!DestroyString(t) \/ Copies!Stop
<1> DEFINE n == DestroyS8(mem, t)
           none == <<>>
           v == Copies!With(TextMap(mem, strings), t, none)
           i == ItemMap(mem, enums)
<1>1. Proceed(n, strings, enums) /\ t \in strings /\ Temporary(t)
  BY DEF DestroyString
<1> HIDE DEF n
<1>2. mem.status = "running" /\ Whole(mem, strings, enums)
  BY <1>1, ProceedRuns
<1>3. /\ n.status = "running" /\ TextAt(n, t) = none
      /\ \A s \in strings : s # t => TextAt(n, s) = TextAt(mem, s)
      /\ \A e \in enums : Item(n, e) = Item(mem, e)
  BY <1>1, <1>2, DestroyStringKeeps, EmptyString DEF n, Keeps, TextAt
<1> HIDE DEF none
<1>4. Has(n, strings, enums, v, i)
  BY <1>1, <1>3 DEF Has, TextMap, ItemMap, Copies!With
<1> HIDE DEF v, i
<1>5. TextsNow = TextMap(mem, strings) /\ ItemsNow = i /\ (Copies!Values(v, i) \/ Copies!Stop)
  BY <1>1, <1>3, <1>4, ProceedValues DEF i
<1>6. Copies!Strings = strings /\ t \in Temps
  BY <1>1, <1>2, Names
<1> QED
  BY <1>1, <1>5, <1>6 DEF Copies!DestroyString, v, none

LEMMA LeaveStringCopies ==
  ASSUME Sane, NEW a, LeaveString(a)
  PROVE  Copies!LeaveString(a) \/ Copies!Stop
<1> DEFINE d == DestroyS8(mem, a)
           n == Without(d, {a})
           U == strings \ {a}
           v == Copies!Only(TextMap(mem, strings), U)
           i == ItemMap(mem, enums)
<1>1. Proceed(n, U, enums) /\ a \in strings /\ ~Temporary(a)
  BY DEF LeaveString
<1> HIDE DEF d, n
<1>2. mem.status = "running" /\ Whole(mem, strings, enums)
  BY <1>1, ProceedRuns
<1>3. /\ Keeps(d, strings, enums, mem, strings, enums) /\ d.cell[a] = Empty
      /\ \A s \in strings : s # a => TextAt(d, s) = TextAt(mem, s)
      /\ \A e \in enums : Item(d, e) = Item(mem, e)
  BY <1>1, <1>2, DestroyStringKeeps DEF d
<1>4. Whole(d, strings, enums) /\ d.status = "running" /\ d.cell[a].data = Null /\ a \notin enums
  BY <1>1, <1>3, PayloadFacts, EmptyString DEF Keeps
<1>5. /\ Keeps(n, U, enums \ {a}, d, strings, enums)
      /\ \A s \in U : TextAt(n, s) = TextAt(d, s)
      /\ \A e \in enums \ {a} : Item(n, e) = Item(d, e)
  <2>1. Forgets(n, d, strings, enums, a)
    BY <1>1, <1>4, ForgetKeeps DEF n
  <2> QED
    BY <2>1 DEF Forgets, U
<1>6. n.status = "running" /\ Has(n, U, enums, v, i)
  BY <1>3, <1>4, <1>5 DEF Keeps, Has, TextMap, ItemMap, Copies!Only
<1> HIDE DEF v, i
<1>7. TextsNow = TextMap(mem, strings) /\ ItemsNow = i /\ (Copies!Values(v, i) \/ Copies!Stop)
  BY <1>1, <1>6, ProceedValues DEF i
<1>8. Copies!Strings = strings /\ a \notin Temps
  BY <1>1, <1>2, Names
<1> QED
  BY <1>1, <1>7, <1>8 DEF Copies!LeaveString, v

LEMMA DeclareEnumCopies ==
  ASSUME Sane, NEW a \in Places, DeclareEnum(a)
  PROVE  Copies!DeclareEnum(a) \/ Copies!Stop
<1> DEFINE n == Store(mem, a, EmptyEnum)
           G == enums \cup {a}
           t == TextMap(mem, strings)
           i == Copies!With(ItemMap(mem, enums), a, EmptyItem)
<1>1. Proceed(n, strings, G) /\ a \in Undeclared
  BY DEF DeclareEnum
<1> HIDE DEF n, G
<1>2. mem.status = "running" /\ Whole(mem, strings, enums)
  BY <1>1, ProceedRuns
<1>3. WrittenEnum(n, mem, strings, enums, a, EmptyItem)
  BY <1>1, <1>2, UndeclaredPlace, EmptyEnumWritten DEF n
<1>4. n.status = "running" /\ Has(n, strings, G, t, i)
  BY <1>3, WrittenEnumHas DEF WrittenEnum, Keeps, G
<1> HIDE DEF t, i
<1>5. TextsNow = t /\ ItemsNow = ItemMap(mem, enums) /\ (Copies!Values(t, i) \/ Copies!Stop)
  BY <1>1, <1>4, ProceedValues DEF t
<1>6. a \in Copies!New(Places)
  BY <1>1, <1>2, Names
<1> QED
  BY <1>5, <1>6 DEF Copies!DeclareEnum, i, EmptyItem, Copies!EmptyItem

LEMMA MakeEmptyCopies ==
  ASSUME Sane, MakeEmpty
  PROVE  Copies!MakeEmpty(NewTemp(mem)) \/ Copies!Stop
<1> DEFINE n == Store(Alloca(mem), NewTemp(mem), EmptyEnum)
           G == enums \cup {NewTemp(mem)}
           t == TextMap(mem, strings)
           i == Copies!With(ItemMap(mem, enums), NewTemp(mem), EmptyItem)
<1>1. Proceed(n, strings, G)
  BY DEF MakeEmpty
<1> HIDE DEF n, G
<1>2. mem.status = "running" /\ Whole(mem, strings, enums)
  BY <1>1, ProceedRuns
<1>3. WrittenEnum(n, mem, strings, enums, NewTemp(mem), EmptyItem)
  BY <1>1, <1>2, EmptyMade DEF n
<1>4. n.status = "running" /\ Has(n, strings, G, t, i)
  BY <1>3, WrittenEnumHas DEF WrittenEnum, Keeps, G
<1> HIDE DEF t, i
<1>5. TextsNow = t /\ ItemsNow = ItemMap(mem, enums) /\ (Copies!Values(t, i) \/ Copies!Stop)
  BY <1>1, <1>4, ProceedValues DEF t
<1>6. NewTemp(mem) \in Copies!New(Temps)
  BY <1>2, Names
<1> QED
  BY <1>5, <1>6 DEF Copies!MakeEmpty, i, EmptyItem, Copies!EmptyItem

LEMMA MakeWordCopies ==
  ASSUME Sane, NEW tag, NEW src, MakeWord(tag, src)
  PROVE  \/ src \in Copies!Strings /\ Copies!TakeWord(NewTemp(mem), tag, src)
         \/ \E text \in Copies!Readable : Copies!CopyWord(NewTemp(mem), tag, text)
         \/ Copies!Stop
<1> DEFINE category == Category(src)
           n == Word(Alloca(mem), NewTemp(mem), tag, src, category)
           G == enums \cup {NewTemp(mem)}
           text == TextAt(mem, src)
           f == TextMap(mem, strings)
           i == Copies!With(ItemMap(mem, enums), NewTemp(mem), [tag |-> tag, text |-> text])
<1>1. /\ Proceed(n, strings, G)
      /\ tag \in Nat \ {0, 1}
      /\ src \in Readables /\ src \in Held(mem, strings, enums)
  BY ReadablesHeld DEF MakeWord
<1> HIDE DEF n
<1>2. mem.status = "running" /\ Whole(mem, strings, enums)
  BY <1>1, ProceedRuns
<1>3. category = "OwnedTemp" => src \in strings /\ Temporary(src)
  BY <1>1, <1>2, Taken
<1>4. ASSUME n.status # "aborted"
      PROVE  WordIs(n, mem, strings, enums, NewTemp(mem), tag, src, category)
  <2> HIDE DEF category
  <2> QED
    BY <1>1, <1>2, <1>3, <1>4, WordWritten DEF n
<1>5. n.status # "aborted" => n.status = "running" /\ ItemMap(n, G) = i
  BY <1>4 DEF WordIs, Keeps, ItemMap, Copies!With
<1>6. /\ NewTemp(mem) \in Copies!New(Temps) /\ Copies!Strings = strings
      /\ src \in strings /\ Temporary(src) => src \in Temps
  BY <1>2, Names
<1>7. CASE category = "OwnedTemp"
  <2> DEFINE none == <<>>
             t == Copies!With(f, src, none)
  <2>1. n.status # "aborted" =>
          \A s \in strings : TextAt(n, s) = IF s = src THEN none ELSE TextAt(mem, s)
    BY <1>4, <1>7 DEF WordIs, Given
  <2> HIDE DEF none
  <2>2. n.status # "aborted" => TextMap(n, strings) = t
    BY <1>3, <1>7, <2>1 DEF TextMap, Copies!With
  <2>3. f[src] = text
    BY <1>3, <1>7 DEF TextMap
  <2> HIDE DEF t, i, f, G
  <2>4. n.status # "aborted" => n.status = "running" /\ Has(n, strings, G, t, i)
    BY <1>5, <2>2 DEF Has
  <2>5. TextsNow = f /\ ItemsNow = ItemMap(mem, enums) /\ (Copies!Values(t, i) \/ Copies!Stop)
    BY <1>1, <2>4, ProceedValues DEF f, G
  <2> HIDE DEF text
  <2> QED
    BY <1>3, <1>6, <1>7, <2>3, <2>5 DEF Copies!TakeWord, t, i, none
<1>8. CASE category # "OwnedTemp"
  <2>1. n.status # "aborted" => \A s \in strings : TextAt(n, s) = TextAt(mem, s)
    BY <1>4, <1>8 DEF WordIs, Given
  <2>2. n.status # "aborted" => TextMap(n, strings) = f
    BY <2>1 DEF TextMap
  <2> HIDE DEF i, f, G
  <2>3. n.status # "aborted" => n.status = "running" /\ Has(n, strings, G, f, i)
    BY <1>5, <2>2 DEF Has
  <2>4. TextsNow = f /\ ItemsNow = ItemMap(mem, enums) /\ (Copies!Values(f, i) \/ Copies!Stop)
    BY <1>1, <2>3, ProceedValues DEF f, G
  <2>5. text \in Copies!Readable
    BY <1>1, <1>2, Reads
  <2> HIDE DEF text
  <2>6. Copies!CopyWord(NewTemp(mem), tag, text) \/ Copies!Stop
    BY <1>6, <2>4 DEF Copies!CopyWord, i
  <2> QED
    BY <2>5, <2>6
<1> QED
  BY <1>7, <1>8

LEMMA AssignEnumCopies ==
  ASSUME Sane, NEW dst, NEW src, AssignEnum(dst, src)
  PROVE  \/ Copies!TakeEnum(dst, src)
         \/ Copies!CopyEnum(dst, src)
         \/ Copies!LoseEnum(dst)
         \/ Steady
         \/ Copies!Stop
<1> DEFINE category == Category(src)
           n == EnumAssign(mem, dst, src, category)
           f == TextMap(mem, strings)
           g == ItemMap(mem, enums)
<1>1. Proceed(n, strings, enums) /\ dst \in enums /\ ~Temporary(dst) /\ src \in enums
  BY DEF AssignEnum
<1> HIDE DEF n
<1>2. mem.status = "running" /\ Whole(mem, strings, enums)
  BY <1>1, ProceedRuns
<1>3. category = "OwnedTemp" <=> Temporary(src)
  BY DEF Category
<1>4. ASSUME n.status # "aborted"
      PROVE  /\ n.status = "running"
             /\ dst # src => /\ Item(n, dst) = Item(mem, src)
                             /\ Item(n, src) = IF category = "OwnedTemp" THEN EmptyItem
                                               ELSE Item(mem, src)
             /\ dst = src /\ ~SameValue(dst, src) => Item(n, dst) = EmptyItem
             /\ \A e \in enums : e \notin {dst, src} => Item(n, e) = Item(mem, e)
             /\ \A s \in strings : TextAt(n, s) = TextAt(mem, s)
  <2>1. category = "OwnedTemp" => dst # src
    BY <1>1, <1>3
  <2> HIDE DEF category
  <2> QED
    BY <1>1, <1>2, <1>4, <2>1, EnumAssignmentKeeps DEF n, Keeps
<1>5. /\ Copies!Enums = enums /\ dst \notin Temps
      /\ src \in Temps <=> Temporary(src)
  BY <1>1, <1>2, Names
<1>6. n.status # "aborted" => TextMap(n, strings) = f
  BY <1>4 DEF TextMap
<1>7. CASE category = "OwnedTemp"
  <2> DEFINE i == Copies!With(Copies!With(g, dst, g[src]), src, EmptyItem)
  <2>1. dst # src
    BY <1>1, <1>3, <1>7
  <2>2. n.status # "aborted" => ItemMap(n, enums) = i
    BY <1>1, <1>4, <1>7, <2>1 DEF ItemMap, Copies!With
  <2> HIDE DEF i, f, g
  <2>3. n.status # "aborted" => n.status = "running" /\ Has(n, strings, enums, f, i)
    BY <1>4, <1>6, <2>2 DEF Has
  <2>4. TextsNow = f /\ ItemsNow = g /\ (Copies!Values(f, i) \/ Copies!Stop)
    BY <1>1, <2>3, ProceedValues DEF f, g
  <2> QED
    BY <1>1, <1>3, <1>5, <1>7, <2>4 DEF Copies!TakeEnum, i, EmptyItem, Copies!EmptyItem
<1>8. CASE category # "OwnedTemp" /\ dst # src
  <2> DEFINE i == Copies!With(g, dst, g[src])
  <2>1. n.status # "aborted" => ItemMap(n, enums) = i
    BY <1>1, <1>4, <1>8 DEF ItemMap, Copies!With
  <2> HIDE DEF i, f, g
  <2>2. n.status # "aborted" => n.status = "running" /\ Has(n, strings, enums, f, i)
    BY <1>4, <1>6, <2>1 DEF Has
  <2>3. TextsNow = f /\ ItemsNow = g /\ (Copies!Values(f, i) \/ Copies!Stop)
    BY <1>1, <2>2, ProceedValues DEF f, g
  <2> QED
    BY <1>1, <1>3, <1>5, <1>8, <2>3 DEF Copies!CopyEnum, i
<1>9. CASE SameValue(dst, src)
  <2>1. n = mem
    BY <1>9 DEF n, EnumAssign
  <2>2. mem' = mem /\ strings' = strings /\ enums' = enums
    BY <1>1, <2>1 DEF Proceed
  <2>3. Steady
    BY <2>2 DEF Steady, Copies!vars, TextsNow, ItemsNow, TextMap, ItemMap, Item, TextAt, PayloadOf
  <2> QED
    BY <2>3
<1>10. CASE dst = src /\ ~SameValue(dst, src)
  <2> DEFINE i == Copies!With(g, dst, EmptyItem)
  <2>1. n.status # "aborted" => ItemMap(n, enums) = i
    BY <1>1, <1>4, <1>10 DEF ItemMap, Copies!With
  <2> HIDE DEF i, f, g
  <2>2. n.status # "aborted" => n.status = "running" /\ Has(n, strings, enums, f, i)
    BY <1>4, <1>6, <2>1 DEF Has
  <2>3. TextsNow = f /\ ItemsNow = g /\ (Copies!Values(f, i) \/ Copies!Stop)
    BY <1>1, <2>2, ProceedValues DEF f, g
  <2>4. dst \notin Slots
    BY <1>10 DEF Slots, SameValue
  <2> QED
    BY <1>1, <1>5, <2>3, <2>4 DEF Copies!LoseEnum, i, EmptyItem, Copies!EmptyItem
<1> QED
  BY <1>7, <1>8, <1>9, <1>10 DEF SameValue

LEMMA LeaveEnumCopies ==
  ASSUME Sane, NEW a, LeaveEnum(a)
  PROVE  Copies!LeaveEnum(a) \/ Copies!Stop
<1> DEFINE d == DestroyEnum(mem, a)
           n == Without(d, {a})
           G == enums \ {a}
           t == TextMap(mem, strings)
           i == Copies!Only(ItemMap(mem, enums), G)
<1>1. Proceed(n, strings, G) /\ a \in enums
  BY DEF LeaveEnum
<1> HIDE DEF d, n
<1>2. mem.status = "running" /\ Whole(mem, strings, enums)
  BY <1>1, ProceedRuns
<1>3. /\ Keeps(d, strings, enums, mem, strings, enums) /\ d.cell[a] = EmptyEnum
      /\ \A e \in enums : e # a => Item(d, e) = Item(mem, e)
      /\ \A s \in strings : TextAt(d, s) = TextAt(mem, s)
  BY <1>1, <1>2, DestroyKeeps DEF d
<1>4. Whole(d, strings, enums) /\ d.status = "running" /\ d.cell[a].payload = Null /\ a \notin strings
  BY <1>1, <1>3, PayloadFacts, EmptyEnumFacts DEF Keeps
<1>5. /\ Keeps(n, strings \ {a}, G, d, strings, enums)
      /\ \A s \in strings \ {a} : TextAt(n, s) = TextAt(d, s)
      /\ \A e \in G : Item(n, e) = Item(d, e)
  <2>1. Forgets(n, d, strings, enums, a)
    BY <1>1, <1>4, ForgetKeeps DEF n
  <2> QED
    BY <2>1 DEF Forgets, G
<1>6. n.status = "running" /\ Has(n, strings, G, t, i)
  BY <1>3, <1>4, <1>5 DEF Keeps, Has, TextMap, ItemMap, Copies!Only
<1> HIDE DEF t, i
<1>7. TextsNow = t /\ ItemsNow = ItemMap(mem, enums) /\ (Copies!Values(t, i) \/ Copies!Stop)
  BY <1>1, <1>6, ProceedValues DEF t
<1>8. Copies!Enums = enums
  BY <1>2, Names
<1> QED
  BY <1>1, <1>7, <1>8 DEF Copies!LeaveEnum, i

LEMMA EndStatementCopies ==
  ASSUME Sane, EndStatement
  PROVE  Copies!EndStatement \/ Copies!Stop
<1> DEFINE D == Gone(strings, enums)
           n == Ended(mem, strings, enums)
           U == strings \ D
           G == enums \ D
           t == Copies!Only(TextMap(mem, strings), U)
           i == Copies!Only(ItemMap(mem, enums), G)
<1>1. Proceed(n, U, G)
  BY DEF EndStatement, Gone, Ended
<1> HIDE DEF n
<1>2. mem.status = "running" /\ Whole(mem, strings, enums)
  BY <1>1, ProceedRuns
<1>3. /\ n.status = "running"
      /\ \A s \in U : TextAt(n, s) = TextAt(mem, s)
      /\ \A e \in G : Item(n, e) = Item(mem, e)
  <2>1. Outlives(n, mem, strings, enums)
    BY <1>2, EndKeeps DEF n
  <2> QED
    BY <2>1 DEF Outlives
<1>4. Copies!Strings \ Temps = U /\ Copies!Enums \ Temps = G
  <2>1. /\ Copies!Strings = strings /\ Copies!Enums = enums
        /\ \A a \in strings \cup enums : a \in Temps <=> Temporary(a)
    BY <1>2, Names
  <2>2. \A a \in strings \cup enums : a \in D <=> Temporary(a)
    BY DEF Gone
  <2> HIDE DEF D
  <2> QED
    BY <2>1, <2>2
<1> HIDE DEF D
<1>5. Has(n, U, G, t, i)
  BY <1>3 DEF Has, TextMap, ItemMap, Copies!Only
<1> HIDE DEF t, i, U, G
<1>6. /\ TextsNow = TextMap(mem, strings) /\ ItemsNow = ItemMap(mem, enums)
      /\ Copies!Values(t, i) \/ Copies!Stop
  BY <1>1, <1>3, <1>5, ProceedValues
<1> QED
  BY <1>4, <1>6 DEF Copies!EndStatement, t, i

\* Every step of the memory is a step of the values, or changes none.
LEMMA NextCopies ==
  ASSUME Sane, Next
  PROVE  Copies!Next \/ Steady
<1>1. mem.status = "running"
  BY DEF Next, DeclareString, DeclareEnum, MakeLiteral, MakeSum, CompareStrings, AssignString,
         DestroyString, LeaveString, MakeEmpty, MakeWord, AssignEnum, LeaveEnum, EndStatement, Proceed
<1>2. Copies!Strings = strings /\ Copies!Enums = enums /\ NewTemp(mem) \in Temps
  BY <1>1, Names DEF Copies!New
<1>3. ASSUME NEW a \in Places, DeclareString(a) PROVE Copies!Next
  BY <1>3, DeclareStringCopies DEF Copies!Next
<1>4. ASSUME NEW a \in Places, DeclareEnum(a) PROVE Copies!Next
  BY <1>4, DeclareEnumCopies DEF Copies!Next
<1>5. ASSUME NEW text \in Literals, MakeLiteral(text) PROVE Copies!Next
  BY <1>2, <1>5, MakeLiteralCopies DEF Copies!Next
<1>6. ASSUME NEW a, NEW b, MakeSum(a, b) PROVE Copies!Next
  BY <1>2, <1>6, MakeSumCopies DEF Copies!Next
<1>7. ASSUME NEW a, NEW b, CompareStrings(a, b) PROVE Steady
  BY <1>7, CompareStringsCopies
<1>8. ASSUME NEW dst \in strings, NEW src, AssignString(dst, src) PROVE Copies!Next \/ Steady
  <2>1. Copies!TakeString(dst, src) => src \in strings
    BY <1>2 DEF Copies!TakeString
  <2> QED
    BY <1>2, <1>8, <2>1, AssignStringCopies DEF Copies!Next
<1>9. ASSUME NEW a \in strings, DestroyString(a) PROVE Copies!Next
  BY <1>2, <1>9, DestroyStringCopies DEF Copies!Next
<1>10. ASSUME NEW a \in strings, LeaveString(a) PROVE Copies!Next
  BY <1>2, <1>10, LeaveStringCopies DEF Copies!Next
<1>11. ASSUME MakeEmpty PROVE Copies!Next
  BY <1>2, <1>11, MakeEmptyCopies DEF Copies!Next
<1>12. ASSUME NEW tag \in Tags, NEW src, MakeWord(tag, src) PROVE Copies!Next
  BY <1>2, <1>12, MakeWordCopies DEF Copies!Next
<1>13. ASSUME NEW dst \in enums, NEW src \in enums, AssignEnum(dst, src) PROVE Copies!Next \/ Steady
  BY <1>2, <1>13, AssignEnumCopies DEF Copies!Next
<1>14. ASSUME NEW a \in enums, LeaveEnum(a) PROVE Copies!Next
  BY <1>2, <1>14, LeaveEnumCopies DEF Copies!Next
<1>15. ASSUME EndStatement PROVE Copies!Next
  BY <1>15, EndStatementCopies DEF Copies!Next
<1> QED
  BY <1>3, <1>4, <1>5, <1>6, <1>7, <1>8, <1>9, <1>10, <1>11, <1>12, <1>13, <1>14, <1>15 DEF Next

\* Compiled code keeps its strings and enums as values: what a name holds is
\* changed by the steps on that name alone, to what the step is said to give.
THEOREM SpecCopies == Spec => Copies!Spec
<1>1. Init => Copies!Init
  BY DEF Init, Copies!Init, TextsNow, ItemsNow, TextMap, ItemMap, NoMemory
<1>2. Sane /\ [Next]_vars => [Copies!Next]_(Copies!vars)
  <2> SUFFICES ASSUME Sane, [Next]_vars PROVE Copies!Next \/ Steady
    BY DEF Steady
  <2>1. CASE Next
    BY <2>1, NextCopies
  <2>2. CASE UNCHANGED vars
    BY <2>2 DEF vars, Steady, Copies!vars, TextsNow, ItemsNow, TextMap, ItemMap, Item, TextAt, PayloadOf
  <2> QED
    BY <2>1, <2>2
<1> QED
  BY <1>1, <1>2, SpecSane, PTL DEF Spec, Copies!Spec
==============================================================================
