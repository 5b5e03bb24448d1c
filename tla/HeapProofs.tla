----------------------------- MODULE HeapProofs -----------------------------
(***************************************************************************)
(* What the operations of the string runtime and of the generated code do  *)
(* to a memory, for every heap and every set of strings and enums in it:   *)
(* who owns each buffer and payload afterwards, and what everything holds. *)
(***************************************************************************)
EXTENDS HeapProgram, TLAPS

\* A memory has these fields, and may have others.
IsMemory(m) ==
  /\ m = [f \in DOMAIN m |-> m[f]]
  /\ {"cell", "block", "text", "status"} \subseteq DOMAIN m
  /\ m.block \in [Blocks -> {"unused", "live", "freed"}]
  /\ m.text = [b \in Blocks |-> m.text[b]]

String == [data : Blocks \cup {Null}, len : Nat]

\* A string is the empty one, or has a live buffer that holds as much text as
\* the string says.
Sound(m, s) ==
  IF s.data = Null THEN s.len = 0
  ELSE m.block[s.data] = "live" /\ s.len = Len(m.text[s.data]) /\ s.len # 0

\* The strings at S are sound, and each owns its buffer alone.
StringsOwn(m, S) ==
  /\ IsMemory(m)
  /\ S \subseteq DOMAIN m.cell
  /\ \A a \in S : m.cell[a] \in String /\ Sound(m, m.cell[a])
  /\ \A a, b \in S : a # b /\ m.cell[a].data = m.cell[b].data => m.cell[a].data = Null

\* The live blocks that no string of S owns: the payloads of enums, and what
\* has leaked.
Strays(m, S) == {b \in Blocks : m.block[b] = "live" /\ \A a \in S : m.cell[a].data # b}

\* out may be written: it is none of the strings, or an empty one.
Vacant(m, S, out) == out \in S => m.cell[out].data = Null

\* m and n differ at most in the cell at a, which in n holds v.
Replaces(n, m, a, v) ==
  /\ IsMemory(n)
  /\ n.block = m.block /\ n.text = m.text /\ n.status = m.status
  /\ DOMAIN n.cell = DOMAIN m.cell \cup {a}
  /\ n.cell[a] = v
  /\ \A x \in DOMAIN m.cell : x # a => n.cell[x] = m.cell[x]

\* The string at a is the same in n as in m.
Same(n, m, a) == n.cell[a] = m.cell[a] /\ TextAt(n, a) = TextAt(m, a)

\* In n the string at out has the text and a buffer of its own, if it needs one;
\* nothing else that was in m has changed, or is lost.
Wrote(n, m, S, out, text) ==
  /\ StringsOwn(n, S \cup {out}) /\ n.status = "running"
  /\ TextAt(n, out) = text
  /\ \A b \in S : b # out => Same(n, m, b)
  /\ Strays(n, S \cup {out}) = Strays(m, S)

-----------------------------------------------------------------------------
(* What the steps change. *)

LEMMA StoreReplaces ==
  ASSUME NEW m, IsMemory(m), NEW a, NEW v
  PROVE  Replaces(Store(m, a, v), m, a, v)
BY DEF IsMemory, Store, Replaces

LEMMA MallocFields ==
  ASSUME NEW m, IsMemory(m), NEW b \in Blocks, NEW text
  PROVE  /\ IsMemory(Malloc(m, b, text))
         /\ Malloc(m, b, text).cell = m.cell
         /\ Malloc(m, b, text).block = [m.block EXCEPT ![b] = "live"]
         /\ Malloc(m, b, text).text = [m.text EXCEPT ![b] = text]
         /\ Malloc(m, b, text).status = m.status
BY DEF IsMemory, Malloc

LEMMA FreeFields ==
  ASSUME NEW m, IsMemory(m), NEW b \in Blocks, m.block[b] = "live"
  PROVE  /\ IsMemory(Free(m, b))
         /\ Free(m, b).cell = m.cell
         /\ Free(m, b).block = [m.block EXCEPT ![b] = "freed"]
         /\ Free(m, b).text = [m.text EXCEPT ![b] = <<>>]
         /\ Free(m, b).status = m.status
BY HeapAssumption DEF IsMemory, Free

LEMMA EmptyString ==
  Empty \in String /\ Empty.data = Null /\ Empty.len = 0 /\ \A m : Sound(m, Empty)
BY DEF Empty, String, Sound

\* A string whose buffer is not touched stays as it was.
LEMMA Untouched ==
  ASSUME NEW m, NEW n, NEW a, m.cell[a] \in String, Sound(m, m.cell[a]),
         n.cell[a] = m.cell[a],
         m.cell[a].data # Null => /\ n.block[m.cell[a].data] = m.block[m.cell[a].data]
                                  /\ n.text[m.cell[a].data] = m.text[m.cell[a].data]
  PROVE  Sound(n, n.cell[a]) /\ Same(n, m, a)
BY DEF Sound, Same, TextAt

-----------------------------------------------------------------------------
(* Destroying, copying and moving a string. *)

\* The destruction of a string frees its buffer; no other string of S owned it.
LEMMA DestroyKeepsOwners ==
  ASSUME NEW m, NEW S, StringsOwn(m, S), NEW a \in S, m.status = "running"
  PROVE  LET n == DestroyS8(m, a)
         IN /\ StringsOwn(n, S)
            /\ n.status = "running"
            /\ n.cell[a] = Empty
            /\ \A b \in S : b # a => Same(n, m, b)
            /\ Strays(n, S) = Strays(m, S)
<1> DEFINE data  == m.cell[a].data
           freed == Free(m, data)
           n     == DestroyS8(m, a)
<1>1. IsMemory(m) /\ a \in DOMAIN m.cell /\ m.cell[a] \in String /\ Sound(m, m.cell[a])
  BY DEF StringsOwn
<1>2. n = Store(freed, a, Empty)
  BY <1>1 DEF DestroyS8, Using
<1>3. /\ IsMemory(freed) /\ freed.cell = m.cell /\ freed.status = m.status
      /\ \A b \in Blocks : b # data => freed.block[b] = m.block[b] /\ freed.text[b] = m.text[b]
      /\ data # Null => data \in Blocks /\ freed.block[data] = "freed"
  <2>1. CASE data = Null
    BY <1>1, <2>1 DEF Free
  <2>2. CASE data # Null
    <3>1. data \in Blocks /\ m.block[data] = "live"
      BY <1>1, <2>2 DEF String, Sound
    <3>2. /\ IsMemory(freed) /\ freed.cell = m.cell /\ freed.status = m.status
          /\ freed.block = [m.block EXCEPT ![data] = "freed"]
          /\ freed.text = [m.text EXCEPT ![data] = <<>>]
      <4> HIDE DEF data
      <4> QED
        BY <1>1, <3>1, FreeFields
    <3> HIDE DEF data, freed
    <3>3. m.block = [b \in Blocks |-> m.block[b]] /\ m.text = [b \in Blocks |-> m.text[b]]
      BY <1>1 DEF IsMemory
    <3>4. \A b \in Blocks : b # data => freed.block[b] = m.block[b]
      BY <3>2, <3>3
    <3>5. \A b \in Blocks : b # data => freed.text[b] = m.text[b]
      BY <3>2, <3>3
    <3>6. freed.block[data] = "freed"
      BY <3>1, <3>2, <3>3
    <3> QED
      BY <3>1, <3>2, <3>4, <3>5, <3>6
  <2> QED
    BY <2>1, <2>2
<1> HIDE DEF freed, n
<1>4. Replaces(n, freed, a, Empty)
  BY <1>2, <1>3, StoreReplaces
<1>5. \A b \in S : b # a => Sound(n, n.cell[b]) /\ Same(n, m, b)
  <2> SUFFICES ASSUME NEW b \in S, b # a
               PROVE  Sound(n, n.cell[b]) /\ Same(n, m, b)
    OBVIOUS
  <2>1. m.cell[b] \in String /\ Sound(m, m.cell[b]) /\ n.cell[b] = m.cell[b]
    BY <1>3, <1>4 DEF StringsOwn, Replaces
  <2>2. ASSUME m.cell[b].data # Null
        PROVE  /\ n.block[m.cell[b].data] = m.block[m.cell[b].data]
               /\ n.text[m.cell[b].data] = m.text[m.cell[b].data]
    <3>1. m.cell[b].data \in Blocks /\ m.cell[b].data # data
      BY <2>1, <2>2 DEF StringsOwn, String
    <3> QED
      BY <1>3, <1>4, <3>1 DEF Replaces
  <2> QED
    BY <2>1, <2>2, Untouched
<1>6. StringsOwn(n, S)
  <2>1. IsMemory(n) /\ S \subseteq DOMAIN n.cell
    BY <1>3, <1>4 DEF Replaces, StringsOwn
  <2>2. \A b \in S : n.cell[b] \in String /\ Sound(n, n.cell[b])
    BY <1>4, <1>5, EmptyString DEF Replaces, Same, StringsOwn
  <2>3. \A b, c \in S : b # c /\ n.cell[b].data = n.cell[c].data => n.cell[b].data = Null
    BY <1>4, <1>5, EmptyString DEF Replaces, Same, StringsOwn
  <2> QED
    BY <2>1, <2>2, <2>3 DEF StringsOwn
<1>7. Strays(n, S) = Strays(m, S)
  <2>1. /\ n.block = freed.block /\ n.cell[a].data = Null
        /\ \A b \in S : b # a => n.cell[b] = m.cell[b]
    BY <1>3, <1>4, EmptyString DEF Replaces, StringsOwn
  <2> SUFFICES ASSUME NEW b \in Blocks PROVE b \in Strays(n, S) <=> b \in Strays(m, S)
    BY DEF Strays
  <2>2. CASE b = data
    BY <1>3, <2>1, <2>2, HeapAssumption DEF Strays
  <2>3. CASE b # data
    <3>1. n.block[b] = m.block[b] /\ b # Null
      BY <1>3, <2>1, <2>3, HeapAssumption
    <3> QED
      BY <2>1, <2>3, <3>1 DEF Strays
  <2> QED
    BY <2>2, <2>3
<1> QED
  BY <1>3, <1>4, <1>5, <1>6, <1>7 DEF Replaces, n

\* A new buffer in a string that was vacant holds the text; the others stay as
\* they were.
LEMMA FillKeepsOwners ==
  ASSUME NEW m, NEW S, StringsOwn(m, S), m.status = "running",
         NEW out, Vacant(m, S, out),
         NEW text, Len(text) \in Nat, Len(text) # 0,
         Fill(m, out, text).status # "aborted"
  PROVE  Wrote(Fill(m, out, text), m, S, out, text)
<1> DEFINE new       == NewBlock(m)
           s         == [data |-> new, len |-> Len(text)]
           allocated == Malloc(m, new, text)
           n         == Fill(m, out, text)
<1>1. IsMemory(m) /\ S \subseteq DOMAIN m.cell
  BY DEF StringsOwn
<1>2. Abort(m).status = "aborted"
  BY <1>1 DEF Abort, IsMemory
<1>3. Unused(m) # {} /\ n = Store(allocated, out, s)
  BY <1>2 DEF Fill
<1>4. new \in Blocks /\ m.block[new] = "unused" /\ new # Null
  BY <1>3, HeapAssumption DEF NewBlock, Unused
<1>5. s \in String /\ s.data = new /\ s.len = Len(text)
  BY <1>4 DEF String
<1>6. /\ IsMemory(allocated) /\ allocated.cell = m.cell /\ allocated.status = m.status
      /\ allocated.block[new] = "live" /\ allocated.text[new] = text
      /\ \A b \in Blocks : b # new => /\ allocated.block[b] = m.block[b]
                                      /\ allocated.text[b] = m.text[b]
  <2> HIDE DEF new
  <2>1. /\ IsMemory(allocated) /\ allocated.cell = m.cell /\ allocated.status = m.status
        /\ allocated.block = [m.block EXCEPT ![new] = "live"]
        /\ allocated.text = [m.text EXCEPT ![new] = text]
    BY <1>1, <1>4, MallocFields
  <2> HIDE DEF allocated
  <2>2. m.block = [b \in Blocks |-> m.block[b]] /\ m.text = [b \in Blocks |-> m.text[b]]
    BY <1>1 DEF IsMemory
  <2>3. /\ allocated.block[new] = "live"
        /\ \A b \in Blocks : b # new => allocated.block[b] = m.block[b]
    BY <1>4, <2>1, <2>2
  <2>4. /\ allocated.text[new] = text
        /\ \A b \in Blocks : b # new => allocated.text[b] = m.text[b]
    BY <1>4, <2>1, <2>2
  <2> QED
    BY <2>1, <2>3, <2>4
<1> HIDE DEF allocated, n, s, new
<1>7. Replaces(n, allocated, out, s)
  BY <1>3, <1>6, StoreReplaces
<1>8. Sound(n, n.cell[out]) /\ TextAt(n, out) = text
  BY <1>4, <1>5, <1>6, <1>7 DEF Replaces, Sound, TextAt
<1>9. \A b \in S : b # out => Sound(n, n.cell[b]) /\ Same(n, m, b) /\ n.cell[b].data # new
  <2> SUFFICES ASSUME NEW b \in S, b # out
               PROVE  Sound(n, n.cell[b]) /\ Same(n, m, b) /\ n.cell[b].data # new
    OBVIOUS
  <2>1. m.cell[b] \in String /\ Sound(m, m.cell[b]) /\ n.cell[b] = m.cell[b]
    BY <1>6, <1>7 DEF StringsOwn, Replaces
  <2>2. m.cell[b].data # new
    BY <1>4, <2>1 DEF Sound
  <2>3. ASSUME m.cell[b].data # Null
        PROVE  /\ n.block[m.cell[b].data] = m.block[m.cell[b].data]
               /\ n.text[m.cell[b].data] = m.text[m.cell[b].data]
    BY <1>6, <1>7, <2>1, <2>2, <2>3 DEF Replaces, String
  <2> QED
    BY <2>1, <2>2, <2>3, Untouched
<1>10. StringsOwn(n, S \cup {out})
  <2>1. IsMemory(n) /\ S \cup {out} \subseteq DOMAIN n.cell
    BY <1>1, <1>6, <1>7 DEF Replaces
  <2>2. \A b \in S \cup {out} : n.cell[b] \in String /\ Sound(n, n.cell[b])
    BY <1>5, <1>7, <1>8, <1>9 DEF Replaces, Same, StringsOwn
  <2>3. \A b, c \in S \cup {out} : b # c /\ n.cell[b].data = n.cell[c].data => n.cell[b].data = Null
    BY <1>5, <1>7, <1>9 DEF Replaces, Same, StringsOwn
  <2> QED
    BY <2>1, <2>2, <2>3 DEF StringsOwn
<1>11. Strays(n, S \cup {out}) = Strays(m, S)
  <2>1. /\ n.block = allocated.block /\ n.cell[out].data = new
        /\ \A b \in S : b # out => n.cell[b] = m.cell[b]
    BY <1>1, <1>5, <1>6, <1>7 DEF Replaces
  <2> SUFFICES ASSUME NEW b \in Blocks
               PROVE  b \in Strays(n, S \cup {out}) <=> b \in Strays(m, S)
    BY DEF Strays
  <2>2. CASE b = new
    BY <1>4, <2>1, <2>2 DEF Strays
  <2>3. CASE b # new
    <3>1. n.block[b] = m.block[b] /\ b # Null
      BY <1>6, <2>1, <2>3, HeapAssumption
    <3>2. (\A a \in S \cup {out} : n.cell[a].data # b) <=> (\A a \in S : m.cell[a].data # b)
      BY <2>1, <2>3, <3>1 DEF Vacant
    <3> QED
      BY <3>1, <3>2 DEF Strays
  <2> QED
    BY <2>2, <2>3
<1> QED
  BY <1>6, <1>7, <1>8, <1>9, <1>10, <1>11 DEF Replaces, Wrote, n

\* The empty string needs no buffer.
LEMMA EmptyKeepsOwners ==
  ASSUME NEW m, NEW S, StringsOwn(m, S), m.status = "running",
         NEW out, Vacant(m, S, out)
  PROVE  Wrote(Store(m, out, Empty), m, S, out, <<>>)
<1> DEFINE n == Store(m, out, Empty)
<1>1. IsMemory(m) /\ S \subseteq DOMAIN m.cell
  BY DEF StringsOwn
<1>2. Replaces(n, m, out, Empty)
  BY <1>1, StoreReplaces
<1> HIDE DEF n
<1>3. \A b \in S : b # out => Sound(n, n.cell[b]) /\ Same(n, m, b)
  <2> SUFFICES ASSUME NEW b \in S, b # out PROVE Sound(n, n.cell[b]) /\ Same(n, m, b)
    OBVIOUS
  <2>1. m.cell[b] \in String /\ Sound(m, m.cell[b]) /\ n.cell[b] = m.cell[b]
    BY <1>2 DEF StringsOwn, Replaces
  <2>2. n.block = m.block /\ n.text = m.text
    BY <1>2 DEF Replaces
  <2> QED
    BY <2>1, <2>2, Untouched
<1>4. StringsOwn(n, S \cup {out})
  <2>1. IsMemory(n) /\ S \cup {out} \subseteq DOMAIN n.cell
    BY <1>1, <1>2 DEF Replaces
  <2>2. \A b \in S \cup {out} : n.cell[b] \in String /\ Sound(n, n.cell[b])
    BY <1>2, <1>3, EmptyString DEF Replaces, Same, StringsOwn
  <2>3. \A b, c \in S \cup {out} : b # c /\ n.cell[b].data = n.cell[c].data => n.cell[b].data = Null
    BY <1>2, <1>3, EmptyString DEF Replaces, Same, StringsOwn
  <2> QED
    BY <2>1, <2>2, <2>3 DEF StringsOwn
<1>5. Strays(n, S \cup {out}) = Strays(m, S)
  <2>1. /\ n.block = m.block /\ n.cell[out].data = Null
        /\ \A b \in S : b # out => n.cell[b] = m.cell[b]
    BY <1>1, <1>2, EmptyString DEF Replaces
  <2>2. \A b \in Blocks : b # Null
    BY HeapAssumption
  <2> QED
    BY <2>1, <2>2 DEF Strays, Vacant
<1> QED
  BY <1>2, <1>3, <1>4, <1>5, EmptyString DEF Replaces, TextAt, Wrote, n

\* A copy into a vacant string reads nothing that has been freed.
LEMMA CopyKeepsOwners ==
  ASSUME NEW m, NEW S, StringsOwn(m, S), m.status = "running",
         NEW out, Vacant(m, S, out), NEW src \in S,
         CopyS8(m, out, src).status # "aborted"
  PROVE  Wrote(CopyS8(m, out, src), m, S, out, TextAt(m, src))
<1> DEFINE data == m.cell[src].data
           n    == CopyS8(m, out, src)
<1>1. /\ IsMemory(m) /\ src \in DOMAIN m.cell /\ m.cell[src] \in String /\ Sound(m, m.cell[src])
  BY DEF StringsOwn
<1>2. CASE data = Null
  <2>1. n = Store(m, out, Empty)
    BY <1>1, <1>2 DEF CopyS8, Using, Sound
  <2> HIDE DEF n, data
  <2>2. Wrote(n, m, S, out, <<>>)
    BY <2>1, EmptyKeepsOwners
  <2> QED
    BY <1>2, <2>2 DEF n, data, TextAt
<1>3. CASE data # Null
  <2>1. /\ data \in Blocks /\ m.block[data] = "live" /\ TextAt(m, src) = m.text[data]
        /\ m.cell[src].len # 0 /\ m.cell[src].len = Len(m.text[data]) /\ m.cell[src].len \in Nat
    BY <1>1, <1>3 DEF Sound, String, TextAt
  <2>2. n = Fill(m, out, m.text[data])
    BY <1>1, <1>3, <2>1 DEF CopyS8, Using, Readable
  <2>3. Fill(m, out, m.text[data]).status # "aborted"
    BY <2>2
  <2> HIDE DEF n, data
  <2>4. Wrote(Fill(m, out, m.text[data]), m, S, out, m.text[data])
    BY <2>1, <2>3, FillKeepsOwners
  <2> QED
    BY <2>1, <2>2, <2>4 DEF n
<1> QED
  BY <1>2, <1>3

\* A move into an empty string of S leaves its source empty.
LEMMA MoveKeepsOwners ==
  ASSUME NEW m, NEW S, StringsOwn(m, S), m.status = "running",
         NEW out \in S, m.cell[out].data = Null, NEW src \in S, src # out
  PROVE  LET n == MoveS8(m, out, src)
         IN /\ StringsOwn(n, S)
            /\ n.status = "running"
            /\ TextAt(n, out) = TextAt(m, src)
            /\ TextAt(n, src) = <<>>
            /\ \A b \in S \ {out, src} : Same(n, m, b)
            /\ Strays(n, S) = Strays(m, S)
<1> DEFINE s      == m.cell[src]
           stored == Store(m, out, s)
           n      == Store(stored, src, Empty)
<1>1. /\ IsMemory(m) /\ src \in DOMAIN m.cell /\ out \in DOMAIN m.cell
      /\ s \in String /\ Sound(m, s)
  BY DEF StringsOwn
<1>2. MoveS8(m, out, src) = n
  BY <1>1 DEF MoveS8, Using
<1>3. Replaces(stored, m, out, s)
  BY <1>1, StoreReplaces
<1> HIDE DEF stored
<1>4. Replaces(n, stored, src, Empty)
  BY <1>3, StoreReplaces DEF Replaces
<1> HIDE DEF n
<1>5. /\ IsMemory(n) /\ n.block = m.block /\ n.text = m.text /\ n.status = m.status
      /\ S \subseteq DOMAIN n.cell
      /\ n.cell[out] = s /\ n.cell[src] = Empty
      /\ \A b \in S \ {out, src} : n.cell[b] = m.cell[b]
  BY <1>1, <1>3, <1>4 DEF StringsOwn, Replaces
<1>6. /\ Sound(n, s) /\ TextAt(n, out) = TextAt(m, src) /\ TextAt(n, src) = <<>>
  BY <1>1, <1>5, EmptyString DEF Sound, TextAt
<1>7. \A b \in S \ {out, src} : Sound(n, n.cell[b]) /\ Same(n, m, b)
  <2> SUFFICES ASSUME NEW b \in S \ {out, src} PROVE Sound(n, n.cell[b]) /\ Same(n, m, b)
    OBVIOUS
  <2>1. m.cell[b] \in String /\ Sound(m, m.cell[b])
    BY DEF StringsOwn
  <2> QED
    BY <1>5, <2>1, Untouched
<1>8. StringsOwn(n, S)
  <2>1. \A b \in S : n.cell[b] \in String /\ Sound(n, n.cell[b])
    BY <1>1, <1>5, <1>6, <1>7, EmptyString DEF StringsOwn
  <2>2. \A b, c \in S : b # c /\ n.cell[b].data = n.cell[c].data => n.cell[b].data = Null
    BY <1>5, EmptyString DEF StringsOwn
  <2> QED
    BY <1>5, <2>1, <2>2 DEF StringsOwn
<1>9. Strays(n, S) = Strays(m, S)
  <2>1. Empty.data = Null /\ \A b \in Blocks : b # Null
    BY EmptyString, HeapAssumption
  <2> QED
    BY <1>1, <1>5, <2>1 DEF Strays
<1> QED
  BY <1>2, <1>5, <1>6, <1>7, <1>8, <1>9

\* A literal, in a vacant string.
LEMMA LiteralKeepsOwners ==
  ASSUME NEW m, NEW S, StringsOwn(m, S), m.status = "running",
         NEW out, Vacant(m, S, out), NEW T, NEW text \in Seq(T),
         FromLiteral(m, out, text).status # "aborted"
  PROVE  Wrote(FromLiteral(m, out, text), m, S, out, text)
<1>1. CASE text = <<>>
  BY <1>1, EmptyKeepsOwners DEF FromLiteral
<1>2. CASE text # <<>>
  <2>1. Len(text) \in Nat /\ Len(text) # 0
    BY <1>2
  <2>2. FromLiteral(m, out, text) = Fill(m, out, text)
    BY <1>2 DEF FromLiteral
  <2>3. Fill(m, out, text).status # "aborted"
    BY <2>2
  <2>4. Wrote(Fill(m, out, text), m, S, out, text)
    BY <2>1, <2>3, FillKeepsOwners
  <2> QED
    BY <2>2, <2>4
<1> QED
  BY <1>1, <1>2

\* The texts are sequences.
Texts(m, S, T) == \A a \in S : TextAt(m, a) \in Seq(T)

\* The sum of two strings, in a vacant third one.
LEMMA SumKeepsOwners ==
  ASSUME NEW m, NEW S, StringsOwn(m, S), m.status = "running",
         NEW T, Texts(m, S, T),
         NEW out, Vacant(m, S, out), NEW a \in S, NEW b \in S,
         AddS8(m, out, a, b).status # "aborted"
  PROVE  Wrote(AddS8(m, out, a, b), m, S, out, TextAt(m, a) \o TextAt(m, b))
<1> DEFINE n == AddS8(m, out, a, b)
<1>1. /\ {a, b} \subseteq DOMAIN m.cell
      /\ m.cell[a] \in String /\ Sound(m, m.cell[a]) /\ TextAt(m, a) \in Seq(T)
      /\ m.cell[b] \in String /\ Sound(m, m.cell[b]) /\ TextAt(m, b) \in Seq(T)
  BY DEF StringsOwn, Texts
<1>2. ASSUME NEW c \in {a, b} PROVE /\ m.cell[c].len = 0 <=> m.cell[c].data = Null
                                    /\ m.cell[c].len = 0 => TextAt(m, c) = <<>>
  BY <1>1, <1>2 DEF Sound, String, TextAt
<1>3. CASE m.cell[a].len = 0
  <2>1. n = CopyS8(m, out, b)
    BY <1>1, <1>3 DEF AddS8, Using
  <2>2. TextAt(m, a) \o TextAt(m, b) = TextAt(m, b)
    BY <1>1, <1>2, <1>3
  <2>3. Wrote(CopyS8(m, out, b), m, S, out, TextAt(m, b))
    BY <2>1, CopyKeepsOwners
  <2> QED
    BY <2>1, <2>2, <2>3
<1>4. CASE m.cell[a].len # 0 /\ m.cell[b].len = 0
  <2>1. n = CopyS8(m, out, a)
    BY <1>1, <1>4 DEF AddS8, Using
  <2>2. TextAt(m, a) \o TextAt(m, b) = TextAt(m, a)
    BY <1>1, <1>2, <1>4
  <2>3. Wrote(CopyS8(m, out, a), m, S, out, TextAt(m, a))
    BY <2>1, CopyKeepsOwners
  <2> QED
    BY <2>1, <2>2, <2>3
<1>5. CASE m.cell[a].len # 0 /\ m.cell[b].len # 0
  <2> DEFINE sum == TextAt(m, a) \o TextAt(m, b)
  <2>1. m.cell[a].data # Null /\ m.cell[b].data # Null
    BY <1>2, <1>5
  <2>2. /\ Readable(m, m.cell[a]) /\ TextAt(m, a) = m.text[m.cell[a].data]
        /\ Readable(m, m.cell[b]) /\ TextAt(m, b) = m.text[m.cell[b].data]
    BY <1>1, <2>1 DEF Readable, Sound, String, TextAt
  <2>3. n = Fill(m, out, sum)
    BY <1>1, <1>5, <2>1, <2>2 DEF AddS8, Using
  <2>4. Len(sum) \in Nat /\ Len(sum) # 0
    <3>1. Len(TextAt(m, a)) = m.cell[a].len /\ m.cell[a].len \in Nat
      BY <1>1, <2>1, <2>2 DEF Sound, String
    <3> QED
      BY <1>1, <1>5, <3>1
  <2> HIDE DEF sum
  <2>5. n.status # "aborted" /\ Fill(m, out, sum).status # "aborted"
    BY <2>3
  <2> HIDE DEF n
  <2>6. Wrote(Fill(m, out, sum), m, S, out, sum)
    BY <2>4, <2>5, FillKeepsOwners
  <2> QED
    BY <2>3, <2>6 DEF n, sum
<1> QED
  BY <1>3, <1>4, <1>5

-----------------------------------------------------------------------------
(* Assignment *)

\* After the assignment of one string of S to another one every buffer has its
\* one owner again, nothing that was freed has been used, the target holds what
\* the source held and no third string has changed.  The source still holds its
\* text too, or is empty if it was a temporary (assign.cpp:212).
THEOREM AssignmentKeepsOwners ==
  ASSUME NEW m, NEW S, StringsOwn(m, S), m.status = "running",
         NEW dst \in S, NEW src \in S, dst # src, NEW category,
         StringAssign(m, dst, src, category).status # "aborted"
  PROVE  LET n == StringAssign(m, dst, src, category)
         IN /\ StringsOwn(n, S)
            /\ n.status = "running"
            /\ TextAt(n, dst) = TextAt(m, src)
            /\ TextAt(n, src) = IF category = "OwnedTemp" THEN <<>> ELSE TextAt(m, src)
            /\ \A b \in S \ {dst, src} : TextAt(n, b) = TextAt(m, b)
            /\ Strays(n, S) = Strays(m, S)
<1> DEFINE d == DestroyS8(m, dst)
           n == StringAssign(m, dst, src, category)
<1>1. n = IF category = "OwnedTemp" THEN MoveS8(d, dst, src) ELSE CopyS8(d, dst, src)
  BY DEF StringAssign, SameValue, MoveOrCopy
<1>2. /\ StringsOwn(d, S) /\ d.status = "running" /\ d.cell[dst] = Empty
      /\ \A b \in S : b # dst => Same(d, m, b)
      /\ Strays(d, S) = Strays(m, S)
  BY DestroyKeepsOwners
<1>3. d.cell[dst].data = Null /\ n.status # "aborted"
  BY <1>2, EmptyString
<1> HIDE DEF d, n
<1>4. CASE category = "OwnedTemp"
  <2>1. n = MoveS8(d, dst, src)
    BY <1>1, <1>4
  <2>2. /\ StringsOwn(n, S) /\ n.status = "running" /\ TextAt(n, dst) = TextAt(d, src)
        /\ TextAt(n, src) = <<>> /\ Strays(n, S) = Strays(d, S)
        /\ \A b \in S \ {dst, src} : Same(n, d, b)
    BY <1>2, <1>3, <2>1, MoveKeepsOwners
  <2> QED
    BY <1>2, <1>4, <2>2 DEF n, Same
<1>5. CASE category # "OwnedTemp"
  <2>1. n = CopyS8(d, dst, src)
    BY <1>1, <1>5
  <2>2. /\ StringsOwn(n, S) /\ n.status = "running" /\ TextAt(n, dst) = TextAt(d, src)
        /\ Strays(n, S) = Strays(d, S)
        /\ \A b \in S : b # dst => Same(n, d, b)
    <3>1. S \cup {dst} = S /\ Vacant(d, S, dst)
      BY <1>3 DEF Vacant
    <3>2. Wrote(CopyS8(d, dst, src), d, S, dst, TextAt(d, src))
      BY <1>2, <1>3, <2>1, <3>1, CopyKeepsOwners
    <3> QED
      BY <2>1, <3>1, <3>2 DEF Wrote
  <2> QED
    BY <1>2, <1>5, <2>2 DEF n, Same
<1> QED
  BY <1>4, <1>5

\* What has gone wrong stays wrong.
LEMMA AssignmentStops ==
  ASSUME NEW m, m.status = "aborted", NEW dst, NEW src, NEW category
  PROVE  StringAssign(m, dst, src, category) = m
BY DEF StringAssign, MoveOrCopy, DestroyS8, MoveS8, CopyS8, Using

\* The temporary t of the statement is moved into dst.
LEMMA TemporaryMoved ==
  ASSUME NEW m, NEW S, NEW t, t \notin S, NEW dst \in S,
         StringsOwn(m, S \cup {t}), m.status = "running",
         NEW n, n = StringAssign(m, dst, t, "OwnedTemp")
  PROVE  /\ StringsOwn(n, S) /\ n.status = "running"
         /\ TextAt(n, dst) = TextAt(m, t) /\ n.cell[t] = Empty
         /\ \A c \in S \ {dst} : TextAt(n, c) = TextAt(m, c)
         /\ Strays(n, S) = Strays(m, S \cup {t})
<1> DEFINE d == DestroyS8(m, dst)
<1>1. n = MoveS8(d, dst, t)
  BY DEF StringAssign, SameValue, MoveOrCopy
<1>2. StringsOwn(d, S \cup {t}) /\ d.status = "running" /\ d.cell[dst] = Empty
  BY DestroyKeepsOwners
<1> HIDE DEF d
<1>3. n = Store(Store(d, dst, d.cell[t]), t, Empty)
  BY <1>1, <1>2 DEF MoveS8, Using, StringsOwn
<1>4. n.cell[t] = Empty
  <2>1. Replaces(Store(d, dst, d.cell[t]), d, dst, d.cell[t])
    BY <1>2, StoreReplaces DEF StringsOwn
  <2>2. Replaces(n, Store(d, dst, d.cell[t]), t, Empty)
    BY <1>3, <2>1, StoreReplaces DEF Replaces
  <2> QED
    BY <2>2 DEF Replaces
<1>5. /\ StringsOwn(n, S \cup {t}) /\ n.status = "running"
      /\ TextAt(n, dst) = TextAt(m, t)
      /\ \A c \in S \ {dst} : TextAt(n, c) = TextAt(m, c)
      /\ Strays(n, S \cup {t}) = Strays(m, S \cup {t})
  <2>1. d.status # "aborted" /\ Empty.data = Null
    BY <1>2, EmptyString
  <2>2. n.status = "running"
    BY <1>1, <1>2, <2>1, MoveKeepsOwners
  <2> DEFINE U == S \cup {t}
             k == StringAssign(m, dst, t, "OwnedTemp")
  <2>3. StringsOwn(m, U) /\ dst \in U /\ t \in U /\ dst # t
    OBVIOUS
  <2>4. k.status # "aborted" /\ "OwnedTemp" \in {"OwnedPlace", "OwnedTemp"} /\ k = n
    BY <2>2
  <2>5. \A c \in S \ {dst} : c \in U \ {dst, t}
    OBVIOUS
  <2> HIDE DEF U
  <2>6. /\ StringsOwn(k, U) /\ k.status = "running"
        /\ TextAt(k, dst) = TextAt(m, t)
        /\ \A c \in U \ {dst, t} : TextAt(k, c) = TextAt(m, c)
        /\ Strays(k, U) = Strays(m, U)
    BY <2>3, <2>4, AssignmentKeepsOwners
  <2> HIDE DEF k
  <2> QED
    BY <2>4, <2>5, <2>6 DEF U
<1>6. StringsOwn(n, S)
  BY <1>5 DEF StringsOwn
<1>7. Strays(n, S) = Strays(n, S \cup {t})
  <2>1. \A b \in Blocks : n.cell[t].data # b
    BY <1>4, EmptyString, HeapAssumption
  <2> QED
    BY <2>1 DEF Strays
<1> QED
  BY <1>4, <1>5, <1>6, <1>7

\* dst = a + b, where dst may be a or b: the sum is made in a temporary and
\* moved.  dst holds both texts, every buffer has its one owner, the temporary
\* none, no other string has changed and nothing leaks (hrd_runtime_string.cpp:71,
\* assign.cpp:212).
THEOREM SumAssigned ==
  ASSUME NEW m, NEW S, StringsOwn(m, S), m.status = "running", NEW T, Texts(m, S, T),
         NEW t, t \notin S, NEW dst \in S, NEW a \in S, NEW b \in S,
         StringAssign(AddS8(m, t, a, b), dst, t, "OwnedTemp").status # "aborted"
  PROVE  LET n == StringAssign(AddS8(m, t, a, b), dst, t, "OwnedTemp")
         IN /\ StringsOwn(n, S) /\ n.status = "running"
            /\ TextAt(n, dst) = TextAt(m, a) \o TextAt(m, b) /\ n.cell[t] = Empty
            /\ \A c \in S \ {dst} : TextAt(n, c) = TextAt(m, c)
            /\ Strays(n, S) = Strays(m, S)
<1> DEFINE sum == AddS8(m, t, a, b)
           n   == StringAssign(sum, dst, t, "OwnedTemp")
<1>1. sum.status # "aborted"
  BY AssignmentStops
<1>2. Wrote(sum, m, S, t, TextAt(m, a) \o TextAt(m, b))
  BY <1>1, SumKeepsOwners DEF Vacant
<1> HIDE DEF sum
<1>3. /\ StringsOwn(n, S) /\ n.status = "running"
      /\ TextAt(n, dst) = TextAt(sum, t) /\ n.cell[t] = Empty
      /\ \A c \in S \ {dst} : TextAt(n, c) = TextAt(sum, c)
      /\ Strays(n, S) = Strays(sum, S \cup {t})
  <2> HIDE DEF n
  <2> QED
    BY <1>2, TemporaryMoved DEF n, Wrote
<1> QED
  BY <1>2, <1>3 DEF Wrote, Same, sum

\* dst = "text": the literal is made in a temporary and moved.
THEOREM LiteralAssigned ==
  ASSUME NEW m, NEW S, StringsOwn(m, S), m.status = "running",
         NEW T, NEW text \in Seq(T), NEW t, t \notin S, NEW dst \in S,
         StringAssign(FromLiteral(m, t, text), dst, t, "OwnedTemp").status # "aborted"
  PROVE  LET n == StringAssign(FromLiteral(m, t, text), dst, t, "OwnedTemp")
         IN /\ StringsOwn(n, S) /\ n.status = "running"
            /\ TextAt(n, dst) = text /\ n.cell[t] = Empty
            /\ \A c \in S \ {dst} : TextAt(n, c) = TextAt(m, c)
            /\ Strays(n, S) = Strays(m, S)
<1> DEFINE made == FromLiteral(m, t, text)
           n    == StringAssign(made, dst, t, "OwnedTemp")
<1>1. made.status # "aborted"
  BY AssignmentStops
<1>2. Wrote(made, m, S, t, text)
  BY <1>1, LiteralKeepsOwners DEF Vacant
<1> HIDE DEF made
<1>3. /\ StringsOwn(n, S) /\ n.status = "running"
      /\ TextAt(n, dst) = TextAt(made, t) /\ n.cell[t] = Empty
      /\ \A c \in S \ {dst} : TextAt(n, c) = TextAt(made, c)
      /\ Strays(n, S) = Strays(made, S \cup {t})
  <2> HIDE DEF n
  <2> QED
    BY <1>2, TemporaryMoved DEF n, Wrote
<1> QED
  BY <1>2, <1>3 DEF Wrote, Same, made

\* Two strings are equal if and only if their texts are, and the comparison
\* reads no buffer that has been freed (hrd_eq_s8).
THEOREM EqualityIsOfTexts ==
  ASSUME NEW m, NEW S, StringsOwn(m, S), NEW a \in S, NEW b \in S,
         NEW T, Texts(m, S, T)
  PROVE  /\ EqS8(m, m.cell[a], m.cell[b]) <=> TextAt(m, a) = TextAt(m, b)
         /\ CheckEqS8(m, m.cell[a], m.cell[b]) = m
<1>1. ASSUME NEW c \in {a, b}
      PROVE  /\ m.cell[c].len = Len(TextAt(m, c)) /\ m.cell[c].len \in Nat
             /\ m.cell[c].data = Null <=> m.cell[c].len = 0
             /\ m.cell[c].data # Null => /\ Readable(m, m.cell[c])
                                         /\ TextAt(m, c) = m.text[m.cell[c].data]
             /\ m.cell[c].data = Null => TextAt(m, c) = <<>>
  BY <1>1 DEF StringsOwn, Sound, String, Readable, TextAt
<1>2. CASE m.cell[a].len # m.cell[b].len
  BY <1>1, <1>2 DEF EqS8, CheckEqS8, ComparesBuffers
<1>3. CASE m.cell[a].len = m.cell[b].len
  BY <1>1, <1>3 DEF EqS8, CheckEqS8, ComparesBuffers
<1> QED
  BY <1>2, <1>3

\* A string assigned to itself through two computations of its address, as a
\* field is in this.s = this.s, ends empty: it is destroyed before it is copied
\* (assign.cpp:214).
THEOREM AssignedToItselfIsLost ==
  ASSUME NEW m, NEW S, StringsOwn(m, S), m.status = "running",
         NEW a \in S, ~a.slot \/ a.path # <<>>
  PROVE  TextAt(StringAssign(m, a, a, "Borrowed"), a) = <<>>
<1> DEFINE d == DestroyS8(m, a)
           n == StringAssign(m, a, a, "Borrowed")
<1>1. n = CopyS8(d, a, a)
  BY DEF StringAssign, SameValue, MoveOrCopy
<1>2. StringsOwn(d, S) /\ d.status = "running" /\ d.cell[a] = Empty
  BY DestroyKeepsOwners
<1> HIDE DEF d, n
<1>3. IsMemory(d) /\ n = Store(d, a, Empty)
  BY <1>1, <1>2, EmptyString DEF CopyS8, Using, StringsOwn
<1>4. Replaces(n, d, a, Empty)
  BY <1>3, StoreReplaces
<1> QED
  BY <1>4, EmptyString DEF n, Replaces, TextAt

-----------------------------------------------------------------------------
(* What a step of the runtime leaves alone. *)

Fields(m) ==
  /\ m = [f \in DOMAIN m |-> m[f]]
  /\ {"cell", "block", "text", "status", "temps"} \subseteq DOMAIN m

\* Nothing but the cells at A has been written between m and n, as far as cells
\* and temporaries go.
Frames(n, m, A) ==
  /\ n = [f \in DOMAIN m |-> n[f]]
  /\ n.temps = m.temps
  /\ DOMAIN m.cell \subseteq DOMAIN n.cell
  /\ \A x \in DOMAIN n.cell : x \in DOMAIN m.cell \cup A
  /\ \A x \in DOMAIN m.cell : x \notin A => n.cell[x] = m.cell[x]

\* The fields of a memory stay.
LEMMA FramesFields ==
  ASSUME NEW m, Fields(m), NEW n, NEW A, Frames(n, m, A)
  PROVE  Fields(n)
<1>1. DOMAIN n = DOMAIN m
  BY DEF Frames
<1> QED
  BY <1>1 DEF Frames, Fields

LEMMA FramesCompose ==
  ASSUME NEW m, Fields(m), NEW n, NEW k, NEW A, NEW B, NEW C, A \subseteq C, B \subseteq C,
         Frames(n, m, A), Frames(k, n, B)
  PROVE  Frames(k, m, C)
<1>1. DOMAIN n = DOMAIN m
  BY DEF Frames
<1>2. k = [f \in DOMAIN m |-> k[f]]
  BY <1>1 DEF Frames
<1> QED
  BY <1>2 DEF Frames

\* A step that fails, or does nothing, writes no cell.
LEMMA NothingFrames ==
  ASSUME NEW m, Fields(m), NEW A
  PROVE  Frames(m, m, A) /\ Frames(Abort(m), m, A) /\ Frames(Corrupt(m), m, A)
BY DEF Fields, Frames, Abort, Corrupt

LEMMA StoreFrames ==
  ASSUME NEW m, Fields(m), NEW a, NEW v, NEW A, a \in A
  PROVE  Frames(Store(m, a, v), m, A)
BY DEF Fields, Frames, Store

LEMMA MallocFrames ==
  ASSUME NEW m, Fields(m), NEW b, NEW text, NEW A
  PROVE  Frames(Malloc(m, b, text), m, A)
BY DEF Fields, Frames, Malloc

LEMMA FreeFrames ==
  ASSUME NEW m, Fields(m), NEW b, NEW A
  PROVE  Frames(Free(m, b), m, A)
<1>1. CASE b = Null \/ ~(b \in Blocks /\ m.block[b] = "live")
  BY <1>1, NothingFrames DEF Free
<1>2. CASE b # Null /\ b \in Blocks /\ m.block[b] = "live"
  BY <1>2 DEF Fields, Frames, Free
<1> QED
  BY <1>1, <1>2

LEMMA FillFrames ==
  ASSUME NEW m, Fields(m), NEW out, NEW text, NEW A, out \in A
  PROVE  Frames(Fill(m, out, text), m, A)
<1>1. CASE Unused(m) = {}
  BY <1>1, NothingFrames DEF Fill
<1>2. CASE Unused(m) # {}
  <2> DEFINE new == NewBlock(m)
             allocated == Malloc(m, new, text)
  <2>1. Fill(m, out, text) = Store(allocated, out, [data |-> new, len |-> Len(text)])
    BY <1>2 DEF Fill
  <2>2. Frames(allocated, m, A)
    BY MallocFrames
  <2> HIDE DEF new, allocated
  <2>3. Frames(Fill(m, out, text), allocated, A)
    BY <2>1, <2>2, FramesFields, StoreFrames
  <2> QED
    BY <2>2, <2>3, FramesCompose
<1> QED
  BY <1>1, <1>2

LEMMA LiteralFrames ==
  ASSUME NEW m, Fields(m), NEW out, NEW text, NEW A, out \in A
  PROVE  Frames(FromLiteral(m, out, text), m, A)
BY StoreFrames, FillFrames DEF FromLiteral

LEMMA CopyFrames ==
  ASSUME NEW m, Fields(m), NEW out, NEW src, NEW A, out \in A
  PROVE  Frames(CopyS8(m, out, src), m, A)
BY StoreFrames, FillFrames, NothingFrames DEF CopyS8, Using

LEMMA MoveFrames ==
  ASSUME NEW m, Fields(m), NEW out, NEW src, NEW A, out \in A, src \in A
  PROVE  Frames(MoveS8(m, out, src), m, A)
<1> DEFINE stored == Store(m, out, m.cell[src])
<1>1. Frames(stored, m, A)
  BY StoreFrames
<1> HIDE DEF stored
<1>2. Frames(Store(stored, src, Empty), stored, A)
  BY <1>1, FramesFields, StoreFrames
<1>3. Frames(Store(stored, src, Empty), m, A)
  BY <1>1, <1>2, FramesCompose
<1> QED
  BY <1>3, NothingFrames DEF MoveS8, Using, stored

LEMMA DestroyFrames ==
  ASSUME NEW m, Fields(m), NEW a, NEW A, a \in A
  PROVE  Frames(DestroyS8(m, a), m, A)
<1> DEFINE freed == Free(m, m.cell[a].data)
<1>1. Frames(freed, m, A)
  BY FreeFrames
<1> HIDE DEF freed
<1>2. Frames(Store(freed, a, Empty), freed, A)
  BY <1>1, FramesFields, StoreFrames
<1>3. Frames(Store(freed, a, Empty), m, A)
  BY <1>1, <1>2, FramesCompose
<1> QED
  BY <1>3, NothingFrames DEF DestroyS8, Using, freed

LEMMA SumFrames ==
  ASSUME NEW m, Fields(m), NEW out, NEW a, NEW b, NEW A, out \in A
  PROVE  Frames(AddS8(m, out, a, b), m, A)
BY CopyFrames, FillFrames, NothingFrames DEF AddS8, Using

LEMMA AssignmentFrames ==
  ASSUME NEW m, Fields(m), NEW dst, NEW src, NEW category, NEW A, dst \in A, src \in A
  PROVE  Frames(StringAssign(m, dst, src, category), m, A)
<1> DEFINE d == DestroyS8(m, dst)
<1>1. Frames(d, m, A) /\ Fields(d)
  BY DestroyFrames, FramesFields
<1> HIDE DEF d
<1>2. Frames(MoveOrCopy(d, dst, src, category), d, A)
  BY <1>1, MoveFrames, CopyFrames DEF MoveOrCopy
<1>3. Frames(MoveOrCopy(d, dst, src, category), m, A)
  BY <1>1, <1>2, FramesCompose
<1> QED
  BY <1>3, NothingFrames DEF StringAssign, d

-----------------------------------------------------------------------------
(* Strings and enums in one memory. *)

Enum == [tag : Nat, payload : Blocks \cup {Null}]

\* An address in a heap block is that of the string in a payload, and the block
\* is the buffer of no string.
Housed(m, S, a) == a \in S /\ a = PayloadAddr(a.root) /\ a.root \in Strays(m, S)

\* The strings at S own their buffers, and the enums at E the blocks of their
\* payloads, which are strings of S.
Owns(m, S, E) ==
  /\ StringsOwn(m, S) /\ Texts(m, S, Chars)
  /\ E \subseteq DOMAIN m.cell /\ S \cap E = {}
  /\ \A e \in E : /\ m.cell[e] \in Enum
                  /\ m.cell[e].payload = Null <=> m.cell[e].tag = 1
                  /\ m.cell[e].payload # Null => PayloadOf(m, e) \in S
  /\ \A d, e \in E : d # e /\ m.cell[d].payload = m.cell[e].payload => m.cell[d].payload = Null
  /\ \A a \in DOMAIN m.cell : a.root \in Blocks => Housed(m, S, a)

\* The live blocks that nothing owns.
Orphans(m, S, E) == {b \in Strays(m, S) : \A e \in E : m.cell[e].payload # b}

LEMMA Addresses ==
  ASSUME NEW b
  PROVE  /\ PayloadAddr(b).root = b
         /\ \A n : TempAddr(n).root = "temp" /\ TempAddr(n).path = <<n>>
BY DEF PayloadAddr, TempAddr

\* A step on strings: the enums stay, and nothing is orphaned.
LEMMA StringStep ==
  ASSUME NEW m, NEW S, NEW E, Owns(m, S, E), NEW n, NEW A, Frames(n, m, A),
         NEW U, S \subseteq U, A \subseteq U, U \cap E = {},
         \A a \in U : a \notin S /\ a.root \in Blocks =>
            a = PayloadAddr(a.root) /\ a.root \in Strays(m, S),
         StringsOwn(n, U), Texts(n, U, Chars), Strays(n, U) = Strays(m, S)
  PROVE  /\ Owns(n, U, E) /\ Orphans(n, U, E) = Orphans(m, S, E)
         /\ \A e \in E : n.cell[e] = m.cell[e]
<1>1. \A e \in E : e \in DOMAIN n.cell /\ n.cell[e] = m.cell[e]
  BY DEF Owns, Frames
<1>2. \A e \in E : PayloadOf(n, e) = PayloadOf(m, e)
  BY <1>1 DEF PayloadOf
<1>3. \A a \in DOMAIN n.cell : a.root \in Blocks => Housed(n, U, a)
  <2> SUFFICES ASSUME NEW a \in DOMAIN n.cell, a.root \in Blocks PROVE Housed(n, U, a)
    OBVIOUS
  <2>1. a \in DOMAIN m.cell \/ a \in A
    BY DEF Frames
  <2>2. CASE a \in DOMAIN m.cell
    BY <2>2 DEF Owns, Housed
  <2>3. CASE a \in A
    <3>1. S \subseteq DOMAIN m.cell
      BY DEF Owns, StringsOwn
    <3>2. a \in S => Housed(m, S, a)
      BY <3>1 DEF Owns
    <3> QED
      BY <2>3, <3>2 DEF Housed
  <2> QED
    BY <2>1, <2>2, <2>3
<1>4. Owns(n, U, E)
  BY <1>1, <1>2, <1>3 DEF Owns
<1>5. Orphans(n, U, E) = Orphans(m, S, E)
  BY <1>1 DEF Orphans
<1> QED
  BY <1>1, <1>4, <1>5

\* What a string says only depends on its cell and its buffer.
LEMMA WroteTexts ==
  ASSUME NEW m, NEW S, Texts(m, S, Chars), NEW out, NEW text \in Seq(Chars),
         NEW n, Wrote(n, m, S, out, text)
  PROVE  Texts(n, S \cup {out}, Chars)
BY DEF Texts, Wrote, Same

\* n is m after the string at out has been given a text.
Writes(n, m, S, out, text) ==
  text \in Seq(Chars) /\ Wrote(n, m, S, out, text) /\ Frames(n, m, {out})

\* A string is written, in its place among the strings or in a new one.
LEMMA WrittenOwns ==
  ASSUME NEW m, NEW S, NEW E, Owns(m, S, E), NEW out, out \notin E,
         out \in S \/ out.root \notin Blocks,
         NEW text, NEW n, Writes(n, m, S, out, text)
  PROVE  /\ Owns(n, S \cup {out}, E)
         /\ Orphans(n, S \cup {out}, E) = Orphans(m, S, E)
         /\ \A e \in E : n.cell[e] = m.cell[e]
<1> DEFINE U == S \cup {out}
<1>1. StringsOwn(n, U) /\ Strays(n, U) = Strays(m, S) /\ Texts(n, U, Chars)
  BY WroteTexts DEF Writes, Wrote, Owns
<1>2. S \subseteq U /\ {out} \subseteq U /\ U \cap E = {}
  BY DEF Owns
<1>3. Frames(n, m, {out})
  BY DEF Writes
<1>4. \A a \in U : a \notin S => a = out
  OBVIOUS
<1> HIDE DEF U
<1>5. Owns(n, U, E) /\ Orphans(n, U, E) = Orphans(m, S, E) /\ \A e \in E : n.cell[e] = m.cell[e]
  BY <1>3, <1>1, <1>2, <1>4, StringStep
<1> QED
  BY <1>5 DEF U

\* The blocks that the strings of S use.
Uses(m, S, b) == (\E a \in S : m.cell[a].data = b) \/ PayloadAddr(b) \in S

\* n differs from m in blocks that are not used.
Spares(n, m, S) ==
  /\ IsMemory(n) /\ n.cell = m.cell
  /\ \A b \in Blocks : Uses(m, S, b) /\ m.block[b] = "live" =>
        n.block[b] = "live" /\ n.text[b] = m.text[b]

LEMMA OwnsUsed ==
  ASSUME NEW m, NEW S, NEW E, Owns(m, S, E), NEW n, Spares(n, m, S)
  PROVE  Owns(n, S, E) /\ \A a \in S : TextAt(n, a) = TextAt(m, a)
<1>1. /\ IsMemory(n) /\ n.cell = m.cell
      /\ \A b \in Blocks : Uses(m, S, b) /\ m.block[b] = "live" =>
            n.block[b] = "live" /\ n.text[b] = m.text[b]
  BY DEF Spares
<1>2. \A a \in S : /\ m.cell[a] \in String /\ Sound(m, m.cell[a])
                   /\ TextAt(m, a) \in Seq(Chars)
  BY DEF Owns, StringsOwn, Texts
<1>3. \A a \in S : Sound(n, n.cell[a]) /\ TextAt(n, a) = TextAt(m, a)
  <2> SUFFICES ASSUME NEW a \in S PROVE Sound(n, n.cell[a]) /\ TextAt(n, a) = TextAt(m, a)
    OBVIOUS
  <2>1. CASE m.cell[a].data = Null
    BY <1>1, <1>2, <2>1 DEF Sound, TextAt
  <2>2. CASE m.cell[a].data # Null
    <3> DEFINE b == m.cell[a].data
    <3>1. b \in Blocks /\ m.block[b] = "live"
      BY <1>2, <2>2 DEF String, Sound
    <3>2. Uses(m, S, b)
      BY DEF Uses
    <3>3. n.block[b] = "live" /\ n.text[b] = m.text[b]
      BY <1>1, <3>1, <3>2
    <3> QED
      BY <1>1, <1>2, <2>2, <3>1, <3>3 DEF Sound, TextAt
  <2> QED
    BY <2>1, <2>2
<1>4. StringsOwn(n, S)
  BY <1>1, <1>2, <1>3 DEF Owns, StringsOwn
<1>5. Texts(n, S, Chars)
  BY <1>2, <1>3 DEF Texts
<1>6. \A a \in DOMAIN n.cell : a.root \in Blocks => Housed(n, S, a)
  <2> SUFFICES ASSUME NEW a \in DOMAIN n.cell, a.root \in Blocks PROVE Housed(n, S, a)
    OBVIOUS
  <2>1. Housed(m, S, a)
    BY <1>1 DEF Owns
  <2>2. Uses(m, S, a.root) /\ m.block[a.root] = "live"
    BY <2>1 DEF Uses, Housed, Strays
  <2>3. n.block[a.root] = "live"
    BY <1>1, <2>2
  <2> QED
    BY <1>1, <2>1, <2>3 DEF Housed, Strays
<1> QED
  BY <1>1, <1>3, <1>4, <1>5, <1>6 DEF Owns, PayloadOf

-----------------------------------------------------------------------------
(* Single steps on the memory of enums. *)

\* The payload of v is a string of S, and that of no other enum than out.
Fits(m, S, E, out, v) ==
  /\ out \notin S /\ out.root \notin Blocks
  /\ v \in Enum
  /\ v.payload = Null <=> v.tag = 1
  /\ v.payload # Null => /\ PayloadAddr(v.payload) \in S
                         /\ \A e \in E : e # out => m.cell[e].payload # v.payload

\* In n the enum at out is v; the strings are as they were.
EnumIs(n, m, S, E, out, v) ==
  /\ Owns(n, S, E \cup {out}) /\ Replaces(n, m, out, v)
  /\ Strays(n, S) = Strays(m, S)
  /\ \A a \in S : Same(n, m, a)

\* An enum is written over one that owned nothing, or is new.
LEMMA EnumStored ==
  ASSUME NEW m, NEW S, NEW E, Owns(m, S, E), NEW out, NEW v, Fits(m, S, E, out, v)
  PROVE  EnumIs(Store(m, out, v), m, S, E, out, v)
<1> DEFINE n == Store(m, out, v)
<1> /\ out \notin S /\ out.root \notin Blocks /\ v \in Enum
    /\ v.payload = Null <=> v.tag = 1
    /\ v.payload # Null => /\ PayloadAddr(v.payload) \in S
                           /\ \A e \in E : e # out => m.cell[e].payload # v.payload
  BY DEF Fits
<1>1. IsMemory(m) /\ S \subseteq DOMAIN m.cell
  BY DEF Owns, StringsOwn
<1>2. Replaces(n, m, out, v)
  BY <1>1, StoreReplaces
<1> HIDE DEF n
<1>3. /\ IsMemory(n) /\ n.block = m.block /\ n.text = m.text
      /\ DOMAIN n.cell = DOMAIN m.cell \cup {out} /\ n.cell[out] = v
      /\ \A a \in DOMAIN m.cell : a # out => n.cell[a] = m.cell[a]
  BY <1>2 DEF Replaces
<1>4. \A a \in S : n.cell[a] = m.cell[a]
  BY <1>1, <1>3
<1>5. \A a \in S : Same(n, m, a)
  BY <1>3, <1>4 DEF Same, TextAt
<1>6. StringsOwn(n, S)
  BY <1>1, <1>3, <1>4 DEF Owns, StringsOwn, Sound
<1>7. Texts(n, S, Chars)
  BY <1>5 DEF Owns, Texts, Same
<1>8. Strays(n, S) = Strays(m, S)
  BY <1>3, <1>4 DEF Strays
<1>9. ASSUME NEW e \in E \cup {out}
      PROVE  /\ e \in DOMAIN n.cell /\ n.cell[e] \in Enum
             /\ n.cell[e].payload = Null <=> n.cell[e].tag = 1
             /\ n.cell[e].payload # Null => PayloadOf(n, e) \in S
  <2>1. CASE e = out
    BY <1>3, <2>1 DEF PayloadOf
  <2>2. CASE e # out
    BY <1>3, <2>2 DEF Owns, PayloadOf
  <2> QED
    BY <2>1, <2>2
<1>10. ASSUME NEW d \in E \cup {out}, NEW e \in E \cup {out}, d # e,
              n.cell[d].payload = n.cell[e].payload
       PROVE  n.cell[d].payload = Null
  <2>1. \A x \in E : x # out => n.cell[x] = m.cell[x]
    BY <1>3 DEF Owns
  <2>2. CASE d # out /\ e # out
    BY <1>10, <2>1, <2>2 DEF Owns
  <2>3. CASE d = out \/ e = out
    BY <1>3, <1>10, <2>1, <2>3
  <2> QED
    BY <2>2, <2>3
<1>11. \A a \in DOMAIN n.cell : a.root \in Blocks => Housed(n, S, a)
  BY <1>3, <1>8 DEF Owns, Housed
<1>12. S \cap (E \cup {out}) = {} /\ E \cup {out} \subseteq DOMAIN n.cell
  BY <1>9 DEF Owns
<1>13. Owns(n, S, E \cup {out})
  BY <1>6, <1>7, <1>9, <1>10, <1>11, <1>12 DEF Owns
<1> QED
  BY <1>2, <1>5, <1>8, <1>13 DEF EnumIs, n

\* What is left when the cells at A are gone.
LEMMA WithoutFields ==
  ASSUME NEW m, IsMemory(m), NEW A
  PROVE  /\ IsMemory(Without(m, A))
         /\ Without(m, A).block = m.block /\ Without(m, A).text = m.text
         /\ Without(m, A).status = m.status
         /\ DOMAIN Without(m, A).cell = DOMAIN m.cell \ A
         /\ \A a \in DOMAIN m.cell \ A : Without(m, A).cell[a] = m.cell[a]
         /\ "temps" \in DOMAIN m => /\ Without(m, A).temps = m.temps
                                    /\ "temps" \in DOMAIN Without(m, A)
BY DEF IsMemory, Without

\* Without A, no enum that is left lacks its payload.
SparesPayloads(m, E, A) ==
  \A e \in E \ A : m.cell[e].payload # Null => PayloadOf(m, e) \notin A

\* The strings at A own nothing.
AllEmpty(m, S, A) == \A a \in S \cap A : m.cell[a].data = Null

\* Strings and enums are forgotten; no payload before its enum.
LEMMA Forgotten ==
  ASSUME NEW m, NEW S, NEW E, Owns(m, S, E), NEW A,
         SparesPayloads(m, E, A)
  PROVE  /\ Owns(Without(m, A), S \ A, E \ A)
         /\ \A b \in Strays(m, S) : b \in Strays(Without(m, A), S \ A)
         /\ \A a \in S \ A : Same(Without(m, A), m, a)
<1> DEFINE n == Without(m, A)
<1>1. IsMemory(m) /\ S \subseteq DOMAIN m.cell /\ E \subseteq DOMAIN m.cell
  BY DEF Owns, StringsOwn
<1>2. /\ IsMemory(n) /\ n.block = m.block /\ n.text = m.text
      /\ DOMAIN n.cell = DOMAIN m.cell \ A
      /\ \A a \in DOMAIN m.cell \ A : n.cell[a] = m.cell[a]
  BY <1>1, WithoutFields
<1> HIDE DEF n
<1>3. \A a \in S \ A : a \in DOMAIN n.cell /\ n.cell[a] = m.cell[a] /\ Same(n, m, a)
  BY <1>1, <1>2 DEF Same, TextAt
<1>4. StringsOwn(n, S \ A)
  BY <1>2, <1>3 DEF Owns, StringsOwn, Sound
<1>5. Texts(n, S \ A, Chars)
  BY <1>3 DEF Owns, Texts, Same
<1>6. \A e \in E \ A : e \in DOMAIN n.cell /\ n.cell[e] = m.cell[e] /\ PayloadOf(n, e) = PayloadOf(m, e)
  BY <1>1, <1>2 DEF PayloadOf
<1>7. \A b \in Strays(m, S) : b \in Strays(n, S \ A)
  BY <1>2, <1>3 DEF Strays
<1>8. \A a \in DOMAIN n.cell : a.root \in Blocks => Housed(n, S \ A, a)
  BY <1>2, <1>7 DEF Owns, Housed
<1>9. Owns(n, S \ A, E \ A)
  <2>1. (S \ A) \cap (E \ A) = {} /\ E \ A \subseteq DOMAIN n.cell
    BY <1>6 DEF Owns
  <2>2. \A e \in E \ A : /\ n.cell[e] \in Enum
                         /\ n.cell[e].payload = Null <=> n.cell[e].tag = 1
                         /\ n.cell[e].payload # Null => PayloadOf(n, e) \in S \ A
    BY <1>6 DEF Owns, SparesPayloads
  <2>3. \A d, e \in E \ A : d # e /\ n.cell[d].payload = n.cell[e].payload => n.cell[d].payload = Null
    BY <1>6 DEF Owns
  <2> QED
    BY <1>4, <1>5, <1>8, <2>1, <2>2, <2>3 DEF Owns
<1> QED
  BY <1>3, <1>7, <1>9 DEF n

\* Strings without buffers leave nothing behind.
LEMMA ForgottenEmpty ==
  ASSUME NEW m, NEW S, NEW E, Owns(m, S, E), NEW A, SparesPayloads(m, E, A), AllEmpty(m, S, A)
  PROVE  Strays(Without(m, A), S \ A) = Strays(m, S)
<1> DEFINE n == Without(m, A)
<1>1. n.block = m.block /\ \A c \in S \ A : n.cell[c] = m.cell[c]
  BY WithoutFields DEF Owns, StringsOwn
<1>2. \A b \in Strays(m, S) : b \in Strays(n, S \ A)
  BY Forgotten
<1> HIDE DEF n
<1>3. ASSUME NEW b \in Strays(n, S \ A), NEW a \in S PROVE m.cell[a].data # b
  <2>1. b \in Blocks /\ b # Null /\ \A c \in S \ A : n.cell[c].data # b
    BY HeapAssumption DEF Strays
  <2>2. CASE a \in A
    BY <2>1, <2>2 DEF AllEmpty
  <2>3. CASE a \notin A
    BY <1>1, <2>1, <2>3
  <2> QED
    BY <2>2, <2>3
<1>4. Strays(n, S \ A) = Strays(m, S)
  BY <1>1, <1>2, <1>3 DEF Strays
<1> QED
  BY <1>4 DEF n

\* A block that is no payload any more is freed.
LEMMA StrayFreed ==
  ASSUME NEW m, NEW S, NEW E, Owns(m, S, E), NEW b \in Strays(m, S), PayloadAddr(b) \notin S
  PROVE  /\ Owns(Free(m, b), S, E) /\ \A a \in S : Same(Free(m, b), m, a)
         /\ Free(m, b).cell = m.cell /\ Free(m, b).status = m.status
         /\ \A c \in Blocks : c \in Strays(Free(m, b), S) <=> c \in Strays(m, S) /\ c # b
<1> DEFINE n == Free(m, b)
<1>1. IsMemory(m) /\ b \in Blocks /\ m.block[b] = "live" /\ ~Uses(m, S, b)
  BY DEF Owns, StringsOwn, Strays, Uses
<1>2. /\ IsMemory(n) /\ n.cell = m.cell /\ n.status = m.status
      /\ n.block = [m.block EXCEPT ![b] = "freed"]
      /\ n.text = [m.text EXCEPT ![b] = <<>>]
  BY <1>1, FreeFields
<1> HIDE DEF n
<1>3. \A c \in Blocks : c # b => n.block[c] = m.block[c] /\ n.text[c] = m.text[c]
  BY <1>1, <1>2 DEF IsMemory
<1>4. n.block[b] = "freed"
  BY <1>1, <1>2 DEF IsMemory
<1>5. Spares(n, m, S)
  BY <1>1, <1>2, <1>3 DEF Spares
<1>6. Owns(n, S, E) /\ \A a \in S : TextAt(n, a) = TextAt(m, a)
  BY <1>5, OwnsUsed
<1>7. \A c \in Blocks : c \in Strays(n, S) <=> c \in Strays(m, S) /\ c # b
  BY <1>2, <1>3, <1>4 DEF Strays
<1> QED
  BY <1>2, <1>6, <1>7 DEF n, Same

\* In n the block b, which was unused, is a payload: the empty string.
PayloadIs(n, m, S, E, b) ==
  /\ PayloadAddr(b) \notin DOMAIN m.cell
  /\ \A e \in E : m.cell[e].payload # b
  /\ Owns(n, S \cup {PayloadAddr(b)}, E)
  /\ Frames(n, m, {PayloadAddr(b)})
  /\ n.status = "running"
  /\ \A a \in S : Same(n, m, a)
  /\ \A c \in Blocks : c \in Strays(n, S \cup {PayloadAddr(b)}) <=> c \in Strays(m, S) \/ c = b

\* A zeroed payload is a new string, the only one in its block.
LEMMA PayloadMade ==
  ASSUME NEW m, NEW S, NEW E, Owns(m, S, E), Fields(m), m.status = "running",
         NEW b \in Blocks, m.block[b] = "unused"
  PROVE  PayloadIs(NewPayload(m, b), m, S, E, b)
<1> DEFINE p == PayloadAddr(b)
           k == Malloc(m, b, <<>>)
           n == NewPayload(m, b)
<1>1. /\ IsMemory(m) /\ S \subseteq DOMAIN m.cell /\ b \notin Strays(m, S)
      /\ \A a \in S : m.cell[a] \in String /\ Sound(m, m.cell[a])
  BY DEF Owns, StringsOwn, Strays
<1>2. p.root = b
  BY Addresses
<1>3. p \notin DOMAIN m.cell /\ p \notin S /\ p \notin E
  BY <1>1, <1>2 DEF Owns, Housed
<1>4. \A e \in E : m.cell[e].payload # b
  BY <1>3, HeapAssumption DEF Owns, PayloadOf
<1>5. ~Uses(m, S, b)
  BY <1>1, <1>3, HeapAssumption DEF Uses, Sound
<1>6. /\ IsMemory(k) /\ k.cell = m.cell /\ k.status = m.status
      /\ k.block = [m.block EXCEPT ![b] = "live"]
      /\ k.text = [m.text EXCEPT ![b] = <<>>]
  BY <1>1, MallocFields
<1>7. Frames(k, m, {p}) /\ Fields(k)
  BY MallocFrames, FramesFields
<1>8. n = Store(k, p, Empty)
  BY DEF NewPayload
<1> HIDE DEF p, k, n
<1>9. \A c \in Blocks : c # b => k.block[c] = m.block[c] /\ k.text[c] = m.text[c]
  BY <1>1, <1>6 DEF IsMemory
<1>10. k.block[b] = "live"
  BY <1>1, <1>6 DEF IsMemory
<1>11. Owns(k, S, E) /\ \A a \in S : TextAt(k, a) = TextAt(m, a)
  <2>1. Spares(k, m, S)
    BY <1>5, <1>6, <1>9 DEF Spares
  <2> QED
    BY <2>1, OwnsUsed
<1>12. \A c \in Blocks : c \in Strays(k, S) <=> c \in Strays(m, S) \/ c = b
  <2>1. \A a \in S : k.cell[a].data # b
    BY <1>5, <1>6 DEF Uses
  <2> QED
    BY <1>6, <1>9, <1>10, <2>1 DEF Strays
<1>13. Wrote(n, k, S, p, <<>>)
  <2>1. StringsOwn(k, S) /\ Vacant(k, S, p) /\ k.status = "running"
    BY <1>3, <1>6, <1>11 DEF Owns, Vacant
  <2> QED
    BY <1>8, <2>1, EmptyKeepsOwners
<1>14. Frames(n, k, {p}) /\ Frames(n, m, {p})
  <2>1. Frames(n, k, {p})
    BY <1>7, <1>8, StoreFrames
  <2> QED
    BY <1>7, <2>1, FramesCompose
<1>15. Owns(n, S \cup {p}, E) /\ Strays(n, S \cup {p}) = Strays(k, S)
  <2> DEFINE U == S \cup {p}
  <2>1. <<>> \in Seq(Chars) /\ Texts(k, S, Chars)
    BY <1>11 DEF Owns
  <2>2. StringsOwn(n, U) /\ Strays(n, U) = Strays(k, S) /\ Texts(n, U, Chars)
    BY <1>13, <2>1, WroteTexts DEF Wrote
  <2>3. S \subseteq U /\ {p} \subseteq U /\ U \cap E = {}
    BY <1>3 DEF Owns
  <2>4. \A a \in U : a \notin S /\ a.root \in Blocks =>
           a = PayloadAddr(a.root) /\ a.root \in Strays(k, S)
    BY <1>2, <1>12 DEF p
  <2> HIDE DEF U
  <2>5. Owns(n, U, E)
    BY <1>11, <1>14, <2>2, <2>3, <2>4, StringStep
  <2> QED
    BY <2>2, <2>5 DEF U
<1>16. n.status = "running" /\ \A a \in S : Same(n, m, a)
  BY <1>3, <1>6, <1>11, <1>13 DEF Wrote, Same
<1> QED
  BY <1>3, <1>4, <1>12, <1>14, <1>15, <1>16 DEF PayloadIs, n, p

-----------------------------------------------------------------------------
(* The destruction, creation and assignment of enums. *)

\* From m with the strings S and the enums E to n with U and F: the latter own
\* what they have, nothing is orphaned and no other cell is left.
Steps(n, U, F, m, S, E) ==
  /\ Fields(n) /\ n.temps = m.temps /\ n.status = "running"
  /\ Owns(n, U, F)
  /\ \A b \in Orphans(n, U, F) : b \in Orphans(m, S, E)
  /\ DOMAIN m.cell \subseteq S \cup E => DOMAIN n.cell \subseteq U \cup F

\* Enums that are not looked at any more.
LEMMA EnumDropped ==
  ASSUME NEW m, NEW S, NEW E, Owns(m, S, E), NEW a
  PROVE  Owns(m, S, E \ {a})
BY DEF Owns

\* The fields stay, and the number of temporaries.
LEMMA FieldsKept ==
  ASSUME NEW m, Fields(m), NEW a, NEW v, NEW A, NEW b
  PROVE  /\ Fields(Store(m, a, v)) /\ Store(m, a, v).temps = m.temps
         /\ Fields(Without(m, A)) /\ Without(m, A).temps = m.temps
         /\ Fields(Free(m, b)) /\ Free(m, b).temps = m.temps
<1>1. Fields(Store(m, a, v)) /\ Store(m, a, v).temps = m.temps
  BY DEF Fields, Store
<1>2. Fields(Without(m, A)) /\ Without(m, A).temps = m.temps
  BY DEF Fields, Without
<1>3. Fields(Free(m, b)) /\ Free(m, b).temps = m.temps
  BY FreeFrames, FramesFields DEF Frames
<1> QED
  BY <1>1, <1>2, <1>3

\* A block is freed before or after its cell is forgotten.
LEMMA UpdatesCommute ==
  ASSUME NEW m, m = [f \in DOMAIN m |-> m[f]], NEW B, NEW T, NEW X
  PROVE  [[m EXCEPT !.block = B, !.text = T] EXCEPT !.cell = X]
           = [[m EXCEPT !.cell = X] EXCEPT !.block = B, !.text = T]
OBVIOUS

\* The payload of the block b is alone in it, so that its end is that of one
\* cell and one block.
LEMMA ReleaseIsFree ==
  ASSUME NEW m, Fields(m), NEW b \in Blocks, m.block[b] = "live", b # Null,
         \A x \in DOMAIN m.cell : x.root = b <=> x = PayloadAddr(b)
  PROVE  Release(m, b) = Free(Without(m, {PayloadAddr(b)}), b)
<1> DEFINE p == PayloadAddr(b)
           f == Free(m, b)
           w == Without(m, {p})
           B == [m.block EXCEPT ![b] = "freed"]
           T == [m.text EXCEPT ![b] = <<>>]
           X == [x \in DOMAIN m.cell \ {p} |-> m.cell[x]]
<1>1. f = [m EXCEPT !.block = B, !.text = T] /\ f.cell = m.cell
  BY DEF Free, Fields
<1>2. Release(m, b) = [f EXCEPT !.cell = X]
  <2>1. Release(m, b) = Without(f, {x \in DOMAIN f.cell : x.root \in {b}})
    BY DEF Release, Drop
  <2>2. DOMAIN f.cell \ {x \in DOMAIN f.cell : x.root \in {b}} = DOMAIN m.cell \ {p}
    BY <1>1
  <2> HIDE DEF p, f
  <2> QED
    BY <1>1, <2>1, <2>2 DEF Without
<1>3. w = [m EXCEPT !.cell = X]
  BY DEF Without
<1>4. w.block = m.block /\ w.text = m.text
  BY <1>3 DEF Fields
<1>5. Free(w, b) = [w EXCEPT !.block = B, !.text = T]
  BY <1>4 DEF Free
<1> HIDE DEF p, w, f, B, T, X
<1>6. [[m EXCEPT !.block = B, !.text = T] EXCEPT !.cell = X]
        = [[m EXCEPT !.cell = X] EXCEPT !.block = B, !.text = T]
  BY UpdatesCommute DEF Fields
<1>7. [f EXCEPT !.cell = X] = [w EXCEPT !.block = B, !.text = T]
  BY <1>1, <1>3, <1>6, Zenon
<1>8. Release(m, b) = Free(w, b)
  BY <1>2, <1>5, <1>7, Zenon
<1> QED
  BY <1>8 DEF p, w

\* The strings that are left when the enum at a has been destroyed.
Rest(m, S, a) == IF m.cell[a].payload = Null THEN S ELSE S \ {PayloadOf(m, a)}

\* The enum without a payload.
LEMMA EmptyEnumFacts ==
  EmptyEnum \in Enum /\ EmptyEnum.tag = 1 /\ EmptyEnum.payload = Null
BY DEF EmptyEnum, Enum

\* An enum is destroyed: its payload is a string no more, and no block is orphaned.
LEMMA EnumDestroyed ==
  ASSUME NEW m, NEW S, NEW E, Owns(m, S, E), Fields(m), m.status = "running", NEW a \in E
  PROVE  /\ Steps(DestroyEnum(m, a), Rest(m, S, a), E, m, S, E)
         /\ DestroyEnum(m, a).cell[a] = EmptyEnum
         /\ \A e \in E : e # a => DestroyEnum(m, a).cell[e] = m.cell[e]
         /\ \A s \in Rest(m, S, a) : Same(DestroyEnum(m, a), m, s)
<1> DEFINE b == m.cell[a].payload
           p == PayloadOf(m, a)
           n == DestroyEnum(m, a)
<1>1. /\ m.cell[a] \in Enum /\ a \in DOMAIN m.cell /\ a \notin S /\ a.root \notin Blocks
      /\ b = Null <=> m.cell[a].tag = 1
      /\ b # Null => p \in S
      /\ E \subseteq DOMAIN m.cell /\ StringsOwn(m, S) /\ S \subseteq DOMAIN m.cell
      /\ IsMemory(m)
  BY DEF Owns, Housed, StringsOwn
<1>2. CASE b = Null
  <2>1. n = Store(m, a, EmptyEnum) /\ Rest(m, S, a) = S
    BY <1>2 DEF DestroyEnum, Rest
  <2> HIDE DEF n, b
  <2>2. /\ Owns(n, S, E \cup {a}) /\ Replaces(n, m, a, EmptyEnum) /\ Strays(n, S) = Strays(m, S)
        /\ \A s \in S : Same(n, m, s)
    <3>1. Fits(m, S, E, a, EmptyEnum)
      BY <1>1, EmptyEnumFacts DEF Fits
    <3> QED
      BY <2>1, <3>1, EnumStored DEF EnumIs
  <2>3. E \cup {a} = E
    OBVIOUS
  <2>4. Fields(n) /\ n.temps = m.temps
    BY <2>1, FieldsKept
  <2>5. /\ n.cell[a] = EmptyEnum /\ n.status = "running" /\ DOMAIN n.cell = DOMAIN m.cell \cup {a}
        /\ \A e \in E : e # a => n.cell[e] = m.cell[e]
    BY <1>1, <2>2 DEF Replaces
  <2>6. \A c \in Orphans(n, S, E) : c \in Orphans(m, S, E)
    BY <1>2, <2>2, <2>5, HeapAssumption DEF Orphans, Strays, b
  <2> QED
    BY <1>1, <2>1, <2>2, <2>3, <2>4, <2>5, <2>6 DEF Steps, n
<1>3. CASE b # Null
  <2> DEFINE d == DestroyS8(m, p)
             w == Without(d, {p})
             r == Free(w, b)
             U == S \ {p}
             F == E \ {a}
  <2>1. p \in S /\ p = PayloadAddr(b) /\ b \in Blocks /\ p.root = b /\ p \in DOMAIN m.cell
    BY <1>1, <1>3, Addresses DEF Enum, PayloadOf
  <2>2. b \in Strays(m, S) /\ \A e \in E : e # a => m.cell[e].payload # b
    BY <1>3, <2>1 DEF Owns, Housed
  <2>3. /\ StringsOwn(d, S) /\ d.status = "running" /\ d.cell[p] = Empty
        /\ \A s \in S : s # p => Same(d, m, s)
        /\ Strays(d, S) = Strays(m, S)
    BY <1>1, <2>1, DestroyKeepsOwners
  <2>4. Frames(d, m, {p}) /\ Fields(d)
    BY DestroyFrames, FramesFields
  <2>5. n = Store(Release(d, b), a, EmptyEnum)
    BY <1>1, <1>3 DEF DestroyEnum
  <2>6. Rest(m, S, a) = U
    BY <1>3 DEF Rest
  <2> HIDE DEF d, n, p, b
  <2>7. Texts(d, S, Chars)
    <3>1. TextAt(d, p) = <<>>
      BY <2>3, EmptyString DEF TextAt
    <3>2. \A s \in S : s # p => TextAt(d, s) \in Seq(Chars)
      BY <2>3 DEF Owns, Texts, Same
    <3>3. <<>> \in Seq(Chars)
      OBVIOUS
    <3> HIDE DEF w, r, U, F
    <3> QED
      BY <3>1, <3>2, <3>3 DEF Texts
  <2>8. Owns(d, S, E) /\ \A e \in E : d.cell[e] = m.cell[e]
    <3>1. S \subseteq S /\ {p} \subseteq S /\ S \cap E = {}
      BY <2>1 DEF Owns
    <3> QED
      BY <2>3, <2>4, <2>7, <3>1, StringStep
  <2>9. /\ DOMAIN d.cell = DOMAIN m.cell
        /\ \A x \in DOMAIN d.cell : x.root = b <=> x = PayloadAddr(b)
    <3>1. DOMAIN d.cell = DOMAIN m.cell
      BY <2>1, <2>4 DEF Frames
    <3> QED
      BY <2>1, <2>8, <3>1 DEF Owns, Housed
  <2>10. Release(d, b) = r
    <3>1. d.block[b] = "live" /\ b # Null
      BY <2>2, <2>3, <1>3 DEF Strays
    <3> QED
      BY <2>1, <2>4, <2>9, <3>1, ReleaseIsFree
  <2>11. /\ Owns(w, U, F) /\ Strays(w, U) = Strays(d, S)
         /\ \A s \in U : Same(w, d, s)
    <3>1. Owns(d, S, F)
      BY <2>8, EnumDropped
    <3> DEFINE A == {p}
    <3>2. SparesPayloads(d, F, A)
      BY <2>1, <2>2, <2>8, Addresses DEF PayloadOf, SparesPayloads
    <3>3. AllEmpty(d, S, A)
      BY <2>3, EmptyString DEF AllEmpty
    <3>4. F \ A = F
      BY <2>1 DEF Owns
    <3>5. w = Without(d, A)
      OBVIOUS
    <3> HIDE DEF A, F, w
    <3>6. /\ Owns(Without(d, A), S \ A, F \ A)
          /\ \A s \in S \ A : Same(Without(d, A), d, s)
      BY <3>1, <3>2, Forgotten
    <3>7. Strays(Without(d, A), S \ A) = Strays(d, S)
      BY <3>1, <3>2, <3>3, ForgottenEmpty
    <3> QED
      BY <3>4, <3>5, <3>6, <3>7 DEF A
  <2>12. /\ IsMemory(w) /\ w.status = "running" /\ DOMAIN w.cell = DOMAIN d.cell \ {p}
         /\ \A x \in DOMAIN d.cell \ {p} : w.cell[x] = d.cell[x]
         /\ Fields(w) /\ w.temps = d.temps
    <3>1. IsMemory(d)
      BY <2>3 DEF StringsOwn
    <3> QED
      BY <2>3, <2>4, <3>1, WithoutFields, FieldsKept
  <2> HIDE DEF w
  <2>13. /\ Owns(r, U, F) /\ \A s \in U : Same(r, w, s)
         /\ r.cell = w.cell /\ r.status = w.status
         /\ \A c \in Blocks : c \in Strays(r, U) <=> c \in Strays(w, U) /\ c # b
    <3>1. b \in Strays(w, U) /\ PayloadAddr(b) \notin U
      BY <2>1, <2>2, <2>3, <2>11
    <3> HIDE DEF U, F
    <3> QED
      BY <2>11, <3>1, StrayFreed
  <2>14. Fields(r) /\ r.temps = m.temps
    BY <2>4, <2>12, FieldsKept DEF Frames
  <2> HIDE DEF r
  <2>15. /\ Owns(n, U, F \cup {a}) /\ Replaces(n, r, a, EmptyEnum)
         /\ Strays(n, U) = Strays(r, U) /\ \A s \in U : Same(n, r, s)
    <3>1. a \notin U /\ n = Store(r, a, EmptyEnum)
      BY <1>1, <2>5, <2>10
    <3> HIDE DEF U, F
    <3>2. Fits(r, U, F, a, EmptyEnum)
      BY <1>1, <3>1, EmptyEnumFacts DEF Fits
    <3> QED
      BY <2>13, <3>1, <3>2, EnumStored DEF EnumIs
  <2>16. F \cup {a} = E
    OBVIOUS
  <2>17. Fields(n) /\ n.temps = m.temps
    BY <2>5, <2>10, <2>14, FieldsKept
  <2>18. /\ n.cell[a] = EmptyEnum /\ n.status = "running"
         /\ DOMAIN n.cell = (DOMAIN m.cell \ {p}) \cup {a}
         /\ \A e \in E : e # a => n.cell[e] = m.cell[e]
    <3>1. p \notin E
      BY <2>1 DEF Owns
    <3> QED
      BY <1>1, <2>8, <2>9, <2>12, <2>13, <2>15, <3>1 DEF Replaces
  <2>19. \A s \in U : Same(n, m, s)
    BY <2>3, <2>11, <2>13, <2>15 DEF Same
  <2>20. ASSUME NEW c \in Orphans(n, U, E) PROVE c \in Orphans(m, S, E)
    <3>1. c \in Strays(n, U) /\ c \in Blocks
      BY DEF Orphans, Strays
    <3>2. c \in Strays(m, S) /\ c # b
      BY <2>3, <2>11, <2>13, <2>15, <3>1
    <3>3. \A e \in E : m.cell[e].payload # c
      BY <2>18, <3>2 DEF Orphans, b
    <3> QED
      BY <3>2, <3>3 DEF Orphans
  <2>21. DOMAIN m.cell \subseteq S \cup E => DOMAIN n.cell \subseteq U \cup E
    BY <2>18
  <2> QED
    BY <2>6, <2>15, <2>16, <2>17, <2>18, <2>19, <2>20, <2>21 DEF Steps, n
<1> QED
  BY <1>2, <1>3

\* A process that has aborted stays so.
LEMMA StatusKept ==
  ASSUME NEW m, Fields(m), NEW a, NEW v
  PROVE  Store(m, a, v).status = m.status /\ Abort(m).status = "aborted" /\ Fields(Abort(m))
<1>1. Store(m, a, v).status = m.status
  BY DEF Fields, Store
<1>2. Abort(m).status = "aborted" /\ Fields(Abort(m))
  BY DEF Fields, Abort
<1> QED
  BY <1>1, <1>2

\* What a string holds after it has been assigned from.
Given(m, src, category) == IF category = "OwnedTemp" THEN <<>> ELSE TextAt(m, src)

\* The string at src is put into the new payload p of the enum at out.
PutInto(n, m, S, E, out, tag, src, category, p) ==
  /\ p \notin S /\ p.root \in Blocks
  /\ Steps(n, S \cup {p}, E \cup {out}, m, S, E)
  /\ n.cell[out].tag = tag /\ n.cell[out].payload # Null /\ PayloadOf(n, out) = p
  /\ \A e \in E : e # out => n.cell[e] = m.cell[e]
  /\ TextAt(n, p) = TextAt(m, src)
  /\ TextAt(n, src) = Given(m, src, category)
  /\ \A s \in S : s # src => TextAt(n, s) = TextAt(m, s)

\* A payload is made, given its text, and becomes the property of the enum.
LEMMA WordMade ==
  ASSUME NEW m, NEW S, NEW E, Owns(m, S, E), Fields(m), m.status = "running",
         NEW out, out \notin S, out.root \notin Blocks,
         out \in E => m.cell[out].payload = Null,
         NEW tag \in Nat, tag # 1, NEW src \in S, NEW category,
         Word(m, out, tag, src, category).status # "aborted"
  PROVE  \E p : PutInto(Word(m, out, tag, src, category), m, S, E, out, tag, src, category, p)
<1> DEFINE b == NewBlock(m)
           p == PayloadAddr(b)
           k == NewPayload(m, b)
           w == StringAssign(k, p, src, category)
           v == [tag |-> tag, payload |-> b]
           n == Word(m, out, tag, src, category)
           U == S \cup {p}
<1>1. b # Null
  <2> SUFFICES ASSUME b = Null PROVE FALSE
    OBVIOUS
  <2>1. n = Store(Abort(m), out, v)
    BY DEF Word, WordIn
  <2> QED
    BY <2>1, StatusKept
<1>2. b \in Blocks /\ m.block[b] = "unused"
  BY <1>1 DEF NewBlock, Unused
<1>3. n = Store(w, out, v)
  BY <1>1 DEF Word, WordIn
<1>4. v \in Enum /\ v.tag = tag /\ v.payload = b
  BY <1>2 DEF Enum
<1> HIDE DEF b
<1>5. /\ p \notin DOMAIN m.cell /\ (\A e \in E : m.cell[e].payload # b)
      /\ Owns(k, U, E) /\ Frames(k, m, {p}) /\ Fields(k) /\ k.status = "running"
      /\ (\A s \in S : Same(k, m, s))
      /\ \A c \in Blocks : c \in Strays(k, U) <=> c \in Strays(m, S) \/ c = b
  <2> HIDE DEF w, n, v
  <2>1. PayloadIs(k, m, S, E, b)
    BY <1>2, PayloadMade
  <2> HIDE DEF k
  <2>2. Fields(k)
    BY <2>1, FramesFields DEF PayloadIs
  <2> QED
    BY <2>1, <2>2 DEF PayloadIs
<1>6. p.root = b /\ p \notin S /\ p \notin E
  BY <1>5, Addresses DEF Owns, StringsOwn
<1> HIDE DEF p, k, v
<1>7. Fields(w) /\ Frames(w, k, {p, src})
  BY <1>5, AssignmentFrames, FramesFields
<1>8. w.status # "aborted"
  BY <1>3, <1>7, StatusKept
<1>9. /\ StringsOwn(w, U) /\ w.status = "running" /\ Strays(w, U) = Strays(k, U)
      /\ TextAt(w, p) = TextAt(k, src)
      /\ TextAt(w, src) = IF category = "OwnedTemp" THEN <<>> ELSE TextAt(k, src)
      /\ \A s \in U \ {p, src} : TextAt(w, s) = TextAt(k, s)
  <2>1. StringsOwn(k, U) /\ p \in U /\ src \in U /\ p # src
    BY <1>5, <1>6 DEF Owns
  <2> HIDE DEF U
  <2> QED
    BY <1>5, <1>8, <2>1, AssignmentKeepsOwners
<1>10. /\ TextAt(w, p) = TextAt(m, src) /\ TextAt(w, src) = Given(m, src, category)
       /\ \A s \in S : s # src => TextAt(w, s) = TextAt(m, s)
  BY <1>5, <1>6, <1>9 DEF Same, Given
<1>11. Texts(w, U, Chars)
  <2>1. \A s \in S : TextAt(m, s) \in Seq(Chars)
    BY DEF Owns, Texts
  <2>2. <<>> \in Seq(Chars)
    OBVIOUS
  <2> HIDE DEF w, n
  <2> QED
    BY <1>10, <2>1, <2>2 DEF Texts, Given
<1> HIDE DEF w
<1>12. Owns(w, U, E) /\ \A e \in E : w.cell[e] = k.cell[e]
  <2> DEFINE A == {p, src}
  <2>1. U \subseteq U /\ A \subseteq U /\ U \cap E = {} /\ Frames(w, k, A)
    BY <1>5, <1>7 DEF Owns
  <2> HIDE DEF U, A
  <2> QED
    BY <1>5, <1>9, <1>11, <2>1, StringStep
<1>13. \A e \in E : k.cell[e] = m.cell[e]
  BY <1>5, <1>6 DEF Frames, Owns
<1>14. /\ Owns(n, U, E \cup {out}) /\ Replaces(n, w, out, v) /\ Strays(n, U) = Strays(w, U)
       /\ \A s \in U : Same(n, w, s)
  <2>1. out \notin U
    BY <1>2, <1>6
  <2>2. Fits(w, U, E, out, v)
    BY <1>1, <1>4, <1>5, <1>12, <1>13, <2>1 DEF Fits, p
  <2> HIDE DEF U, n
  <2> QED
    BY <1>3, <1>12, <2>2, EnumStored DEF EnumIs
<1>15. Fields(n) /\ n.temps = m.temps /\ n.status = "running"
  BY <1>3, <1>5, <1>7, <1>9, FieldsKept, StatusKept DEF Frames
<1> HIDE DEF n
<1>16. n.cell[out] = v /\ \A e \in E : e # out => n.cell[e] = m.cell[e]
  BY <1>12, <1>13, <1>14 DEF Replaces, Owns
<1>17. ASSUME NEW c \in Orphans(n, U, E \cup {out}) PROVE c \in Orphans(m, S, E)
  <2>1. c \in Strays(n, U) /\ c \in Blocks /\ c # b /\ c # Null
    BY <1>4, <1>16, HeapAssumption DEF Orphans, Strays
  <2>2. c \in Strays(m, S)
    BY <1>5, <1>9, <1>14, <2>1
  <2>3. \A e \in E : m.cell[e].payload # c
    BY <1>16, <2>1 DEF Orphans
  <2> QED
    BY <2>2, <2>3 DEF Orphans
<1>18. DOMAIN m.cell \subseteq S \cup E => DOMAIN n.cell \subseteq U \cup (E \cup {out})
  BY <1>5, <1>7, <1>14 DEF Frames, Replaces
<1>19. Steps(n, U, E \cup {out}, m, S, E)
  BY <1>14, <1>15, <1>17, <1>18 DEF Steps
<1>20. /\ n.cell[out].tag = tag /\ n.cell[out].payload # Null /\ PayloadOf(n, out) = p
  BY <1>1, <1>4, <1>16 DEF PayloadOf, p
<1>21. /\ TextAt(n, p) = TextAt(m, src) /\ TextAt(n, src) = Given(m, src, category)
       /\ \A s \in S : s # src => TextAt(n, s) = TextAt(m, s)
  BY <1>10, <1>14 DEF Same
<1>22. PutInto(n, m, S, E, out, tag, src, category, p)
  BY <1>2, <1>6, <1>16, <1>19, <1>20, <1>21 DEF PutInto
<1> QED
  BY <1>22 DEF n

\* The enum at src moves to one that owns nothing.
LEMMA EnumMoved ==
  ASSUME NEW m, NEW S, NEW E, Owns(m, S, E), Fields(m), m.status = "running",
         NEW dst \in E, NEW src \in E, dst # src, m.cell[dst].payload = Null
  PROVE  /\ Steps(EnumMoveAssign(m, dst, src), S, E, m, S, E)
         /\ EnumMoveAssign(m, dst, src).cell[dst] = m.cell[src]
         /\ EnumMoveAssign(m, dst, src).cell[src] = EmptyEnum
         /\ \A e \in E : e \notin {dst, src} => EnumMoveAssign(m, dst, src).cell[e] = m.cell[e]
         /\ \A s \in S : Same(EnumMoveAssign(m, dst, src), m, s)
<1> DEFINE v == m.cell[src]
           k == Store(m, dst, v)
           n == Store(k, src, EmptyEnum)
           F == E \ {src}
<1>1. /\ src \in DOMAIN m.cell /\ dst \in DOMAIN m.cell /\ src \notin S /\ dst \notin S
      /\ src.root \notin Blocks /\ dst.root \notin Blocks /\ v \in Enum
      /\ v.payload = Null <=> v.tag = 1
      /\ v.payload # Null => PayloadAddr(v.payload) \in S
      /\ \A e \in E : e # src /\ v.payload # Null => m.cell[e].payload # v.payload
      /\ E \subseteq DOMAIN m.cell
  BY DEF Owns, Housed, PayloadOf
<1>2. EnumMoveAssign(m, dst, src) = n
  BY <1>1 DEF EnumMoveAssign, Using
<1> HIDE DEF v
<1>3. /\ Owns(k, S, F \cup {dst}) /\ Replaces(k, m, dst, v) /\ Strays(k, S) = Strays(m, S)
      /\ \A s \in S : Same(k, m, s)
  <2>1. Owns(m, S, F)
    BY EnumDropped
  <2>2. Fits(m, S, F, dst, v)
    BY <1>1 DEF Fits
  <2> HIDE DEF F
  <2> QED
    BY <2>1, <2>2, EnumStored DEF EnumIs
<1>4. F \cup {dst} = F
  OBVIOUS
<1>5. Fields(k) /\ Fields(n) /\ n.temps = m.temps
  BY FieldsKept
<1> HIDE DEF k
<1>6. /\ Owns(n, S, F \cup {src}) /\ Replaces(n, k, src, EmptyEnum) /\ Strays(n, S) = Strays(k, S)
      /\ \A s \in S : Same(n, k, s)
  <2>1. Owns(k, S, F)
    BY <1>3, <1>4
  <2>2. Fits(k, S, F, src, EmptyEnum)
    BY <1>1, EmptyEnumFacts DEF Fits
  <2> HIDE DEF F
  <2> QED
    BY <2>1, <2>2, EnumStored DEF EnumIs
<1>7. F \cup {src} = E
  OBVIOUS
<1> HIDE DEF n
<1>8. /\ n.cell[dst] = v /\ n.cell[src] = EmptyEnum /\ n.status = "running"
      /\ \A e \in E : e \notin {dst, src} => n.cell[e] = m.cell[e]
      /\ DOMAIN n.cell = DOMAIN m.cell
  BY <1>1, <1>3, <1>6 DEF Replaces
<1>9. ASSUME NEW c \in Orphans(n, S, E) PROVE c \in Orphans(m, S, E)
  <2>1. c \in Strays(m, S) /\ c \in Blocks /\ c # Null /\ v.payload # c
    BY <1>3, <1>6, <1>8, HeapAssumption DEF Orphans, Strays
  <2>2. \A e \in E : m.cell[e].payload # c
    BY <1>8, <2>1 DEF Orphans, v
  <2> QED
    BY <2>1, <2>2 DEF Orphans
<1>10. \A s \in S : Same(n, m, s)
  BY <1>3, <1>6 DEF Same
<1>11. Steps(n, S, E, m, S, E)
  <2>1. Owns(n, S, E)
    BY <1>6, <1>7
  <2> HIDE DEF F
  <2> QED
    BY <1>5, <1>8, <1>9, <2>1 DEF Steps
<1> QED
  BY <1>2, <1>8, <1>10, <1>11 DEF v
==============================================================================
