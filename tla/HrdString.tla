----------------------------- MODULE HrdString -----------------------------
(***************************************************************************)
(* The string runtime and the assignment of strings in generated code.     *)
(*                                                                         *)
(* A memory m is a record: m.cell maps the addresses that exist to what    *)
(* they hold, m.block says of each heap block whether it is unused, live   *)
(* or freed, m.text what a live string buffer holds.  m.status is          *)
(* "running" until the process aborts (out of memory) or does what the     *)
(* language must never let it do: free a block twice, read a freed block,  *)
(* use an address that does not exist.                                     *)
(*                                                                         *)
(* An address is a record of a root (a variable, an object, a heap block)  *)
(* and the path of field indices below it.                                 *)
(***************************************************************************)
EXTENDS Naturals, Sequences

CONSTANTS Blocks,  \* the heap's blocks; malloc fails when none is left
          Null

ASSUME HeapAssumption == Null \notin Blocks /\ "temp" \notin Blocks

At(a, p) == [a EXCEPT !.path = @ \o p]

Corrupt(m) == [m EXCEPT !.status = "corrupt"]
Abort(m)   == [m EXCEPT !.status = "aborted"]

\* What follows the failure of a step does not happen any more, and a step
\* that uses the addresses A is in order only if they exist.
Using(m, A, next) ==
  IF m.status # "running" THEN m
  ELSE IF A \subseteq DOMAIN m.cell THEN next ELSE Corrupt(m)

Store(m, a, v) ==
  [m EXCEPT !.cell = [x \in DOMAIN m.cell \cup {a} |->
                        IF x = a THEN v ELSE m.cell[x]]]

\* The C library's allocator.  A freed block is not handed out again until the
\* statement ends, so that a use of it shows.
Unused(m) == {b \in Blocks : m.block[b] = "unused"}

NewBlock(m) == IF Unused(m) = {} THEN Null ELSE CHOOSE b \in Unused(m) : TRUE

Malloc(m, b, text) == [m EXCEPT !.block[b] = "live", !.text[b] = text]

Free(m, b) ==
  IF b = Null THEN m
  ELSE IF b \in Blocks /\ m.block[b] = "live" THEN [m EXCEPT !.block[b] = "freed", !.text[b] = <<>>]
  ELSE Corrupt(m)

-----------------------------------------------------------------------------
(* hrd_runtime_string.cpp *)

Empty == [data |-> Null, len |-> 0]

\* A new buffer with the given text, in the string at out; what out held
\* before is overwritten, not released.
Fill(m, out, text) ==
  IF Unused(m) = {} THEN Abort(m)
  ELSE Store(Malloc(m, NewBlock(m), text), out,
             [data |-> NewBlock(m), len |-> Len(text)])

FromLiteral(m, out, text) ==
  IF text = <<>> THEN Store(m, out, Empty) ELSE Fill(m, out, text)

Readable(m, s) == s.data \in Blocks /\ m.block[s.data] = "live"

CopyS8(m, out, src) ==
  Using(m, {src},
    IF m.cell[src].len = 0 THEN Store(m, out, Empty)
    ELSE IF m.cell[src].data = Null THEN Abort(m)
    ELSE IF Readable(m, m.cell[src]) THEN Fill(m, out, m.text[m.cell[src].data])
    ELSE Corrupt(m))

MoveS8(m, out, src) ==
  Using(m, {src}, Store(Store(m, out, m.cell[src]), src, Empty))

DestroyS8(m, a) ==
  Using(m, {a}, Store(Free(m, m.cell[a].data), a, Empty))

AddS8(m, out, a, b) ==
  Using(m, {a, b},
    IF m.cell[a].len = 0 THEN CopyS8(m, out, b)
    ELSE IF m.cell[b].len = 0 THEN CopyS8(m, out, a)
    ELSE IF Null \in {m.cell[a].data, m.cell[b].data} THEN Abort(m)
    ELSE IF Readable(m, m.cell[a]) /\ Readable(m, m.cell[b])
         THEN Fill(m, out, m.text[m.cell[a].data] \o m.text[m.cell[b].data])
    ELSE Corrupt(m))

\* Equality reads two string headers that the generated code has copied: the
\* buffers may have been freed since.  The memory is only checked.
ComparesBuffers(s, t) == s.len = t.len /\ s.len # 0

CheckEqS8(m, s, t) ==
  IF ComparesBuffers(s, t) /\ Null \notin {s.data, t.data}
     /\ ~(Readable(m, s) /\ Readable(m, t))
  THEN Corrupt(m) ELSE m

EqS8(m, s, t) ==
  /\ s.len = t.len
  /\ ComparesBuffers(s, t) => /\ Null \notin {s.data, t.data}
                              /\ m.text[s.data] = m.text[t.data]

-----------------------------------------------------------------------------
(* assign.cpp: what is emitted for the assignment of one string. *)

\* The test for self-assignment compares LLVM values when the code is made: the
\* stack slot of a variable is one value, while every access to a field or an
\* element computes its address anew.
\* Mutant: the test is left out.
NeverSame(dst, src) == FALSE

SameValue(dst, src) == dst = src /\ dst.slot /\ dst.path = <<>>

MoveOrCopy(m, dst, src, category) ==
  IF category = "OwnedTemp" THEN MoveS8(m, dst, src) ELSE CopyS8(m, dst, src)

\* Mutant: what the target held is not destroyed.
AssignOver(m, dst, src, category) ==
  IF SameValue(dst, src) THEN m ELSE MoveOrCopy(m, dst, src, category)

StringAssign(m, dst, src, category) ==
  IF SameValue(dst, src) THEN m
  ELSE MoveOrCopy(DestroyS8(m, dst), dst, src, category)

-----------------------------------------------------------------------------
(* What the operations are to keep, for the theorems of HeapProofs. *)

\* The text of the string at a.
TextAt(m, a) == IF m.cell[a].data = Null THEN <<>> ELSE m.text[m.cell[a].data]
=============================================================================
