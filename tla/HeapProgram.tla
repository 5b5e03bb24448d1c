----------------------------- MODULE HeapProgram -----------------------------
(***************************************************************************)
(* Any method over strings, and over enums whose first variant carries     *)
(* nothing and whose others carry a string: the code that llvmCodegen      *)
(* emits for one expression, assignment, declaration or cleanup is a step, *)
(* and the steps come in any order.  Calls are left out.                   *)
(*                                                                         *)
(* The strings and enums are locals, fields and elements.  A temporary     *)
(* holds what an expression has made until the statement ends, and is      *)
(* taken from by an assignment (ValueCategory::OwnedTemp).                 *)
(***************************************************************************)
EXTENDS Heap

CONSTANTS Places,  \* the addresses of variables
          Literals, \* the texts in the program
          Chars,
          Tags     \* the variants of enums that carry a string

VARIABLES strings, \* the addresses of the strings in scope, temporaries included
          enums    \* those of the enums

vars == <<mem, lost, strings, enums>>

Temporary(a) == a.root = "temp"
Category(a)  == IF Temporary(a) THEN "OwnedTemp" ELSE "Borrowed"
Variables    == {a \in strings \cup enums : ~Temporary(a)}

\* The payloads of the enums E are strings too: a case may read them.
PayloadOf(m, e) == PayloadAddr(m.cell[e].payload)
Payloads(m, E)  == {PayloadOf(m, e) : e \in {x \in E : m.cell[x].payload # Null}}

Readables == strings \cup Payloads(mem, enums)

\* The blocks that the values at A point to, and those of their payloads.
PointedTo(m, A) == {Pointer(m.cell[a]) : a \in A} \ {Null}
OwnedBy(m, A) ==
  PointedTo(m, A) \cup PointedTo(m, {PayloadAddr(b) : b \in PointedTo(m, A)} \cap DOMAIN m.cell)

Lost(m) == {b \in OwnedBy(mem, Variables) : m.block[b] = "live"} \ PointedTo(m, DOMAIN m.cell)

\* The memory m after a step that leaves the strings S and the enums E.
Proceed(m, S, E) ==
  /\ mem.status = "running"
  /\ mem' = m
  /\ strings' = S
  /\ enums' = E
  /\ lost' = IF m.status = "running" THEN Lost(m) ELSE {}

Init == mem = NoMemory /\ lost = {} /\ strings = {} /\ enums = {}

-----------------------------------------------------------------------------
(* Strings *)

Undeclared == {a \in Places \ (strings \cup enums) : a.root \notin {"temp"} \cup Blocks}

DeclareString(a) ==
  /\ a \in Undeclared
  /\ Proceed(Store(mem, a, Empty), strings \cup {a}, enums)

MakeLiteral(text) ==
  /\ text \in Seq(Chars)
  /\ Proceed(FromLiteral(Alloca(mem), NewTemp(mem), text), strings \cup {NewTemp(mem)}, enums)

MakeSum(a, b) ==
  /\ {a, b} \subseteq Readables
  /\ Proceed(AddS8(Alloca(mem), NewTemp(mem), a, b), strings \cup {NewTemp(mem)}, enums)

CompareStrings(a, b) ==
  /\ {a, b} \subseteq Readables
  /\ Proceed(CheckEqS8(mem, mem.cell[a], mem.cell[b]), strings, enums)

AssignString(dst, src) ==
  /\ dst \in strings /\ ~Temporary(dst) /\ src \in Readables
  /\ Proceed(StringAssign(mem, dst, src, Category(src)), strings, enums)

\* An argument after its call, the literal of a case after its comparison.
DestroyString(t) ==
  /\ t \in strings /\ Temporary(t)
  /\ Proceed(DestroyS8(mem, t), strings, enums)

LeaveString(a) ==
  /\ a \in strings /\ ~Temporary(a)
  /\ Proceed(Without(DestroyS8(mem, a), {a}), strings \ {a}, enums)

-----------------------------------------------------------------------------
(* Enums *)

\* A zeroed payload in the block b.
NewPayload(m, b) == Store(Malloc(m, b, <<>>), PayloadAddr(b), Empty)

\* The payload is assigned to before the enum has it.
WordIn(m, b, src, category) ==
  IF b = Null THEN Abort(m)
  ELSE StringAssign(NewPayload(m, b), PayloadAddr(b), src, category)

Word(m, out, tag, src, category) ==
  Store(WordIn(m, NewBlock(m), src, category), out, [tag |-> tag, payload |-> NewBlock(m)])

DestroyEnum(m, a) ==
  Store(IF m.cell[a].tag = 1 \/ m.cell[a].payload = Null THEN m
        ELSE Release(DestroyS8(m, PayloadOf(m, a)), m.cell[a].payload),
        a, EmptyEnum)

EnumCopyAssign(m, dst, src) ==
  IF m.cell[src].tag = 1 THEN Store(m, dst, EmptyEnum)
  ELSE Word(m, dst, m.cell[src].tag, PayloadOf(m, src), "Borrowed")

EnumAssign(m, dst, src, category) ==
  IF SameValue(dst, src) THEN m
  ELSE IF category = "OwnedTemp" THEN EnumMoveAssign(DestroyEnum(m, dst), dst, src)
  ELSE EnumCopyAssign(DestroyEnum(m, dst), dst, src)

DeclareEnum(a) ==
  /\ a \in Undeclared
  /\ Proceed(Store(mem, a, EmptyEnum), strings, enums \cup {a})

MakeEmpty ==
  Proceed(Store(Alloca(mem), NewTemp(mem), EmptyEnum), strings, enums \cup {NewTemp(mem)})

MakeWord(tag, src) ==
  /\ tag \in Nat \ {0, 1} /\ src \in Readables
  /\ Proceed(Word(Alloca(mem), NewTemp(mem), tag, src, Category(src)),
             strings, enums \cup {NewTemp(mem)})

AssignEnum(dst, src) ==
  /\ dst \in enums /\ ~Temporary(dst) /\ src \in enums
  /\ Proceed(EnumAssign(mem, dst, src, Category(src)), strings, enums)

LeaveEnum(a) ==
  /\ a \in enums
  /\ Proceed(Without(DestroyEnum(mem, a), {a}), strings, enums \ {a})

-----------------------------------------------------------------------------
\* The slots of the temporaries are gone, whatever they held; what has been
\* freed can be used again.
Reusable(m) ==
  [m EXCEPT !.temps = 0,
            !.block = [b \in Blocks |-> IF @[b] = "freed" THEN "unused" ELSE @[b]]]

EndStatement ==
  LET gone == {a \in strings \cup enums : Temporary(a)}
  IN Proceed(Reusable(Without(mem, gone \cup Payloads(mem, gone \cap enums))),
             strings \ gone, enums \ gone)

Next ==
  \/ \E a \in Places : DeclareString(a) \/ DeclareEnum(a)
  \/ \E text \in Literals : MakeLiteral(text)
  \/ \E a, b \in Readables : MakeSum(a, b) \/ CompareStrings(a, b)
  \/ \E dst \in strings, src \in Readables : AssignString(dst, src)
  \/ \E a \in strings : DestroyString(a) \/ LeaveString(a)
  \/ MakeEmpty
  \/ \E tag \in Tags, src \in Readables : MakeWord(tag, src)
  \/ \E dst, src \in enums : AssignEnum(dst, src)
  \/ \E a \in enums : LeaveEnum(a)
  \/ EndStatement

Spec == Init /\ [][Next]_vars

-----------------------------------------------------------------------------
(* What the strings and enums hold, in the terms of CopyStore. *)

Item(m, e) == [tag  |-> m.cell[e].tag,
               text |-> IF m.cell[e].payload = Null THEN <<>> ELSE TextAt(m, PayloadOf(m, e))]

TextMap(m, T) == [a \in T |-> TextAt(m, a)]
ItemMap(m, F) == [e \in F |-> Item(m, e)]

TextsNow == IF mem.status = "running" THEN TextMap(mem, strings) ELSE << >>
ItemsNow == IF mem.status = "running" THEN ItemMap(mem, enums) ELSE << >>
Slots    == {a \in Places : a.slot /\ a.path = <<>>}
=============================================================================
