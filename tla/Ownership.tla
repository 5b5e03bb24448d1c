----------------------------- MODULE Ownership -----------------------------
(***************************************************************************)
(* Who owns the heap: the code that llvmCodegen emits for the statements   *)
(* of a method, executed on the memory of HrdString.  Strings own their    *)
(* buffers, enums the block of their payload; a struct or an array owns    *)
(* what its parts own.  Each operator of this module is the code emitted   *)
(* for one kind of type, value or statement, as what it does to memory.    *)
(*                                                                         *)
(* A program is any sequence of the blocks of statements that a scenario   *)
(* lists, over its locals and the fields of one object.                    *)
(***************************************************************************)
EXTENDS Heap, MIRValue, FiniteSets, SequencesExt

CONSTANTS Scenarios, \* their names, to records of: fields (types), locals (names to
                     \* types), blocks (records of: needs, unless, when, body)
          MaxLen     \* bound on the length of a string

VARIABLES scenario,
          declared, \* the locals in scope
          alive     \* the object exists and the process runs; mem and lost are Heap's

vars == <<scenario, mem, declared, alive, lost>>

Local(name)    == [root |-> name, path |-> <<>>, slot |-> TRUE]
Object         == [root |-> "object", path |-> <<>>, slot |-> FALSE]
NoAddr         == [root |-> Null, path |-> <<>>, slot |-> FALSE]

ObjectType == Struct(Scenarios[scenario].fields, <<>>)

(* Layout: the cells of a type, each with the path that leads to it. *)

RECURSIVE Leaves(_)
Leaves(type) ==
  CASE type.kind = "STRUCT" ->
         UNION {{<<(<<i>> \o leaf[1]), leaf[2]>> : leaf \in Leaves(type.fields[i])}
                  : i \in DOMAIN type.fields}
    [] type.kind = "ARRAY" ->
         {<<(<<i>> \o leaf[1]), leaf[2]>> : i \in 1..type.size, leaf \in Leaves(type.base)}
    [] OTHER -> {<< <<>>, type.kind>>}

Paths(type) == {leaf[1] : leaf \in Leaves(type)}

ZeroCell(kind) == CASE kind = "STRING" -> Empty
                    [] kind = "ENUM"   -> EmptyEnum
                    [] OTHER           -> [number |-> 0]

\* A value in registers is a function of the paths of its cells.
ZeroValue(type) ==
  [p \in Paths(type) |-> ZeroCell((CHOOSE leaf \in Leaves(type) : leaf[1] = p)[2])]

LoadAll(m, a, type) == [p \in Paths(type) |-> m.cell[At(a, p)]]

StoreAll(m, a, value) ==
  [m EXCEPT !.cell =
     [x \in {At(a, p) : p \in DOMAIN value} |->
        value[SubSeq(x.path, Len(a.path) + 1, Len(x.path))]] @@ @]

CellsOf(a, type) == {At(a, p) : p \in Paths(type)}

-----------------------------------------------------------------------------
(* Destruction: lowerType.cpp, emits.cpp. *)

RECURSIVE Destroy(_, _, _), DestroyFields(_, _, _, _), DestroyElements(_, _, _, _)

\* In the reverse order of the fields.
DestroyFields(m, a, type, i) ==
  IF i = 0 THEN m
  ELSE DestroyFields(IF NeedsDestroy(type.fields[i])
                     THEN Destroy(m, At(a, <<i>>), type.fields[i]) ELSE m,
                     a, type, i - 1)

DestroyElements(m, a, type, i) ==
  IF i > type.size THEN m
  ELSE DestroyElements(Destroy(m, At(a, <<i>>), type.base), a, type, i + 1)

DestroyPayload(m, b, type) ==
  Release(IF NeedsDestroy(type) THEN Destroy(m, PayloadAddr(b), type) ELSE m, b)

DestroyEnum(m, a, type, value) ==
  Store(IF type.payloads[value.tag] = Unit \/ value.payload = Null THEN m
        ELSE DestroyPayload(m, value.payload, type.payloads[value.tag]),
        a, EmptyEnum)

Destroy(m, a, type) ==
  CASE type.kind = "STRING" -> DestroyS8(m, a)
    [] type.kind = "STRUCT" -> DestroyFields(m, a, type, Len(type.fields))
    [] type.kind = "ARRAY"  -> DestroyElements(m, a, type, 1)
    [] type.kind = "ENUM"   -> Using(m, {a}, DestroyEnum(m, a, type, m.cell[a]))

RECURSIVE DestroyAll(_, _)
DestroyAll(m, owned) ==
  IF owned = <<>> THEN m
  ELSE DestroyAll(Destroy(m, owned[1].addr, owned[1].type), Tail(owned))

-----------------------------------------------------------------------------
(* Assignment: assign.cpp. *)

\* A block for a payload, zeroed because what is assigned to is destroyed first.
NewPayload(m, type) ==
  IF Unused(m) = {} THEN Abort(m)
  ELSE StoreAll(Malloc(m, NewBlock(m), <<>>), PayloadAddr(NewBlock(m)), ZeroValue(type))

\* A lowered value: the memory after it, where it is, what it holds, who owns it.
Result(m, addr, value, category) ==
  [mem |-> m, addr |-> addr, value |-> value, category |-> category]

Borrowed(m, a, type) == Result(m, a, LoadAll(m, a, type), "Borrowed")

Spill(m, value) == Alloca(StoreAll(m, NewTemp(m), value))

RECURSIVE Assign(_, _, _, _), StructAssign(_, _, _, _, _, _), CopyPayload(_, _, _, _, _)

\* Field by field: strings by their category, structs again field by field,
\* everything else as it stands.
StructAssign(m, dst, src, type, category, i) ==
  IF i > Len(type.fields) \/ m.status # "running" THEN m
  ELSE StructAssign(
         CASE type.fields[i].kind = "STRING" ->
                StringAssign(m, At(dst, <<i>>), At(src, <<i>>), category)
           [] type.fields[i].kind = "STRUCT" ->
                StructAssign(m, At(dst, <<i>>), At(src, <<i>>), type.fields[i], category, 1)
           [] OTHER ->
                StoreAll(m, At(dst, <<i>>), LoadAll(m, At(src, <<i>>), type.fields[i])),
         dst, src, type, category, i + 1)

\* Mutant: the payload is not copied but shared.
SharePayload(m, dst, source, type, b) == Store(m, dst, source)

\* The copy of an enum reads tag and payload after dst has been destroyed.
CopyPayload(m, dst, source, type, b) ==
  IF type.payloads[source.tag] = Unit
  THEN Store(m, dst, [tag |-> source.tag, payload |-> Null])
  ELSE Using(m, CellsOf(PayloadAddr(source.payload), type.payloads[source.tag]),
         Store(Assign(NewPayload(m, type.payloads[source.tag]), PayloadAddr(b),
                      Borrowed(m, PayloadAddr(source.payload), type.payloads[source.tag]),
                      type.payloads[source.tag]),
               dst, [tag |-> source.tag, payload |-> b]))

EnumCopyAssign(m, dst, src, type) ==
  Using(m, {src}, CopyPayload(m, dst, m.cell[src], type, NewBlock(m)))

EnumAssign(m, dst, rhs, type) ==
  IF SameValue(dst, rhs.addr) THEN m
  ELSE IF rhs.category = "OwnedTemp"
  THEN EnumMoveAssign(Destroy(m, dst, type), dst, rhs.addr)
  ELSE EnumCopyAssign(Destroy(m, dst, type), dst, rhs.addr, type)

\* A value without an address is spilled to a new slot.
Assign(m, dst, rhs, type) ==
  IF m.status # "running" THEN m
  ELSE IF rhs.addr = NoAddr /\ type.kind \in {"STRING", "STRUCT"}
  THEN Assign(Spill(m, rhs.value), dst, [rhs EXCEPT !.addr = NewTemp(m)], type)
  ELSE CASE type.kind = "STRING" -> StringAssign(m, dst, rhs.addr, rhs.category)
         [] type.kind = "STRUCT" -> StructAssign(m, dst, rhs.addr, type, rhs.category, 1)
         [] type.kind = "ENUM"   -> EnumAssign(m, dst, rhs, type)
         [] OTHER                -> StoreAll(m, dst, rhs.value)

-----------------------------------------------------------------------------
(* Values: lowerValue.cpp, Helper.cpp.  What they leave in temporaries is   *)
(* not cleaned up: no code is emitted for the cleanup stack.                *)

Plain(m, value) == Result(m, NoAddr, value, "Plain")
Scalar(n)       == << >> :> [number |-> n]
Word(value)     == value[<< >>]

LowerPlace(place, self) ==
  IF place.root = "self" THEN At(self, place.path) ELSE At(Local(place.root), place.path)

Load(m, a, type) ==
  IF m.status = "running" /\ CellsOf(a, type) \subseteq DOMAIN m.cell
  THEN Result(m, a, LoadAll(m, a, type), "Borrowed")
  ELSE Result(Using(m, CellsOf(a, type), m), a, ZeroValue(type), "Borrowed")

\* A string that an operation of the runtime has written to a temporary.
StringTemp(m, a) ==
  Result(m, a, IF m.status = "running" THEN LoadAll(m, a, String) ELSE ZeroValue(String),
         "OwnedTemp")

StringLiteral(m, text) == StringTemp(FromLiteral(Alloca(m), NewTemp(m), text), NewTemp(m))

\* hrd_add_s8 takes addresses, so that an operand that is a variable is read at
\* the call; an operand without an address is spilled.
Spilled(r) == IF r.addr # NoAddr THEN r
              ELSE Result(Spill(r.mem, r.value), NewTemp(r.mem), r.value, r.category)

StringAdd(lhs, rhs) ==
  StringTemp(AddS8(Alloca(rhs.mem), NewTemp(rhs.mem), lhs.addr, rhs.addr), NewTemp(rhs.mem))

\* Comparison works on the headers loaded with the operands.
Compare(lhs, rhs, kind) ==
  IF kind = "STRING"
  THEN Plain(CheckEqS8(rhs.mem, Word(lhs.value), Word(rhs.value)),
             Scalar(IF EqS8(rhs.mem, Word(lhs.value), Word(rhs.value)) THEN 1 ELSE 0))
  ELSE Plain(rhs.mem, Scalar(IF Word(lhs.value) = Word(rhs.value) THEN 1 ELSE 0))

\* Arguments: the operands in order, and those that are destroyed after the
\* call because the caller made them.
Argument(r, type) ==
  [operands |-> <<r>>,
   owned |-> IF r.category = "OwnedTemp" /\ r.addr # NoAddr /\ NeedsDestroy(type)
             THEN <<[addr |-> r.addr, type |-> type]>> ELSE <<>>]

MakeVariant(m, tag, payload) ==
  Result(Alloca(Store(m, NewTemp(m), [tag |-> tag, payload |-> payload])),
         NewTemp(m), << >> :> [tag |-> tag, payload |-> payload], "OwnedTemp")

RECURSIVE Lower(_, _, _), LowerAdd(_, _, _, _), LowerRight(_, _, _), LowerArgs(_, _, _, _),
          Call(_, _, _, _), Run(_, _, _), Exec(_, _, _), DefaultInit(_, _, _, _),
          Construct(_, _, _), VariantOf(_, _, _), TestCase(_, _, _, _, _), Switch(_, _, _, _, _)

LowerArgs(m, args, self, done) ==
  IF args = <<>> THEN done @@ [mem |-> m]
  ELSE LET r == Lower(m, args[1], self)
           a == Argument(r, args[1].type)
       IN LowerArgs(r.mem, Tail(args), self,
                    [operands |-> done.operands \o a.operands, owned |-> done.owned \o a.owned])

Args(m, args, self) == LowerArgs(m, args, self, [operands |-> <<>>, owned |-> <<>>])

\* Parameters are stored in slots of the callee as they are passed, and are not
\* destroyed by it (emitFuncBody).
RECURSIVE Bind(_, _, _, _)
Bind(m, method, operands, i) ==
  IF i > Len(method.params) THEN m
  ELSE Bind(StoreAll(m, Local(method.params[i]), operands[i].value), method, operands, i + 1)

\* Mutant: the frame of the callee stays.
ReturnKeepsFrame(r, method) == r

Return(r, method) == [r EXCEPT !.mem = Drop(@, {method.params[i] : i \in DOMAIN method.params})]

Call(m, method, operands, self) ==
  Return(Lower(Run(Bind(m, method, operands, 1), method.body, self), method.result, self), method)

AfterCall(r, owned) == Plain(DestroyAll(r.mem, owned), r.value)

\* The runtime log reads its arguments.
LogReads(m, operands, i) ==
  operands[i].addr = NoAddr \/ operands[i].value[<<>>].data = Null
    \/ Readable(m, operands[i].value[<<>>])

LogArgs(m, operands) ==
  IF \A i \in DOMAIN operands : LogReads(m, operands, i) THEN m ELSE Corrupt(m)

\* emitFieldZeroInit, then the default initialisation's own statements.
DefaultInit(m, a, type, i) ==
  IF i > Len(type.fields) THEN Run(m, type.init, a)
  ELSE DefaultInit(
         LET zeroed == IF NeedsDestroy(type.fields[i])
                       THEN StoreAll(m, At(a, <<i>>), ZeroValue(type.fields[i])) ELSE m
         IN IF type.fields[i].kind = "STRUCT"
            THEN DefaultInit(zeroed, At(a, <<i>>), type.fields[i], 1) ELSE zeroed,
         a, type, i + 1)

\* args: the operands of the constructor; a: the temporary that is constructed.
Construct(args, e, a) ==
  LET m == DefaultInit(args.mem, a, e.type, 1)
      done == IF e.init = Uninitialised THEN m
              ELSE Call(m, e.init, args.operands, a).mem
      value == Load(done, a, e.type)
  IN Plain(DestroyAll(value.mem, args.owned), value.value)

\* The payload is evaluated before its block is allocated.
VariantOf(r, e, b) ==
  IF r.mem.status # "running" THEN MakeVariant(r.mem, e.tag, Null)
  ELSE MakeVariant(Assign(NewPayload(r.mem, e.payload.type), PayloadAddr(b), r, e.payload.type),
                   e.tag, b)

LowerRight(lhs, e, self) ==
  CASE e.op = "equal" -> Compare(lhs, Lower(lhs.mem, e.rhs, self), e.lhs.type.kind)
    [] e.op = "and"   -> IF Word(lhs.value).number = 0 THEN Plain(lhs.mem, Scalar(0))
                         ELSE Lower(lhs.mem, e.rhs, self)

LowerAdd(lhs, e, self, rhs) ==
  IF rhs.mem.status # "running" THEN StringTemp(rhs.mem, NoAddr)
  ELSE LET left == Spilled([lhs EXCEPT !.mem = rhs.mem])
       IN StringAdd(left, Spilled([rhs EXCEPT !.mem = left.mem]))

Lower(m, e, self) ==
  CASE e.op = "string"  -> StringLiteral(m, e.text)
    [] e.op = "number"  -> Plain(m, Scalar(e.number))
    [] e.op = "none"    -> Plain(m, Scalar(0))
    [] e.op = "load"    -> Load(m, LowerPlace(e.place, self), e.type)
    [] e.op = "payload" ->
         LET a == LowerPlace(e.place, self)
         IN Load(Using(m, {a}, m), PayloadAddr(IF a \in DOMAIN m.cell THEN m.cell[a].payload
                                               ELSE Null), e.type)
    [] e.op = "add"     ->
         LET lhs == Lower(m, e.lhs, self)
         IN LowerAdd(lhs, e, self, Lower(lhs.mem, e.rhs, self))
    [] e.op \in {"equal", "and"} -> LowerRight(Lower(m, e.lhs, self), e, self)
    [] e.op = "call"    ->
         LET args == Args(m, e.args, self)
         IN AfterCall(Call(args.mem, e.method, args.operands, self), args.owned)
    [] e.op = "runtime" ->
         LET args == Args(m, e.args, self)
         IN Plain(DestroyAll(LogArgs(args.mem, args.operands), args.owned), Scalar(0))
    [] e.op = "struct"  ->
         Construct(Args(Spill(m, ZeroValue(e.type)), e.args, self), e, NewTemp(m))
    [] e.op = "variant" ->
         IF e.payload = NoPayload THEN MakeVariant(m, e.tag, Null)
         ELSE LET r == Lower(m, e.payload, self) IN VariantOf(r, e, NewBlock(r.mem))

-----------------------------------------------------------------------------
(* Statements: lowerStmt.cpp, lowerSwitch.cpp. *)

\* The cases of a switch on strings are tried in order; the literal of a case
\* is destroyed as soon as it has been compared.
\* Mutant: the literal is destroyed before it is compared.
TestFreedCase(literal, value, s, i, self) ==
  LET m == Destroy(literal.mem, literal.addr, String)
      equal == Compare(Result(m, NoAddr, value, "Plain"), [literal EXCEPT !.mem = m], "STRING")
  IN IF Word(equal.value).number = 1 THEN Run(equal.mem, s.arms[i], self)
     ELSE Switch(equal.mem, value, s, i + 1, self)

TestCase(literal, value, s, i, self) ==
  IF literal.mem.status # "running" THEN literal.mem
  ELSE LET equal == Compare(Result(literal.mem, NoAddr, value, "Plain"), literal, "STRING")
           m == Destroy(equal.mem, literal.addr, String)
       IN IF Word(equal.value).number = 1 THEN Run(m, s.arms[i], self)
          ELSE Switch(m, value, s, i + 1, self)

Switch(m, value, s, i, self) ==
  IF i > Len(s.cases) THEN Run(m, s.arms[i], self)
  ELSE TestCase(StringLiteral(m, s.cases[i]), value, s, i, self)

Slots(locals) == [i \in DOMAIN locals |-> [addr |-> Local(locals[i][1]), type |-> locals[i][2]]]

Owners(locals) == SelectSeq(Slots(locals), LAMBDA l : NeedsDestroy(l.type))

Leave(m, locals) == Drop(m, {locals[i][1] : i \in DOMAIN locals})

Declare(r, s) == Assign(r.mem, Local(s.name), r, s.type)

Exec(m, s, self) ==
  CASE s.stmt = "decl" ->
         LET zeroed == StoreAll(m, Local(s.name), ZeroValue(s.type))
         IN IF s.init = Uninitialised THEN zeroed ELSE Declare(Lower(zeroed, s.init, self), s)
    [] s.stmt = "assign" ->
         LET r == Lower(m, s.value, self)
         IN Assign(r.mem, LowerPlace(s.place, self), r, s.value.type)
    [] s.stmt = "expr"    -> Lower(m, s.value, self).mem
    [] s.stmt = "cleanup" -> Leave(DestroyAll(m, Reverse(Owners(s.locals))), s.locals)
    [] s.stmt = "switch"  ->
         LET r == Lower(m, s.value, self) IN Switch(r.mem, r.value, s, 1, self)

Run(m, stmts, self) ==
  IF stmts = <<>> \/ m.status # "running" THEN m
  ELSE Run(Exec(m, stmts[1], self), Tail(stmts), self)

-----------------------------------------------------------------------------
(* A program: blocks of statements in any order.  A block may need locals   *)
(* to be declared or not to be, and the case of a match a variant.          *)

RECURSIVE Reachable(_, _)
Reachable(m, roots) ==
  LET next == roots \cup {Pointer(m.cell[a]) : a \in {x \in DOMAIN m.cell : x.root \in roots}}
  IN IF next = roots THEN roots ELSE Reachable(m, next)

Owned(m, locals) == Reachable(m, locals \cup {"object"}) \cap Blocks

\* Temporaries are gone with the statement.  What it freed can be used again;
\* the model hands out leaked blocks again too, the program never does.
EndOfStatement(m, locals) ==
  LET kept == Owned(m, locals)
  IN [Drop(m, {"temp"} \cup (Blocks \ kept)) EXCEPT
        !.temps = 0,
        !.block = [b \in Blocks |-> IF b \in kept THEN @[b] ELSE "unused"],
        !.text = [b \in Blocks |-> IF b \in kept THEN @[b] ELSE <<>>]]

Init ==
  /\ scenario \in DOMAIN Scenarios
  /\ mem = EndOfStatement(DefaultInit(StoreAll(NoMemory, Object, ZeroValue(ObjectType)),
                                      Object, ObjectType, 1), {})
  /\ declared = {}
  /\ alive = TRUE
  /\ lost = {}

Short(m) == \A b \in Blocks : Len(m.text[b]) <= MaxLen

\* The tag of an enum selects the case (lowerEnumSwitch).
Matches(block) ==
  block.when # <<>> => mem.cell[LowerPlace(block.when[1], Object)].tag = block.when[2]

Leaks(m, locals) == {b \in Owned(mem, declared) \ Owned(m, locals) : m.block[b] = "live"}

\* The memory m after statements that leave the variables locals.
Proceed(m, locals) ==
  /\ Short(m)
  /\ mem' = EndOfStatement(m, locals)
  /\ lost' = IF m.status = "running" THEN Leaks(m, locals) ELSE {}
  /\ declared' = locals
  /\ UNCHANGED scenario

RunBlock(block) ==
  /\ alive /\ mem.status = "running"
  /\ block.needs \subseteq declared /\ block.unless \cap declared = {}
  /\ Matches(block)
  /\ Proceed(Run(mem, block.body, Object), (declared \cup block.declares) \ block.leaves)
  /\ alive' = (mem'.status # "aborted")

\* The object is destroyed when no method is running.
DestroyObject ==
  /\ alive /\ mem.status = "running" /\ declared = {}
  /\ Proceed(Drop(Destroy(mem, Object, ObjectType), {"object"}), {})
  /\ alive' = FALSE

Next == (\E block \in Scenarios[scenario].blocks : RunBlock(block)) \/ DestroyObject

Spec == Init /\ [][Next]_vars

-----------------------------------------------------------------------------
(* Properties *)

Statuses == {"running", "aborted", "corrupt"}

\* Every cell has an address of a variable, the object or a live block, and
\* the block table says what is in use.
TypeOK ==
  /\ scenario \in DOMAIN Scenarios /\ alive \in BOOLEAN
  /\ mem.status \in Statuses
  /\ declared \subseteq DOMAIN Scenarios[scenario].locals
  /\ mem.status = "running" => mem.block \in [Blocks -> {"unused", "live"}]
  /\ mem.status = "running" =>
       {a.root : a \in DOMAIN mem.cell}
         \subseteq declared \cup {"object"} \cup {b \in Blocks : mem.block[b] = "live"}

\* The value a place holds, for the abstract store.
RECURSIVE Content(_, _)
Content(a, type) ==
  CASE type.kind = "STRING" -> TextAt(mem, a)
    [] type.kind = "STRUCT" ->
         [i \in DOMAIN type.fields |-> Content(At(a, <<i>>), type.fields[i])]
    [] type.kind = "ARRAY"  -> [i \in 1..type.size |-> Content(At(a, <<i>>), type.base)]
    [] type.kind = "ENUM"   ->
         [tag |-> mem.cell[a].tag,
          payload |-> IF mem.cell[a].payload = Null THEN <<>>
                      ELSE Content(PayloadAddr(mem.cell[a].payload),
                                   type.payloads[mem.cell[a].tag])]
    [] OTHER                -> mem.cell[a].number

Values == INSTANCE ValueStore WITH store <-
  [x \in declared \cup (IF alive THEN {"object"} ELSE {}) |->
     IF x = "object" THEN Content(Object, ObjectType)
     ELSE Content(Local(x), Scenarios[scenario].locals[x])]

\* Strings, structs and enums are values: every block of statements has the
\* effect it has on a store of values, with no sharing between variables.
ValueSemantics == Values!Spec
=============================================================================
