---------------------------- MODULE ValueStore ----------------------------
(***************************************************************************)
(* What the blocks of Ownership promise: variables hold values, and an     *)
(* assignment copies.  A string is its text, a struct or an array the      *)
(* sequence of its parts, an enum its variant with the payload.  There is  *)
(* no heap and nobody owns anything.                                       *)
(***************************************************************************)
EXTENDS MIRValue, TLC

CONSTANT Scenarios

VARIABLES scenario, store, declared, alive

vars == <<scenario, store, declared, alive>>

RECURSIVE Zero(_), Put(_, _, _), Get(_, _)
Zero(type) ==
  CASE type.kind = "STRING" -> <<>>
    [] type.kind = "STRUCT" -> [i \in DOMAIN type.fields |-> Zero(type.fields[i])]
    [] type.kind = "ARRAY"  -> [i \in 1..type.size |-> Zero(type.base)]
    [] type.kind = "ENUM"   -> [tag |-> 1, payload |-> <<>>]
    [] OTHER                -> 0

Put(value, path, part) ==
  IF path = <<>> THEN part
  ELSE [value EXCEPT ![path[1]] = Put(@, Tail(path), part)]

Get(value, path) == IF path = <<>> THEN value ELSE Get(value[path[1]], Tail(path))

\* self is the root and the path of the object a method runs on.
Under(place, self) == IF place.root = "self"
                      THEN Place(self.root, self.path \o place.path) ELSE place

Read(st, place) == Get(st[place.root], place.path)

Write(st, place, value) ==
  place.root :> (IF place.path = <<>> THEN value ELSE Put(st[place.root], place.path, value)) @@ st

Forget(st, names) == [x \in DOMAIN st \ names |-> st[x]]

-----------------------------------------------------------------------------
RECURSIVE Value(_, _, _), Values(_, _, _, _), Effect(_, _, _), Effects(_, _, _),
          Defaults(_, _, _, _), Construct(_, _, _, _)

Yields(st, value) == [st |-> st, value |-> value]

\* Arguments are evaluated from left to right.
Values(st, exprs, self, done) ==
  IF exprs = <<>> THEN Yields(st, done)
  ELSE LET r == Value(st, exprs[1], self)
       IN Values(r.st, Tail(exprs), self, Append(done, r.value))

Bound(st, method, args) ==
  [x \in {method.params[i] : i \in DOMAIN method.params} |->
     args[CHOOSE i \in DOMAIN method.params : method.params[i] = x]] @@ st

Called(st, method, args, self) ==
  LET r == Value(Effects(Bound(st, method, args), method.body, self), method.result, self)
  IN Yields(Forget(r.st, {method.params[i] : i \in DOMAIN method.params}), r.value)

\* The fields' own defaults first, then those of the struct itself.
Defaults(st, type, self, i) ==
  IF i > Len(type.fields) THEN Effects(st, type.init, self)
  ELSE Defaults(IF type.fields[i].kind = "STRUCT"
                THEN Defaults(st, type.fields[i], Under(Place("self", <<i>>), self), 1) ELSE st,
                type, self, i + 1)

Construct(st, e, args, new) ==
  LET made == Defaults(Write(st, new, Zero(e.type)), e.type, new, 1)
      done == IF e.init = Uninitialised THEN made ELSE Called(made, e.init, args, new).st
  IN Yields(Forget(done, {new.root}), Read(done, new))

Value(st, e, self) ==
  CASE e.op = "string"  -> Yields(st, e.text)
    [] e.op = "number"  -> Yields(st, e.number)
    [] e.op = "none"    -> Yields(st, 0)
    [] e.op = "load"    -> Yields(st, Read(st, Under(e.place, self)))
    [] e.op = "payload" -> Yields(st, Read(st, Under(e.place, self)).payload)
    [] e.op \in {"add", "equal"} ->
         LET r == Values(st, <<e.lhs, e.rhs>>, self, <<>>)
         IN Yields(r.st, IF e.op = "add" THEN r.value[1] \o r.value[2]
                         ELSE IF r.value[1] = r.value[2] THEN 1 ELSE 0)
    [] e.op = "and"     ->
         LET l == Value(st, e.lhs, self)
         IN IF l.value = 0 THEN l ELSE Value(l.st, e.rhs, self)
    [] e.op = "call"    ->
         LET args == Values(st, e.args, self, <<>>)
         IN Called(args.st, e.method, args.value, self)
    [] e.op = "runtime" -> Yields(Values(st, e.args, self, <<>>).st, 0)
    [] e.op = "struct"  ->
         LET args == Values(st, e.args, self, <<>>)
         IN Construct(args.st, e, args.value, Place("new", <<>>))
    [] e.op = "variant" ->
         IF e.payload = NoPayload THEN Yields(st, [tag |-> e.tag, payload |-> <<>>])
         ELSE LET r == Value(st, e.payload, self)
              IN Yields(r.st, [tag |-> e.tag, payload |-> r.value])

CaseFor(s, value) ==
  IF \E i \in DOMAIN s.cases : s.cases[i] = value
  THEN CHOOSE i \in DOMAIN s.cases : /\ s.cases[i] = value
                                     /\ \A j \in 1..i-1 : s.cases[j] # value
  ELSE Len(s.cases) + 1

Effect(st, s, self) ==
  CASE s.stmt = "decl"    ->
         IF s.init = Uninitialised THEN Write(st, Place(s.name, <<>>), Zero(s.type))
         ELSE LET r == Value(st, s.init, self) IN Write(r.st, Place(s.name, <<>>), r.value)
    [] s.stmt = "assign"  ->
         LET r == Value(st, s.value, self) IN Write(r.st, Under(s.place, self), r.value)
    [] s.stmt = "expr"    -> Value(st, s.value, self).st
    [] s.stmt = "cleanup" -> Forget(st, {s.locals[i][1] : i \in DOMAIN s.locals})
    [] s.stmt = "switch"  ->
         LET r == Value(st, s.value, self) IN Effects(r.st, s.arms[CaseFor(s, r.value)], self)

Effects(st, stmts, self) ==
  IF stmts = <<>> THEN st ELSE Effects(Effect(st, stmts[1], self), Tail(stmts), self)

-----------------------------------------------------------------------------
Object == Place("object", <<>>)
ObjectType == Struct(Scenarios[scenario].fields, <<>>)

Init ==
  /\ declared = {}
  /\ alive = TRUE
  /\ store = Defaults("object" :> Zero(ObjectType), ObjectType, Object, 1)

RunBlock(block) ==
  /\ alive
  /\ block.needs \subseteq declared
  /\ store' = Effects(store, block.body, Object)
  /\ declared' = (declared \cup block.declares) \ block.leaves
  /\ UNCHANGED <<scenario, alive>>

\* The object's end, and the end of the process when the heap is exhausted.
End ==
  /\ alive /\ ~alive'
  /\ UNCHANGED scenario

Next == (\E block \in Scenarios[scenario].blocks : RunBlock(block)) \/ End

Spec == Init /\ [][Next]_vars
=============================================================================
