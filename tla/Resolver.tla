------------------------------- MODULE Resolver -------------------------------
(***************************************************************************)
(* Resolver.cpp and its parts (SemanticAnalyzer/Resolver): the pass that   *)
(* gives every expression its type and every name its symbol.  The         *)
(* functions of the runtime's namespace log are left out.                  *)
(***************************************************************************)
EXTENDS Conversions

ResolverExprs ==
  [LiteralExpr |-> <<"LITERAL">>, NameExpr |-> <<"NAME">>,
   BinaryExpr |-> <<"left", "right", "BINARY">>, UnaryExpr |-> <<"operand", "UNARY">>,
   AssignExpr |-> <<"target", "value", "ASSIGN">>, MemberExpr |-> <<"object", "MEMBER">>,
   ArrayAccessExpr |-> <<"object", "index", "ELEMENT">>,
   CallExpr |-> <<"object", "CALLEE", "args", "CALL">>,
   TernaryExpr |-> <<"condition", "thenExpr", "elseExpr", "TERNARY">>,
   ThisExpr |-> <<"RECEIVER">>, SelfExpr |-> <<"RECEIVER">>, SuperExpr |-> <<"RECEIVER">>,
   RootExpr |-> <<"RECEIVER">>, CastExpr |-> <<"expr", "type", "CAST">>,
   MatchExpr |-> <<"ENTER", "SELECT", "value", "cases", "MATCH", "EXIT">>]

ResolverBuiltins ==
  [BuiltInNameExpr |-> <<"STORAGE">>, SpawnExpr |-> <<"storage", "type", "SPAWNED", "args", "SPAWN">>,
   ViewExpr |-> <<"storage", "target", "VIEW">>, DestroyExpr |-> <<"storage", "target", "VIEW">>,
   QuitExpr |-> <<"NOINIT">>, DefaultValueExpr |-> <<"WILDCARD">>,
   Range |-> <<"start", "FROM", "end", "TO", "step", "BY">>,
   CaseValueExpr |-> <<"SELECTOR", "selector", "VARIANT">>]

\* The selectors of a clause are resolved in the scope of its body.
ResolverStmts ==
  [ExprStmt |-> <<"expr">>, BlockStmt |-> <<"ENTER", "statements", "EXIT">>,
   IfStmt |-> <<"condition", "CONDITION", "thenBranch", "elseBranch">>,
   WhileStmt |-> <<"condition", "CONDITION", "body">>,
   ForStmt |-> <<"initializer", "range", "COUNTER", "ENTER", "body", "EXIT">>,
   SwitchStmt |-> <<"ENTER", "value", "SELECT", "cases", "SWITCH", "EXIT">>,
   Case |-> <<"OPEN", "values", "EXIT", "body", "CLAUSE">>,
   Default |-> <<"OPEN", "EXIT", "body", "CLAUSE">>,
   ReturnStmt |-> <<"NOINIT", "value", "RETURN">>,
   ValueTransferStmt |-> <<"TRANSFER", "value", "TRANSFERRED">>, DeclStmt |-> <<"decl">>]

ResolverTypes == [IdentifierType |-> <<"RESOLVE">>, BuiltinType |-> <<"RESOLVE">>,
                  ArrayType |-> <<"element", "SIZE", "RESOLVE">>, GenericType |-> <<"inner", "RESOLVE">>]

\* A trait's scope is entered, a signature's is not.
MemberDecls ==
  [StructDecl |-> <<"ENTER", "fields", "inits", "EXIT", "IMPLEMENTED">>,
   ImplDecl |-> <<"ENTER", "methods", "EXIT", "SIGNATURES">>,
   TraitDecl |-> <<"ENTER", "traitSigs", "EXIT">>, TraitSig |-> <<"params">>,
   FuncDecl |-> <<"ENTER", "METHOD", "params", "body", "returnType", "RETURNS", "OVERRIDE", "EXIT">>,
   InitDecl |-> <<"INIT", "ENTER", "body", "EXIT">>, OnDestroyDecl |-> <<"INIT", "ENTER", "body", "EXIT">>,
   VarDecl |-> <<"LINKED", "init", "VAR">>, Param |-> <<"type", "TYPE", "init">>]

\* Mutant: the methods of a class before its fields.
MethodsFirst ==
  MemberDecls @@ [ClassDecl |-> <<"ENTER", "methods", "fields", "innerDecl", "EXIT", "IMPLEMENTED">>]

ResolverDecls ==
  MemberDecls @@ [ClassDecl |-> <<"ENTER", "fields", "methods", "innerDecl", "EXIT", "IMPLEMENTED">>]

-----------------------------------------------------------------------------
(* Where a node stands *)

TypeOf(p, t)        == IF p \in DOMAIN t.typed THEN t.typed[p] ELSE Null
TypeAt(p, part, t)  == TypeOf(Append(p, part), t)
SetType(p, id, t)   == IF id = Null THEN t ELSE [t EXCEPT !.typed = (p :> id) @@ @]
Means(p, symbol, t) == [t EXCEPT !.meaning = (p :> symbol) @@ @]
Ask(holds, t)       == IF holds THEN t ELSE Refuse(t)

\* The innermost class, struct or impl around p, and the type it is about.
Owners(p, t) ==
  {i \in 1..Len(p) : LET q == SubSeq(p, 1, i) IN q \in DOMAIN t.target \/ TypeKind(q, t) \in {"CLASS", "STRUCT"}}
OwnerAt(p, t) == SubSeq(p, 1, CHOOSE i \in Owners(p, t) : \A j \in Owners(p, t) : j <= i)
currentType(p, t) ==
  CASE Owners(p, t) = {} -> Null
    [] Owners(p, t) # {} /\ OwnerAt(p, t) \in DOMAIN t.target -> t.target[OwnerAt(p, t)]
    [] OTHER -> OwnerAt(p, t)

InInit(p, t) ==
  \E i \in 1..Len(p) : LET q == SubSeq(p, 1, i) IN q \in DOMAIN t.methods /\ t.methods[q].name = "init"

-----------------------------------------------------------------------------
(* Names *)

OwnValue(name, s, t) == IF name \in DOMAIN t.scopes[s].value THEN t.scopes[s].value[name] ELSE Null

RECURSIVE ValueFrom(_, _, _), MemberFrom(_, _, _)
ValueFrom(name, s, t) ==
  IF s = Null THEN Null
  ELSE IF OwnValue(name, s, t) # Null THEN OwnValue(name, s, t) ELSE ValueFrom(name, t.scopes[s].parent, t)
MemberFrom(name, type, t) ==
  IF type = Null THEN Null
  ELSE IF OwnValue(name, type, t) # Null THEN OwnValue(name, type, t) ELSE MemberFrom(name, t.types[type].base, t)

\* In an impl, the fields of its struct are in sight as well.
resolveValue(name, p, t) ==
  LET v    == ValueFrom(name, t.current, t)
      self == Owners(p, t) # {} /\ OwnerAt(p, t) \in DOMAIN t.target
  IN IF v = Null /\ self THEN OwnValue(name, currentType(p, t), t) ELSE v

MeansValue(p, v, t) ==
  IF t.values[v].type = Null THEN Internal(t) ELSE Means(p, v, SetType(p, t.values[v].type, t))

\* A type may be named only if it is an enum; a field only of the direct base.
resolveName(n, p, t) ==
  LET v     == resolveValue(n.name, p, t)
      type  == getType(n.name, t)
      owner == currentType(p, t)
      base  == IF owner = Null THEN Null ELSE t.types[owner].base
      field == IF base = Null THEN Null ELSE OwnValue(n.name, base, t)
  IN CASE v # Null -> MeansValue(p, v, t)
       [] v = Null /\ type # Null ->
            IF TypeKind(type, t) = "ENUM" THEN Means(p, type, SetType(p, type, t)) ELSE Internal(t)
       [] v = Null /\ type = Null /\ owner = Null -> Internal(t)
       [] v = Null /\ type = Null /\ owner # Null -> IF field = Null THEN Refuse(t) ELSE MeansValue(p, field, t)

OwnReceivers == {"SelfExpr", "ThisExpr"}
Accessible(modi, receiver, protected) ==
  modi = "public" \/ receiver \in OwnReceivers \/ (modi \in protected /\ receiver = "SuperExpr")

resolveMember(n, p, t) ==
  LET type   == TypeAt(p, "object", t)
      member == MemberFrom(n.member, type, t)
  IN CASE type = Null -> Internal(t)
       [] TypeKind(type, t) = "ENUM" -> Ask(n.member \in DOMAIN t.types[type].variants, SetType(p, type, t))
       [] IsHandle(type) -> Refuse(t)
       [] type # Null /\ TypeKind(type, t) # "ENUM" /\ ~IsHandle(type) ->
            IF type \notin DOMAIN t.scopes THEN Crash(t)
            ELSE IF member = Null \/ ~Accessible(t.values[member].modi, n.object.kind, {"protected"}) THEN Refuse(t)
            ELSE Means(p, member, SetType(p, t.values[member].type, t))

-----------------------------------------------------------------------------
(* Operators, casts and receivers *)

resolveBinary(n, p, t) ==
  LET l  == TypeAt(p, "left", t)
      r  == TypeAt(p, "right", t)
      op == binaryCasting(l, r, t)
  IN IF Null \in {l, r} THEN Internal(t)
     ELSE IF ~isBinaryOperable(n.op, l, r, t) THEN Refuse(t)
     ELSE IF op = Null THEN Internal(t)
     ELSE SetType(p, binaryResult(n.op, op), t)

resolveUnary(n, p, t) ==
  LET type == TypeAt(p, "operand", t)
  IN CASE type = Null -> Crash(t)
       [] n.op = "!" -> Ask(IsBool(type) \/ IsInt(type), SetType(p, type, t))
       [] n.op = "+" -> Ask(IsNumeric(type), SetType(p, type, t))
       [] n.op = "-" -> Ask(IsSigned(type), SetType(p, type, t))

\* Mutant: any assignment of the right type.
AssignAny(p, t) ==
  IF ~isAssignable(TypeAt(p, "target", t), TypeAt(p, "value", t), t) THEN Refuse(t)
  ELSE SetType(p, TypeAt(p, "value", t), t)

\* The target has to turn into the value, and an observer stays what it is.
resolveAssign(p, t) ==
  LET target == TypeAt(p, "target", t)
      value  == TypeAt(p, "value", t)
  IN IF Null \in {target, value} THEN Internal(t)
     ELSE IF ~isAssignable(target, value, t) \/ TypeKind(target, t) = "CLASS" THEN Refuse(t)
     ELSE SetType(p, value, t)

resolveElement(p, t) ==
  LET array == TypeAt(p, "object", t)
  IN IF TypeAt(p, "index", t) = Null THEN Crash(t)
     ELSE IF IsInt(TypeAt(p, "index", t)) /\ array # Null /\ array[1] = "array" THEN SetType(p, array[2], t)
     ELSE Refuse(t)

\* The condition's type is not asked for.
resolveTernary(p, t) ==
  Ask(TypeAt(p, "thenExpr", t) = TypeAt(p, "elseExpr", t), SetType(p, TypeAt(p, "thenExpr", t), t))

resolveReceiver(n, p, t) ==
  CASE n.kind \in OwnReceivers -> SetType(p, currentType(p, t), t)
    [] n.kind = "RootExpr"     -> SetType(p, t.main, t)
    [] n.kind = "SuperExpr"    -> IF currentType(p, t) = Null THEN Crash(t)
                                  ELSE LET base == t.types[currentType(p, t)].base
                                       IN Ask(base # Null, SetType(p, base, t))

-----------------------------------------------------------------------------
(* Calls *)

Arguments(n, p, t) ==
  [i \in DOMAIN n.args |-> [node |-> n.args[i], type |-> TypeOf(p \o <<"args", i>>, t)]]

\* An argument without a type is met before the candidate is ruled out.
UntypedArgument(bucket, args, t) ==
  \E m \in Range(bucket) :
    /\ Len(t.methods[m].params) = Len(args)
    /\ \E i \in DOMAIN args : args[i].type = Null /\ \A j \in 1..(i - 1) : Ranks(m, args, t)[j] # Invalid

resolveMethodOverload(bucket, args, p, t) ==
  IF UntypedArgument(bucket, args, t) THEN Internal(t)
  ELSE IF Cardinality(Best(bucket, args, t)) # 1 THEN Refuse(t)
  ELSE Means(p, CHOOSE m \in Best(bucket, args, t) : TRUE, t)

isTypeReceiver(n, p, t) ==
  n.object.kind = "NameExpr" /\ t.meaning[Append(p, "object")] \in DOMAIN t.types

HasMethod(name, type, t) == name \in DOMAIN t.scopes[type].methods

\* What is asked before the arguments: a method by that name in the receiver's
\* type, and in no base of it.
resolveCallee(n, p, t) ==
  LET type == IF "object" \in DOMAIN n THEN TypeAt(p, "object", t) ELSE currentType(p, t)
  IN CASE "object" \notin DOMAIN n /\ getType(n.callee, t) # Null -> t
       [] "object" \notin DOMAIN n /\ getType(n.callee, t) = Null ->
            IF type = Null THEN Crash(t) ELSE Ask(HasMethod(n.callee, type, t), t)
       [] "object" \in DOMAIN n ->
            IF type = Null THEN Internal(t)
            ELSE IF isTypeReceiver(n, p, t)
            THEN Ask(n.callee \in DOMAIN t.types[type].variants /\ Len(n.args) <= 1, t)
            ELSE IF IsHandle(type) THEN Refuse(t)
            ELSE IF type \notin DOMAIN t.scopes THEN Internal(t)
            ELSE Ask(HasMethod(n.callee, type, t), t)

resolveInit(n, p, t) ==
  LET type   == getType(n.callee, t)
      inits  == t.scopes[type].inits
      chosen == resolveMethodOverload(inits, Arguments(n, p, t), p, t)
  IN IF type \notin DOMAIN t.scopes THEN Crash(t)
     ELSE IF inits = <<>> THEN Ask(n.args = <<>>, SetType(p, type, t))
     ELSE IF chosen.error = "none" THEN SetType(p, type, chosen) ELSE chosen

PayloadOf(variant, t) ==
  IF Append(variant, "payload") \in DOMAIN t.resolved THEN t.resolved[Append(variant, "payload")] ELSE Null

\* The payload has to turn into the argument; an argument that does not turn
\* into the payload loses its type.
ResolveEnumVariant(n, p, t) ==
  LET enum    == TypeAt(p, "object", t)
      payload == PayloadOf(t.types[enum].variants[n.callee], t)
      at      == p \o <<"args", 1>>
      arg     == TypeOf(at, t)
      fits    == IF n.args[1].kind = "LiteralExpr" THEN canImplicitlyLiteralConvert(n.args[1], payload)
                 ELSE canImplicitlyConvert(arg, payload, t)
  IN IF n.args = <<>> THEN Ask(payload = Null, SetType(p, enum, t))
     ELSE IF arg = Null THEN Internal(t)
     ELSE IF payload = Null \/ ~isAssignable(payload, arg, t) THEN Refuse(t)
     ELSE SetType(p, enum, [t EXCEPT !.typed[at] = IF fits THEN payload ELSE Null])

\* A method has a type once it is declared or resolved.
resolveMethod(n, p, t) ==
  LET explicit == "object" \in DOMAIN n
      type     == IF explicit THEN TypeAt(p, "object", t) ELSE currentType(p, t)
      chosen   == resolveMethodOverload(Bucket(n.callee, type, t), Arguments(n, p, t), p, t)
      method   == chosen.methods[chosen.meaning[p]]
  IN IF chosen.error # "none" THEN chosen
     ELSE IF explicit /\ ~Accessible(method.modi, n.object.kind, {"protected", "private"}) THEN Refuse(t)
     ELSE IF method.returnType = Null THEN Internal(t)
     ELSE SetType(p, method.returnType, chosen)

resolveCall(n, p, t) ==
  CASE "object" \notin DOMAIN n /\ getType(n.callee, t) # Null -> resolveInit(n, p, t)
    [] "object" \in DOMAIN n /\ isTypeReceiver(n, p, t)        -> ResolveEnumVariant(n, p, t)
    [] OTHER                                                   -> resolveMethod(n, p, t)

-----------------------------------------------------------------------------
(* Handles *)

\* The arguments of a spawn have to be of the very types of an init.
lookupInit(type, args, t) ==
  \/ t.scopes[type].inits = <<>> /\ args = <<>>
  \/ \E m \in Range(t.scopes[type].inits) :
       [i \in DOMAIN t.methods[m].params |-> t.values[t.methods[m].params[i]].type]
         = [i \in DOMAIN args |-> args[i].type]

resolveSpawn(n, p, t) ==
  LET type == t.resolved[Append(p, "type")]
      args == Arguments(n, p, t)
  IN IF \E i \in DOMAIN args : args[i].type = Null THEN Internal(t)
     ELSE Ask(lookupInit(type, args, t), SetType(p, <<"Handle", type>>, GetOrCreate(<<"Handle", type>>, t)))

resolveView(n, p, t) ==
  LET handle == TypeAt(p, "target", t)
  IN IF IsHandle(handle) /\ n.target.kind \notin {"SpawnExpr", "AssignExpr"} THEN SetType(p, handle[2], t)
     ELSE Refuse(t)

-----------------------------------------------------------------------------
(* switch and match: a stack of those that are open, and one of the clauses. *)

StartSelect(n, p, t) ==
  [t EXCEPT !.selects = Append(@, [at |-> p, match |-> n.kind = "MatchExpr", count |-> Len(n.cases),
                                   type |-> Null, default |-> FALSE, literals |-> {}, variants |-> {}])]

OpenClause(n, p, t) ==
  LET s == EnterAgain(Append(p, "body"), t)
  IN [s EXCEPT !.clauses = Append(@, [values |-> IF n.kind = "Case" THEN Len(n.values) ELSE 0,
                                      wild |-> FALSE, types |-> <<>>])]

Literally(n, p, t) == SetType(p, LiteralType(n), t)

\* The enum that is selected from, or null.
getTargetType(t) ==
  LET type == TypeAt(Last(t.selects).at, "value", t) IN IF TypeKind(type, t) = "ENUM" THEN type ELSE Null

\* No type of a literal is compared with the value's.
Selector(n, p, t) ==
  LET key == <<n.value.type, n.value.value>>
      s   == Literally(n.value, p, Literally(n.value, Append(p, "value"), t))
  IN CASE n.value.kind = "LiteralExpr" ->
            IF key \in Last(t.selects).literals THEN Internal(t)
            ELSE [s EXCEPT !.selects[Len(t.selects)].literals = @ \cup {key}]
       [] n.value.kind = "DefaultValueExpr" -> [t EXCEPT !.clauses[Len(t.clauses)].wild = TRUE]
       [] n.value.kind \notin {"LiteralExpr", "DefaultValueExpr"} ->
            IF TypeAt(Last(t.selects).at, "value", t) = Null THEN Crash(t)
            ELSE Ask(n.value.kind \in {"NameExpr", "MemberExpr", "CallExpr"}, t)

\* The name of a payload's value is new in the body's scope.
BindPayload(n, p, variant, t) ==
  LET payload == PayloadOf(variant, t)
      arg     == n.value.args[1]
  IN IF n.value.kind # "CallExpr" THEN t
     ELSE IF payload = Null \/ arg.kind # "NameExpr" \/ OwnValue(arg.name, t.current, t) # Null THEN Refuse(t)
     ELSE [t EXCEPT !.values = (p :> [ValueSymbol EXCEPT !.type = payload]) @@ @,
                    !.scopes[t.current].value = (arg.name :> p) @@ @]

UseVariant(name, t) ==
  IF name \in Last(t.selects).variants THEN Internal(t)
  ELSE [t EXCEPT !.selects[Len(t.selects)].variants = @ \cup {name}]

\* What is selected has to be an enum: if not, its null is used.
SelectVariant(n, p, t) ==
  LET name   == CASE n.value.kind = "NameExpr"   -> n.value.name
                  [] n.value.kind = "MemberExpr" -> n.value.member
                  [] n.value.kind = "CallExpr"   -> n.value.callee
      enum   == getTargetType(t)
      named  == TypeOf(p \o <<"value", "object">>, t)
      bound  == BindPayload(n, p, t.types[enum].variants[name], t)
      used   == UseVariant(name, bound)
      single == n.value.kind # "CallExpr" \/ Last(t.clauses).values = 1
  IN IF n.value.kind \in {"LiteralExpr", "DefaultValueExpr"} THEN t
     ELSE IF "object" \in DOMAIN n.value /\ named # enum THEN Refuse(t)
     ELSE IF enum = Null THEN Crash(t)
     ELSE IF name \notin DOMAIN t.types[enum].variants THEN Refuse(t)
     ELSE IF bound.error # "none" THEN bound
     ELSE IF used.error = "none" /\ ~single THEN Refuse(t)
     ELSE used

TransferStmt(t) ==
  IF t.clauses = <<>> THEN Refuse(t)
  ELSE IF t.selects = <<>> THEN Internal(t)
  ELSE Ask(Last(t.selects).match, t)

Transferred(p, t) == [t EXCEPT !.clauses[Len(t.clauses)].types = Append(@, TypeAt(p, "value", t))]

\* The first type that is transferred is the clause's, and the first clause's
\* the match's.  A clause that gives the match its type is not asked for _.
MatchClause(i, clause, t) ==
  LET select == Last(t.selects)
      s      == Len(t.selects)
      given  == {k \in DOMAIN clause.types : clause.types[k] # Null}
      first  == IF given = {} THEN Len(clause.types) ELSE Min(given)
      type   == clause.types[first]
      others == {clause.types[k] : k \in (first + 1)..Len(clause.types)}
  IN IF clause.types = <<>> THEN Refuse(t)
     ELSE IF Null \in others THEN Internal(t)
     ELSE IF clause.values # 1 \/ \E o \in others : ~isAssignable(o, type, t) THEN Refuse(t)
     ELSE IF select.type = Null THEN [t EXCEPT !.selects[s].type = type]
     ELSE IF type = Null THEN Internal(t)
     ELSE IF ~isAssignable(select.type, type, t) \/ (clause.wild /\ i # select.count) THEN Refuse(t)
     ELSE [t EXCEPT !.selects[s].default = @ \/ clause.wild]

SwitchClause(n, i, clause, t) ==
  LET default == n.kind = "Default"
      s       == Len(t.selects)
  IN IF (default /\ i # Last(t.selects).count) \/ clause.wild THEN Refuse(t)
     ELSE [t EXCEPT !.selects[s].default = @ \/ default]

Clause(n, p, t) ==
  LET s == [t EXCEPT !.clauses = Front(@)]
  IN IF Last(t.selects).match THEN MatchClause(Last(p), Last(t.clauses), s)
     ELSE SwitchClause(n, Last(p), Last(t.clauses), s)

Variants(type, t) == IF TypeKind(type, t) = "ENUM" THEN DOMAIN t.types[type].variants ELSE {}

\* Mutant: a switch inside a clause leaves its place to nobody.
EndSelectInside(t) == IF Len(t.selects) > 1 THEN t ELSE [t EXCEPT !.selects = Front(@)]
EndSelect(t) == [t EXCEPT !.selects = Front(@)]

resolveSelect(p, t) ==
  LET select == Last(t.selects)
      value  == TypeAt(p, "value", t)
      all    == Cardinality(select.variants) = Cardinality(Variants(value, t))
  IN CASE value = Null -> Crash(t)
       [] value # Null /\ ~select.match -> Ask(all \/ select.default, EndSelect(t))
       [] value # Null /\ select.match ->
            Ask(select.default \/ (all /\ ~IsPrimitive(value)), SetType(p, select.type, EndSelect(t)))

-----------------------------------------------------------------------------
(* Statements *)

Condition(p, t) == Ask(IsBool(TypeAt(p, "condition", t)), t)

\* The counter has to turn into the range's type.
Counter(p, t) ==
  Ask(isAssignable(t.values[Append(p, "initializer")].type, TypeAt(p, "range", t), t), t)

RangePart(part, p, t) ==
  IF TypeAt(p, part, t) = Null THEN Crash(t) ELSE Ask(IsInt(TypeAt(p, part, t)), t)
RangeStep(n, p, t) ==
  LET s == IF "step" \in DOMAIN n THEN RangePart("step", p, t) ELSE t
  IN IF s.error = "none" THEN SetType(p, TypeAt(p, "start", s), s) ELSE s

Returned(m, t) == IF m \in DOMAIN t.returns THEN t.returns[m] ELSE <<>>

Return(n, p, t) ==
  LET type == IF "value" \in DOMAIN n THEN TypeAt(p, "value", t) ELSE Builtin("void")
  IN CASE type = Null -> Internal(t)
       [] type # Null /\ t.method = Null -> Crash(t)
       [] type # Null /\ t.method # Null ->
            [t EXCEPT !.returns = (t.method :> Append(Returned(t.method, t), type)) @@ @]

-----------------------------------------------------------------------------
(* Methods *)

\* Without a declared type, the first return gives it.
Returns(n, p, t) ==
  LET all  == Returned(p, t)
      type == IF "returnType" \in DOMAIN n THEN t.resolved[Append(p, "returnType")]
              ELSE IF all = <<>> THEN Builtin("void") ELSE all[1]
  IN IF (all = <<>> /\ type # Builtin("void")) \/ \E r \in Range(all) : ~isAssignable(type, r, t) THEN Refuse(t)
     ELSE [t EXCEPT !.methods[p].returnType = type, !.method = t.outer]

Frame(n, p, t) ==
  Ask("frame" \in n.mods => IsMain(currentType(p, t), t) /\ n.name = "update", t)

\* Mutant: override is asked for where the base has a method by that name.
OverridesByName(n, p, t) ==
  LET base == t.types[currentType(p, t)].base
  IN IF base # Null /\ ~HasMethod(n.name, base, t) THEN Ask("override" \notin n.mods, t)
     ELSE Frame(n, p, t)

\* Only the direct base is looked at.  Without a method by that name there, what
\* is asked of a frame method is skipped.
Override(n, p, t) ==
  LET base   == t.types[currentType(p, t)].base
      marked == "override" \in n.mods
  IN CASE base = Null -> IF marked THEN Refuse(t) ELSE Frame(n, p, t)
       [] base # Null /\ ~HasMethod(n.name, base, t) -> Ask(~marked, t)
       [] base # Null /\ HasMethod(n.name, base, t) ->
            IF hasSameMethodSig(Bucket(n.name, base, t), p, t) = marked THEN Frame(n, p, t) ELSE Refuse(t)

RECURSIVE Implements(_, _, _)
Implements(type, sig, t) ==
  type # Null /\ (hasSameSig(Bucket(t.methods[sig].name, type, t), sig, t) \/ Implements(t.types[type].base, sig, t))

checkImplementTraitSig(p, t) ==
  IF \A trait \in t.types[p].traits : \A sig \in TraitMethods(trait, t) : Implements(p, sig, t)
  THEN t ELSE Internal(t)

\* Asked in the code after each method, here of all of them at once.
ImplSignatures(n, p, t) ==
  Ask(n.traits # <<>> =>
        \A i \in DOMAIN n.methods : hasSameMethodSig(SetToSeq(t.sigs[p]), p \o <<"methods", i>>, t), t)

-----------------------------------------------------------------------------
(* Variables *)

WidthFor(bits) == IF bits <= 24 THEN Builtin("f32") ELSE IF bits <= 53 THEN Builtin("f64") ELSE Builtin("f128")

\* A literal is not compared with the type, except for a float's.
convertLit(n, type) ==
  IF IsFloat(type) /\ n.type = "LIT_INT" THEN WidthFor(ActiveBits[n.value] + 1) ELSE type

inferencePrim(type, init) ==
  CASE (IsInt(type) /\ IsInt(init)) \/ (IsFloat(type) /\ IsFloat(init)) ->
         IF Bits[init[2]] >= 32 THEN init ELSE type
    [] IsFloat(type) /\ IsInt(init) -> IF Bits[init[2]] <= 113 THEN WidthFor(Bits[init[2]]) ELSE Null
    [] (IsChar(type) /\ IsChar(init)) \/ (IsString(type) /\ IsString(init)) \/ (IsBool(type) /\ IsBool(init)) ->
         init
    [] OTHER -> Null

\* Mutant: a field may be a view.
FieldViews(n, p, t) == n.init.kind \in {"LiteralExpr", "SpawnExpr", "CallExpr", "MemberExpr", "ViewExpr"}

canFieldInit(n, p, t) ==
  \/ n.init.kind \in {"LiteralExpr", "SpawnExpr"}
  \/ n.init.kind = "CallExpr"
     /\ IF "object" \in DOMAIN n.init THEN isTypeReceiver(n.init, Append(p, "init"), t)
        ELSE getType(n.init.callee, t) # Null
  \/ n.init.kind = "MemberExpr" /\ TypeKind(TypeAt(p, "init", t), t) = "ENUM"

\* Mutant: a written width is as free as none.
InferAlways(n, p, t) ==
  LET type == t.resolved[Append(p, "type")]
      init == TypeAt(p, "init", t)
  IN CASE n.init.kind = "LiteralExpr" -> IF IsPrimitive(type) THEN convertLit(n.init, type) ELSE Null
       [] n.init.kind # "LiteralExpr" /\ IsPrimitive(type) -> inferencePrim(type, init)
       [] OTHER -> IF canImplicitlyConvert(init, type, t) THEN type ELSE Null

\* The type that the variable ends up with; Null refuses the initial value.
FinalType(n, p, t) ==
  LET type  == t.resolved[Append(p, "type")]
      init  == TypeAt(p, "init", t)
      final == IF IsPrimitive(type) /\ ~n.type.sized THEN inferencePrim(type, init) ELSE type
  IN IF n.init.kind = "LiteralExpr" THEN IF IsPrimitive(type) THEN convertLit(n.init, type) ELSE Null
     ELSE IF final # Null /\ canImplicitlyConvert(init, final, t) THEN final ELSE Null

IsObserver(p, t) == TypeKind(t.values[p].type, t) = "CLASS"

Initialised(n, p, t) ==
  LET final == FinalType(n, p, t)
  IN IF (IsObserver(p, t) /\ n.init.kind # "ViewExpr") \/ final = Null
        \/ (n.context = "CLASSBODY" /\ ~canFieldInit(n, p, t)) THEN Refuse(t)
     ELSE [t EXCEPT !.resolved[Append(p, "type")] = final, !.values[p].type = final]

resolveVar(n, p, t) ==
  CASE "init" \notin DOMAIN n -> Ask(~IsObserver(p, t), t)
    [] "init" \in DOMAIN n /\ TypeAt(p, "init", t) = Null /\ ~IsObserver(p, t)
       /\ (IsPrimitive(t.values[p].type) => n.type.sized) -> Internal(t)
    [] OTHER -> IF IsObserver(p, t) /\ t.method = Null THEN Refuse(t) ELSE Initialised(n, p, t)

-----------------------------------------------------------------------------
Expression(step, n, p, t) ==
  CASE step = "LITERAL"  -> Literally(n, p, t)
    [] step = "NAME"     -> resolveName(n, p, t)
    [] step = "BINARY"   -> resolveBinary(n, p, t)
    [] step = "UNARY"    -> resolveUnary(n, p, t)
    [] step = "ASSIGN"   -> resolveAssign(p, t)
    [] step = "MEMBER"   -> resolveMember(n, p, t)
    [] step = "ELEMENT"  -> resolveElement(p, t)
    [] step = "CALLEE"   -> resolveCallee(n, p, t)
    [] step = "CALL"     -> resolveCall(n, p, t)
    [] step = "TERNARY"  -> resolveTernary(p, t)
    [] step = "RECEIVER" -> resolveReceiver(n, p, t)
    [] step = "CAST"     -> SetType(p, t.resolved[Append(p, "type")], t)
    [] step = "STORAGE"  -> SetType(p, StorageType, t)
    [] step = "SPAWNED"  -> IF t.resolved[Append(p, "type")] \in DOMAIN t.scopes THEN t ELSE Internal(t)
    [] step = "SPAWN"    -> resolveSpawn(n, p, t)
    [] step = "VIEW"     -> resolveView(n, p, t)
    [] step = "WILDCARD" -> SetType(p, DefaultType, t)
    [] step = "FROM"     -> RangePart("start", p, t)
    [] step = "TO"       -> RangePart("end", p, t)
    [] step = "BY"       -> RangeStep(n, p, t)
    [] OTHER             -> t

Statement(step, n, p, t) ==
  CASE step = "ENTER"     -> EnterAgain(p, t)
    [] step = "EXIT"      -> Exit(t)
    [] step = "SELECT"    -> StartSelect(n, p, t)
    [] step = "OPEN"      -> OpenClause(n, p, t)
    [] step = "SELECTOR"  -> Selector(n, p, t)
    [] step = "VARIANT"   -> SelectVariant(n, p, t)
    [] step = "CLAUSE"    -> Clause(n, p, t)
    [] step \in {"SWITCH", "MATCH"} -> resolveSelect(p, t)
    [] step = "TRANSFER"  -> TransferStmt(t)
    [] step = "TRANSFERRED" -> Transferred(p, t)
    [] step = "CONDITION" -> Condition(p, t)
    [] step = "COUNTER"   -> Counter(p, t)
    [] step = "NOINIT"    -> Ask(~InInit(p, t), t)
    [] step = "RETURN"    -> Return(n, p, t)
    [] OTHER              -> Expression(step, n, p, t)

ResolverEffect(step, n, p, t) ==
  CASE step = "RESOLVE"   -> resolveTypeNode(n, p, t)
    [] step = "SIZE"      -> resolveFixedArraySize(n.size, t)
    [] step = "TYPE"      -> [t EXCEPT !.values[p].type = t.resolved[Append(p, "type")]]
    [] step = "METHOD"    -> [t EXCEPT !.outer = t.method, !.method = p]
    [] step = "INIT"      -> [t EXCEPT !.method = p]
    [] step = "RETURNS"   -> Returns(n, p, t)
    [] step = "OVERRIDE"  -> Override(n, p, t)
    [] step = "IMPLEMENTED" -> checkImplementTraitSig(p, t)
    [] step = "SIGNATURES" -> ImplSignatures(n, p, t)
    [] step = "LINKED"    -> IF Append(p, "type") \in DOMAIN t.resolved THEN t ELSE Internal(t)
    [] step = "VAR"       -> resolveVar(n, p, t)
    [] OTHER              -> Statement(step, n, p, t)

Resolving == INSTANCE Visitor
  WITH Visits <- ResolverExprs @@ ResolverBuiltins @@ ResolverStmts @@ ResolverTypes @@ ResolverDecls,
       Effect <- ResolverEffect

Resolve(decl, p, t) == Resolving!Visit(decl, p, t)
=============================================================================
