------------------------------- MODULE Typing -------------------------------
(***************************************************************************)
(* What the Resolver's types promise of a program that goes on to the      *)
(* Verifier, or that is accepted.                                          *)
(***************************************************************************)
EXTENDS Frontend

Resolved == phase = "verify" /\ next = 1
Accepted == phase = "accepted"

Typed(p) == TypeOf(p, table)

MeaningOf(p) == IF p \in DOMAIN table.meaning THEN table.meaning[p] ELSE Null

\* p stands after the variable d, or in the methods of the class with the field d.
ReadAfter(p, d) ==
  \/ p[2] > d[2]
  \/ NodeAt(d).context = "CLASSBODY" /\ IsPrefix(Enclosing(d) \o <<"methods">>, p)
  \/ NodeAt(d).context = "BLOCK" /\ p[Len(d) - 1] > d[Len(d) - 1]

\* An initial value may change the type that a variable was given by the Linker.
\* What reads it later has seen the change; what was written before has not
\* (ResolverDecl.cpp:208, ResolverExpr.cpp:114).
UsesHaveFinalType ==
  Resolved =>
    \A p \in NodesOf({"NameExpr", "MemberExpr"}) :
      LET d == MeaningOf(p)
      IN d \in NodesOf({"VarDecl"}) /\ ReadAfter(p, d) => Typed(p) = table.values[d].type

\* A type's methods, as they are found by a call.
CalledAmong(p) ==
  LET n == NodeAt(p)
      m == MeaningOf(p)
  IN IF table.methods[m].name = "init" THEN table.scopes[CurrentType(m, table)].inits
     ELSE Bucket(n.callee, CurrentType(m, table), table)

\* The method that is called takes every argument at least as well as each other
\* one that could be called, and one argument better: the order in which they
\* are declared decides nothing (ResolveCall.cpp:94-165).
ChosenOverload ==
  Resolved =>
    \A p \in NodesOf({"CallExpr"}) :
      MeaningOf(p) \in DOMAIN table.methods =>
        LET given == [i \in DOMAIN NodeAt(p).args |->
                        [node |-> NodeAt(p).args[i], type |-> Typed(p \o <<"args", i>>)]]
            ranks == [m \in Viable(CalledAmong(p), given, table) |-> Ranks(m, given, table)]
        IN BeatsAll(MeaningOf(p), ranks)

NameOfCase(e) ==
  CASE e.kind = "NameExpr"   -> {e.name}
    [] e.kind = "MemberExpr" -> {e.member}
    [] e.kind = "CallExpr"   -> {e.callee}
    [] OTHER                 -> {}
CaseValues(n) ==
  UNION {IF c.kind = "Case" THEN {v.value : v \in Range(c.values)} ELSE {} : c \in Range(n.cases)}

\* A choice over an enum names every variant or has a clause for the rest; so
\* does a match over anything else.  It is asked at the end of the choice, also
\* of one that stands in a clause of another (ResolverStmt.cpp:48-80,
\* ResolverExpr.cpp:601-641).
Exhaustive ==
  Accepted =>
    \A p \in NodesOf({"SwitchStmt", "MatchExpr"}) :
      LET n     == NodeAt(p)
          enum  == Typed(Append(p, "value"))
          named == UNION {NameOfCase(e) : e \in CaseValues(n)}
      IN \/ \E c \in Range(n.cases) : c.kind = "Default"
         \/ \E e \in CaseValues(n) : e.kind = "DefaultValueExpr"
         \/ TypeKind(enum, table) = "ENUM" /\ named = DOMAIN table.types[enum].variants
         \/ TypeKind(enum, table) # "ENUM" /\ n.kind = "SwitchStmt"

ParamTypes(m) == [i \in DOMAIN table.methods[m].params |-> table.values[table.methods[m].params[i]].type]
Signature(m)  == <<table.methods[m].name, table.methods[m].returnType, ParamTypes(m)>>

\* A method is marked override if its direct base has one of its signature, and
\* only then; but the base's return type is not known if it is to be inferred
\* and the base stands later (ResolverDecl.cpp:137-157).  A class that names a
\* trait has or inherits what the trait asks for, by name and parameters.
OverridesMarked ==
  Accepted =>
    /\ \A m \in NodesOf({"FuncDecl"}) :
         LET base == table.types[CurrentType(m, table)].base
             over == {o \in NodesOf({"FuncDecl"}) : /\ base # Null
                                                    /\ CurrentType(o, table) = base
                                                    /\ Signature(o) = Signature(m)}
         IN IF "override" \in NodeAt(m).mods THEN over # {}
            ELSE \A o \in over : "returnType" \notin DOMAIN NodeAt(o) /\ o[2] > m[2]
    /\ \A class \in NodesOf({"ClassDecl"}) : \A trait \in table.types[class].traits :
         \A sig \in TraitMethods(trait, table) :
           \E m \in NodesOf({"FuncDecl"}) :
             /\ CurrentType(m, table) \in Family(class)
             /\ table.methods[m].name = table.methods[sig].name /\ ParamTypes(m) = ParamTypes(sig)

\* An object is seen only by a variable of a method that begins with a view: no
\* field and no assignment keeps one beyond the method, though currentMethod stays
\* set after an init and a field's initial value then passes for one in a method
\* (ResolverDecl.cpp:186-241, ResolverExpr.cpp:175).
ObserversInMethods ==
  Accepted =>
    /\ \A d \in NodesOf({"VarDecl"}) :
         TypeKind(table.values[d].type, table) = "CLASS" =>
           NodeAt(d).context = "BLOCK" /\ "init" \in DOMAIN NodeAt(d) /\ NodeAt(d).init.kind = "ViewExpr"
    /\ \A p \in NodesOf({"AssignExpr"}) : TypeKind(Typed(Append(p, "target")), table) # "CLASS"

\* A variable with a written width keeps it, but for a float that begins with a
\* whole number; without one it has the family that was written
\* (ResolverDecl.cpp:203-225, ResolverUtil.cpp:528-639).
WidthKept ==
  Resolved =>
    \A d \in NodesOf({"VarDecl"}) :
      LET type == NodeAt(d).type
          kept == table.values[d].type
      IN type.kind = "BuiltinType" =>
           IF IsFloat(Builtin(type.width)) THEN
             IsFloat(kept) /\ (kept # Builtin(type.width) /\ type.sized => NodeAt(d).init.kind = "LiteralExpr")
           ELSE IF type.sized THEN kept = Builtin(type.width)
           ELSE (IsInt(kept) <=> IsInt(Builtin(type.width))) /\ (IsBool(kept) <=> IsBool(Builtin(type.width)))

\* The bits of a numeric type that count: a sign takes one, a fraction does not.
ValueBits(type) ==
  CASE IsFloat(type) -> Precision[type[2]]
    [] type[2] \in Signed -> Bits[type[2]] - 1
    [] type[2] \in Unsigned -> Bits[type[2]]

\* Every value of from is one of to.
Keeps(from, to) ==
  CASE from = to -> TRUE
    [] IsNumeric(from) /\ IsNumeric(to) ->
         /\ IsFloat(from) => IsFloat(to)
         /\ IsSigned(from) => IsSigned(to)
         /\ ValueBits(from) <= ValueBits(to)
    [] OTHER -> Extends(from, to, table)

SameWidth(from, to) == IsNumeric(from) /\ IsNumeric(to) /\ Bits[from[2]] = Bits[to[2]]

\* What an operand may lose: nothing, unless both types are of one width.
NearlyKeeps(from, to) == Keeps(from, to) \/ SameWidth(from, to)

IsNumber(n) == n.kind = "LiteralExpr" /\ n.type = "LIT_INT"

\* The argument i of the call p becomes a parameter.
Passed(p, i) ==
  LET arg == NodeAt(p).args[i]
      to  == ParamTypes(MeaningOf(p))[i]
  IN CASE IsNumber(arg) -> IsNumeric(to) /\ (LiteralType(arg) = to \/ IntFits(arg.value, to[2]))
       [] arg.kind = "DefaultValueExpr" -> TRUE
       [] OTHER -> NearlyKeeps(Typed(p \o <<"args", i>>), to)

\* The initial value of d becomes the variable.
Begins(d) ==
  LET init == NodeAt(d).init
      to   == table.values[d].type
  IN CASE IsNumber(init) -> IsFloat(to) => IntFits(init.value, to[2])
       [] init.kind = "LiteralExpr" -> TRUE
       [] OTHER -> NearlyKeeps(Typed(Append(d, "init")), to)

\* Operands, arguments and initial values get another type without a cast only
\* where it holds every value of theirs (ResolverUtil.cpp:200-285, 445-459,
\* 538-574), with these exceptions of the code: one signed, the other not, or
\* one whole, the other a fraction, of one width (ResolverUtil.cpp:254-285), and
\* a number that an integer begins with, which is not looked at (557-565).
\* Neither is allowed by the documentation, nor is an assignment to a narrower
\* variable: see AcceptedIsLegal.  Returns, transfers and payloads are not asked.
ValuesKept ==
  Resolved =>
    /\ \A p \in NodesOf({"BinaryExpr"}) : \A side \in {"left", "right"} :
         IsNumeric(Typed(p)) => NearlyKeeps(Typed(Append(p, side)), Typed(p))
    /\ \A p \in NodesOf({"CallExpr"}) :
         MeaningOf(p) \in DOMAIN table.methods => \A i \in DOMAIN NodeAt(p).args : Passed(p, i)
    /\ \A d \in NodesOf({"VarDecl"}) : "init" \in DOMAIN NodeAt(d) => Begins(d)

-----------------------------------------------------------------------------
(* What the documentation and the tests ask of every accepted program. *)

\* What is written at p is a value of the type: a number by its bits, anything
\* else by its type.
Holds(p, type) ==
  LET n == NodeAt(p)
  IN CASE IsNumber(n) -> IsNumeric(type) => IntFits(n.value, type[2])
       [] n.kind = "LiteralExpr" -> TRUE
       [] OTHER -> Keeps(Typed(p), type)

Choosing == {"ForStmt", "WhileStmt", "SwitchStmt", "MatchExpr"}
Innermost(p) ==
  LET around == {q \in NodesOf(Choosing) : IsStrictPrefix(q, p)}
  IN {q \in around : \A r \in around : Len(r) <= Len(q)}

\* A variable begins with a value of its type and is assigned values of its
\* type (docs/grammar.md:250-255; test/fail/type/16bit_int_overflow.hrd and
\* casting/unsafe_implict_cast.hrd are to be refused), and of the loops, switches
\* and matches around a break or continue the innermost is a loop
\* (docs/grammar.md:1050, 1179, 1184 and 1215).
AcceptedIsLegal ==
  Accepted =>
    /\ \A d \in NodesOf({"VarDecl"}) :
         "init" \in DOMAIN NodeAt(d) => Holds(Append(d, "init"), table.values[d].type)
    /\ \A p \in NodesOf({"AssignExpr"}) : Holds(Append(p, "value"), Typed(Append(p, "target")))
    /\ \A p \in NodesOf({"BreakStmt", "ContinueStmt"}) :
         \E q \in Innermost(p) : NodeAt(q).kind \in {"ForStmt", "WhileStmt"}
=============================================================================
