------------------------------- MODULE Linker -------------------------------
(***************************************************************************)
(* Linker.cpp, the type nodes of util/Helper.cpp, and the field layout of  *)
(* SemanticAnalyzer.cpp: the pass that ties the names of types, bases,     *)
(* traits and impls to their symbols.                                      *)
(***************************************************************************)
EXTENDS Builder

\* A range is visited here, and so is the value of a match, though the Builder
\* gave no scope to what stands in them.
LinkerExprs ==
  [BinaryExpr |-> <<"left", "right">>, UnaryExpr |-> <<"operand">>,
   CallExpr |-> <<"object", "args">>, AssignExpr |-> <<"target", "value">>,
   MemberExpr |-> <<"object">>, ArrayAccessExpr |-> <<"object", "index">>,
   TernaryExpr |-> <<"condition", "thenExpr", "elseExpr">>, SpawnExpr |-> <<"storage", "type">>,
   ViewExpr |-> <<"storage", "target">>, DestroyExpr |-> <<"storage", "target">>,
   Range |-> <<"start", "end", "step">>, MatchExpr |-> <<"ENTER", "value", "cases", "EXIT">>]

\* Mutant: the scope of a for loop is entered and not left.
ForStaysIn == [BuilderStmts EXCEPT !.ForStmt = <<"ENTER", "initializer", "range", "body">>]

LinkerStmts ==
  [BuilderStmts EXCEPT !.ForStmt = <<"ENTER", "initializer", "range", "body", "EXIT">>]

\* A FuncDecl is added to the target of its impl before it is linked.
LinkerDecls ==
  [ClassDecl |-> <<"MAIN", "BASE", "TRAITS", "ENTER", "fields", "methods", "innerDecl", "EXIT">>,
   StructDecl |-> <<"ENTER", "fields", "inits", "EXIT">>,
   EnumDecl |-> <<"variants">>, Variant |-> <<"payload", "PAYLOAD">>,
   ImplDecl |-> <<"ENTER", "TARGET", "methods", "EXIT">>,
   TraitDecl |-> <<"ENTER", "traitSigs", "EXIT">>,
   TraitSig |-> <<"params", "PARAMS", "type", "RETURNS">>,
   FuncDecl |-> <<"IMPLEMENT", "returnType", "RETURNS", "ENTER", "params", "PARAMS", "SIGNATURE",
                  "body", "EXIT", "OWNER">>,
   InitDecl |-> <<"ENTER", "params", "PARAMS", "body", "EXIT">>,
   OnDestroyDecl |-> <<"ENTER", "body", "EXIT">>,
   VarDecl |-> <<"type", "TYPE", "init">>, Param |-> <<"type", "TYPE">>,
   IdentifierType |-> <<"RESOLVE">>, BuiltinType |-> <<"RESOLVE">>,
   ArrayType |-> <<"element", "SIZE", "RESOLVE">>, GenericType |-> <<"inner", "RESOLVE">>]

-----------------------------------------------------------------------------
(* Type nodes *)

\* An array type or an instance of Handle is made the first time it is met.
GetOrCreate(id, t) ==
  IF id \in Range(t.order) THEN t ELSE [t EXCEPT !.order = Append(@, id)]

StandsFor(p, id, t) == [t EXCEPT !.resolved = (p :> id) @@ @]

IsMain(id, t) == t.types[id].name = "Main" /\ t.types[id].kind = "CLASS"

HandleOf(arg, p, t) ==
  IF arg \notin DOMAIN t.types \/ t.types[arg].kind # "CLASS" \/ IsMain(arg, t) THEN Refuse(t)
  ELSE StandsFor(p, <<"Handle", arg>>, GetOrCreate(<<"Handle", arg>>, t))

ArrayOfType(element, size, p, t) ==
  StandsFor(p, <<"array", element, size>>, GetOrCreate(<<"array", element, size>>, t))

\* Numbers of the programs have no leading zeros and fit in 128 bits.
resolveFixedArraySize(size, t) ==
  IF size.kind # "LiteralExpr" \/ size.type # "LIT_INT" \/ size.value = "0" THEN Refuse(t) ELSE t

NamedType(n, p, t) ==
  LET type == getTypeOfNode(n, t) IN IF type = Null THEN Refuse(t) ELSE StandsFor(p, type, t)

resolveTypeNode(n, p, t) ==
  CASE n.kind = "GenericType" -> HandleOf(t.resolved[Append(p, "inner")], p, t)
    [] n.kind = "ArrayType"   -> ArrayOfType(t.resolved[Append(p, "element")], n.size.value, p, t)
    [] OTHER                  -> NamedType(n, p, t)

-----------------------------------------------------------------------------
(* Classes *)

\* update is checked; then its bucket, held by reference, is overwritten with
\* the inits.  Their parameters are not linked yet, so that none is refused.
LinkMain(p, t) ==
  LET bucket == Bucket("update", p, t)
      inits  == t.scopes[p].inits
  IN IF Len(bucket) # 1 \/ Len(inits) > 1 THEN Refuse(t)
     ELSE SetBucket("update", p, inits,
            [t EXCEPT !.types[p] = [update |-> bucket[1],
                                    init   |-> IF inits = <<>> THEN Null ELSE inits[1]] @@ @])

\* Mutant: the base is used before it is tested against null.
BaseUntested(n, p, t) ==
  LET base == getType(n.baseClass, t)
  IN IF base = Null \/ t.types[base].kind # "CLASS" \/ IsMain(base, t) THEN Crash(t)
     ELSE [t EXCEPT !.types[p].base = base]

\* isExtended is set in the base's declaration: a built-in type has none, and
\* Main's symbol hides the field.
LinkBase(n, p, t) ==
  LET base == getType(n.baseClass, t)
  IN CASE base = Null -> Refuse(t)
       [] base # Null /\ (base[1] = "builtin" \/ IsMain(base, t)) -> Crash(t)
       [] base # Null /\ base[1] # "builtin" /\ ~IsMain(base, t) ->
            IF t.types[base].kind # "CLASS" THEN Refuse(t) ELSE [t EXCEPT !.types[p].base = base]

\* The trait called name becomes one of type's.
AddTrait(name, type, t) ==
  LET trait == getType(name, t)
  IN IF trait = Null \/ t.types[trait].kind # "TRAIT" \/ trait \in t.types[type].traits THEN Refuse(t)
     ELSE [t EXCEPT !.types[type].traits = @ \cup {trait}]

LinkTraits(names, p, t) ==
  FoldLeft(LAMBDA s, name : IF s.error = "none" THEN AddTrait(name, p, s) ELSE s, t, names)

-----------------------------------------------------------------------------
(* Impls and methods *)

TraitMethods(trait, t) == UNION {Range(t.scopes[trait].methods[m]) : m \in DOMAIN t.scopes[trait].methods}

\* An impl's trait is used before it is tested against null.
ImplTrait(name, p, struct, t) ==
  IF getType(name, t) = Null THEN Crash(t)
  ELSE LET s == AddTrait(name, struct, t)
       IN IF s.error # "none" THEN s
          ELSE [s EXCEPT !.sigs[p] = @ \cup TraitMethods(getType(name, t), t)]

LinkTarget(n, p, t) ==
  LET struct == getType(n.target, t)
  IN IF struct = Null \/ t.types[struct].kind # "STRUCT" THEN Refuse(t)
     ELSE FoldLeft(LAMBDA s, name : IF s.error = "none" THEN ImplTrait(name, p, struct, s) ELSE s,
                   [t EXCEPT !.sigs = (p :> {}) @@ @, !.target = (p :> struct) @@ @], n.traits)

\* The type whose method stands at p: the linker's currentType.
CurrentType(p, t) ==
  IF Enclosing(p) \in DOMAIN t.target THEN t.target[Enclosing(p)] ELSE Enclosing(p)

\* Mutant: the method takes the place of the others of its name.
ImplementOver(n, p, t) ==
  LET struct == CurrentType(p, t)
  IN IF Enclosing(p) \notin DOMAIN t.target THEN t ELSE SetBucket(n.name, struct, <<p>>, t)

\* TypeSymbol::addMethod, at which time the method has no parameters.
Implement(n, p, t) ==
  LET struct == CurrentType(p, t)
      bucket == Bucket(n.name, struct, t)
  IN IF Enclosing(p) \notin DOMAIN t.target THEN t
     ELSE IF hasSameSig(bucket, p, t) THEN Refuse(t)
     ELSE SetBucket(n.name, struct, Append(bucket, p), t)

CheckSignature(n, p, t) ==
  LET type == CurrentType(p, t)
  IN IF n.name \notin DOMAIN t.scopes[type].methods THEN Internal(t)
     ELSE IF hasSameMethodSig(Bucket(n.name, type, t), p, t) THEN Refuse(t)
     ELSE t

\* An enum's payload may be anything but a class.
CheckPayload(p, t) ==
  LET payload == Append(p, "payload")
  IN IF payload \in DOMAIN t.resolved /\ t.types[t.resolved[payload]].kind = "CLASS"
     THEN Refuse(t) ELSE t

LinkerEffect(step, n, p, t) ==
  CASE step = "ENTER"     -> EnterAgain(p, t)
    [] step = "EXIT"      -> Exit(t)
    [] step = "RESOLVE"   -> resolveTypeNode(n, p, t)
    [] step = "SIZE"      -> resolveFixedArraySize(n.size, t)
    [] step = "TYPE"      -> [t EXCEPT !.values[p].type = t.resolved[Append(p, "type")]]
    [] step = "MAIN"      -> IF IsMain(p, t) THEN LinkMain(p, t) ELSE t
    [] step = "BASE"      -> IF "baseClass" \in DOMAIN n THEN LinkBase(n, p, t) ELSE t
    [] step = "TRAITS"    -> LinkTraits(n.traits, p, t)
    [] step = "TARGET"    -> LinkTarget(n, p, t)
    [] step = "PAYLOAD"   -> CheckPayload(p, t)
    [] step = "IMPLEMENT" -> Implement(n, p, t)
    [] step = "RETURNS"   -> LET type == Append(p, IF n.kind = "TraitSig" THEN "type" ELSE "returnType")
                             IN IF type \notin DOMAIN t.resolved THEN t
                                ELSE [t EXCEPT !.methods[p].returnType = t.resolved[type]]
    [] step = "PARAMS"    -> [t EXCEPT !.methods[p].params = [i \in DOMAIN n.params |-> p \o <<"params", i>>]]
    [] step = "SIGNATURE" -> CheckSignature(n, p, t)
    [] step = "OWNER"     -> [t EXCEPT !.methods[p].owner = CurrentType(p, t)]
    [] OTHER              -> t

Linking == INSTANCE Visitor WITH Visits <- LinkerExprs @@ LinkerStmts @@ LinkerDecls,
                                 Effect <- LinkerEffect

Link(decl, p, t) == Linking!Visit(decl, p, t)
=============================================================================
