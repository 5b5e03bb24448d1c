----------------------------- MODULE SymbolTable -----------------------------
(***************************************************************************)
(* SymbolTable.cpp and symbol/TypeSymbol.cpp: scopes and symbols.  The     *)
(* table is a record that the passes hand on.  Scopes and symbols are      *)
(* named by the path of the node they stand for.                           *)
(***************************************************************************)
EXTENDS Naturals, Sequences, FiniteSets, SequencesExt, TLC

Null == <<>>

BuiltinScope == <<"builtin">>
TopLevel     == <<"toplevel">>
RootScope    == <<"root">>

\* name -> symbol, and for methods name -> sequence of symbols.
Scope(parent) == [parent |-> parent, type |-> <<>>, value |-> <<>>, methods |-> <<>>,
                  inits |-> <<>>, onDestroy |-> Null]

TypeSymbol(name, kind) == [name |-> name, kind |-> kind, base |-> Null, traits |-> {},
                           fields |-> <<>>, variants |-> <<>>]
ValueSymbol == [type |-> Null, root |-> FALSE, modi |-> "public", default |-> FALSE]
MethodSymbol(name) == [name |-> name, params |-> <<>>, returnType |-> Null, owner |-> Null,
                       modi |-> "public"]

Primitive == {"i8", "i16", "i32", "i64", "i128", "u8", "u16", "u32", "u64", "u128",
              "f16", "f32", "f64", "f128", "c8", "c16", "c32", "s8", "s16", "s32", "bool"}
OtherBuiltin == [void |-> "VOID", func |-> "FUNC", Handle |-> "HANDLE", Result |-> "RESULT",
                 Option |-> "OPTION", Error |-> "ERROR"]

Builtin(name) == <<"builtin", name>>
BuiltinKind(name) == IF name \in Primitive THEN "PRIMITIVE" ELSE OtherBuiltin[name]
BuiltinNames == Primitive \cup DOMAIN OtherBuiltin

\* order: the types in the order of their registration, the built-in ones left out.
NewTable ==
  [error   |-> "none",
   scopes  |-> (BuiltinScope :> [Scope(Null) EXCEPT !.type = [n \in BuiltinNames |-> Builtin(n)]])
                 @@ (TopLevel :> Scope(BuiltinScope)) @@ (RootScope :> Scope(Null)),
   current |-> TopLevel,
   entered |-> {},  \* the scopes entered again by a later pass
   types   |-> [id \in {Builtin(n) : n \in BuiltinNames} |-> TypeSymbol(id[2], BuiltinKind(id[2]))],
   values  |-> <<>>, methods |-> <<>>, order |-> <<>>, impls |-> <<>>,
   main    |-> Null,
   resolved |-> <<>>, \* what the type nodes stand for
   target   |-> <<>>, \* the struct of an impl
   sigs     |-> <<>>, \* the signatures an impl must have
   pass |-> "names",
   typed   |-> <<>>, meaning |-> <<>>,         \* Resolver: types of expressions, and their symbols
   method  |-> Null, outer |-> Null,           \* the method that is resolved, and the one before
   returns |-> <<>>, selects |-> <<>>, clauses |-> <<>>,
   loopDepth |-> 0, inherit |-> <<>>]          \* Verifier

\* Error::diagnostic, Error::internal, and a use of a null pointer.
Refuse(t)   == [t EXCEPT !.error = "diagnostic"]
Internal(t) == [t EXCEPT !.error = "internal"]
Crash(t)    == [t EXCEPT !.error = "crash"]

-----------------------------------------------------------------------------
(* Scopes *)

Enter(p, t) == [t EXCEPT !.scopes = (p :> Scope(t.current)) @@ @, !.current = p]

\* A node that was not given a scope has none to enter.
EnterAgain(p, t) ==
  IF p \in DOMAIN t.scopes /\ t.scopes[p].parent = t.current
  THEN [t EXCEPT !.current = p, !.entered = @ \cup {p}]
  ELSE Internal(t)

Exit(t) == [t EXCEPT !.current = t.scopes[@].parent]

\* Mutant: the outermost declaration wins.
RECURSIVE OutermostType(_, _, _)
OutermostType(name, s, t) ==
  IF s = Null THEN Null
  ELSE LET outer == OutermostType(name, t.scopes[s].parent, t)
       IN IF outer # Null \/ name \notin DOMAIN t.scopes[s].type THEN outer
          ELSE t.scopes[s].type[name]

RECURSIVE TypeFrom(_, _, _)
TypeFrom(name, s, t) ==
  IF s = Null THEN Null
  ELSE IF name \in DOMAIN t.scopes[s].type THEN t.scopes[s].type[name]
  ELSE TypeFrom(name, t.scopes[s].parent, t)

getType(name, t) == TypeFrom(name, t.current, t)

\* A built-in type is its width.
getTypeOfNode(n, t) == IF n.kind = "BuiltinType" THEN Builtin(n.width) ELSE getType(n.name, t)

-----------------------------------------------------------------------------
(* Symbols *)

\* The type is listed before its name is looked for.
addType(name, kind, p, t) ==
  LET listed == [t EXCEPT !.order = Append(@, p)]
  IN IF name \in DOMAIN t.scopes[t.current].type THEN Refuse(listed)
     ELSE [listed EXCEPT !.types = (p :> TypeSymbol(name, kind)) @@ @,
                         !.scopes[t.current].type = (name :> p) @@ @]

\* Main is added in any case; another type is refused under a name in sight.
addMain(p, t) ==
  LET s == addType("Main", "CLASS", p, t)
  IN IF s.error = "none" THEN [s EXCEPT !.main = p] ELSE s
addNamedType(name, kind, p, t) ==
  IF getType(name, t) # Null THEN Refuse(t) ELSE addType(name, kind, p, t)

addValue(name, root, p, t) ==
  LET s == IF root THEN RootScope ELSE t.current
  IN IF name \in DOMAIN t.scopes[s].value THEN Refuse(t)
     ELSE [t EXCEPT !.values = (p :> [ValueSymbol EXCEPT !.root = root]) @@ @,
                    !.scopes[s].value = (name :> p) @@ @]

Bucket(name, s, t) ==
  IF name \in DOMAIN t.scopes[s].methods THEN t.scopes[s].methods[name] ELSE <<>>

SetBucket(name, s, methods, t) ==
  [t EXCEPT !.scopes[s].methods = (name :> methods) @@ @]

Registered(name, p, t) == [t EXCEPT !.methods = (p :> MethodSymbol(name)) @@ @]

addMethod(name, p, t) ==
  SetBucket(name, t.current, Append(Bucket(name, t.current, t), p), Registered(name, p, t))

addInit(p, t) ==
  [Registered("init", p, t) EXCEPT !.methods[p].returnType = Builtin("void"),
                                   !.scopes[t.current].inits = Append(@, p)]

addOnDestroy(p, t) ==
  IF t.scopes[t.current].onDestroy # Null THEN Refuse(t)
  ELSE [Registered("onDestroy", p, t) EXCEPT !.methods[p].returnType = Builtin("void"),
                                             !.scopes[t.current].onDestroy = p]

-----------------------------------------------------------------------------
(* Signatures.  Until a method is linked it has no parameters, and no type  *)
(* unless it is an init or an onDestroy.                                    *)

SameParams(m, o, t) ==
  [i \in DOMAIN t.methods[m].params |-> t.values[t.methods[m].params[i]].type]
    = [i \in DOMAIN t.methods[o].params |-> t.values[t.methods[o].params[i]].type]

hasSameSig(bucket, m, t) == \E o \in Range(bucket) : o # m /\ SameParams(o, m, t)

\* Mutant: compares the parameters themselves, not their types.
SameParamSymbols(bucket, m, t) ==
  \E o \in Range(bucket) : /\ o # m
                           /\ t.methods[o].returnType = t.methods[m].returnType
                           /\ t.methods[o].params = t.methods[m].params

hasSameMethodSig(bucket, m, t) ==
  \E o \in Range(bucket) : /\ o # m
                           /\ t.methods[o].name = t.methods[m].name
                           /\ t.methods[o].returnType = t.methods[m].returnType
                           /\ SameParams(o, m, t)
=============================================================================
