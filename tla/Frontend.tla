------------------------------ MODULE Frontend ------------------------------
(***************************************************************************)
(* The phases that main.cpp runs over a program, up to the Verifier: a     *)
(* text to tokens, to declarations, and four passes over the declarations. *)
(* A step is one turn of a phase's loop.                                   *)
(***************************************************************************)
EXTENDS Verifier, Parser, AST, Layout

CONSTANT Texts  \* the programs, as the Lexer's sequences of pieces

VARIABLES phase, \* "parse", "build", "link", "layout", "resolve", "verify", "inherit",
                 \* "accepted", "refused"
          next,  \* the next declaration, or type, of the phase
          table  \* the SymbolTable, with the errors and the state of the passes

semantic == <<phase, next, table>>
vars     == <<lexer, parser, layout, semantic>>

Init ==
  /\ text \in Texts /\ LexerInit
  /\ current = 1 /\ decls = <<>> /\ parsed = "no"
  /\ symbols = <<>> /\ registered = <<>> /\ LayoutInit
  /\ phase = "parse" /\ next = 1 /\ table = NewTable

-----------------------------------------------------------------------------
Lex == phase = "parse" /\ Lexing /\ UNCHANGED <<parser, layout, semantic>>

ParseText == phase = "parse" /\ Parsing /\ UNCHANGED <<layout, semantic>>

\* The first phase ends with a tree, or with an error.
EndParsing ==
  /\ phase = "parse" /\ (parsed # "no" \/ mode = "refused")
  /\ phase' = IF parsed = "yes" THEN "build" ELSE "refused"
  /\ UNCHANGED <<lexer, parser, layout, next, table>>

\* The next table, or the end of the compilation with an error.
Proceed(t) ==
  /\ table' = t
  /\ IF t.error = "none" THEN next' = next + 1 /\ UNCHANGED phase
                         ELSE phase' = "refused" /\ UNCHANGED next

Turn(name, last, t) ==
  /\ phase = name /\ next <= last
  /\ Proceed(t)
  /\ UNCHANGED <<lexer, parser, layout>>

EndOf(name, last, t, following) ==
  /\ phase = name /\ next > last
  /\ table' = t
  /\ phase' = IF t.error = "none" THEN following ELSE "refused"
  /\ next' = 1
  /\ UNCHANGED <<lexer, parser>>

Decl == decls[next]
Here == <<"decls", next>>

BuildDecl  == Turn("build", Len(decls), Build(Decl, Here, table))
EndBuild   == EndOf("build", Len(decls), linkRoot(table), "link") /\ UNCHANGED layout
LinkDecl   == Turn("link", Len(decls), Link(Decl, Here, table))
EndLink    ==
  /\ EndOf("link", Len(decls), table, "layout")
  /\ symbols' = table.types /\ registered' = table.order
  /\ UNCHANGED <<turn, visiting, layoutState, fieldCount, fieldIndex, cyclic>>
LayoutType == phase = "layout" /\ Laying /\ UNCHANGED <<lexer, parser, semantic>>
EndLayout  ==
  /\ phase = "layout" /\ (cyclic \/ LaidOut)
  /\ table' = IF cyclic THEN Refuse(table) ELSE [table EXCEPT !.pass = "types"]
  /\ phase' = IF cyclic THEN "refused" ELSE "resolve"
  /\ UNCHANGED <<lexer, parser, layout, next>>
ResolveDecl == Turn("resolve", Len(decls), Resolve(Decl, Here, table))
EndResolve == EndOf("resolve", Len(decls), [table EXCEPT !.pass = "checks"], "verify") /\ UNCHANGED layout
VerifyDecl == Turn("verify", Len(decls), Verify(Decl, Here, table))
EndVerify  == EndOf("verify", Len(decls), table, "inherit") /\ UNCHANGED layout
VerifyBase == Turn("inherit", Len(decls),
                   IF Decl.kind = "ClassDecl" THEN verifyCycledInherit(Here, table) ELSE table)
EndInherit == EndOf("inherit", Len(decls), table, "accepted") /\ UNCHANGED layout

Next == Lex \/ ParseText \/ EndParsing \/ BuildDecl \/ EndBuild \/ LinkDecl \/ EndLink
          \/ LayoutType \/ EndLayout \/ ResolveDecl \/ EndResolve \/ VerifyDecl \/ EndVerify \/ VerifyBase \/ EndInherit

\* One process, which goes on while there is something to scan.  The other
\* phases count their turns up to the number of declarations.
Spec == Init /\ [][Next]_vars /\ WF_vars(Lex)

-----------------------------------------------------------------------------
(* Properties *)

NodeAt(p) == Descend([decls |-> decls], p)
Nodes == UNION {Paths(decls[i], <<"decls", i>>) : i \in DOMAIN decls}
NodesOf(kinds) == {p \in Nodes : NodeAt(p).kind \in kinds}

\* p stands in that part of a node of that kind.
In(p, kind, part) ==
  \E q \in Nodes : IsStrictPrefix(q, p) /\ NodeAt(q).kind = kind /\ p[Len(q) + 1] = part

JustLinked == phase = "layout" /\ turn = 1 /\ visiting = <<>>

TypeOK ==
  /\ mode \in {"scan", "line", "block", "end", "refused"}
  /\ pos \in 1..(Len(text) + 1)
  /\ parsed \in {"no", "yes", "refused"}
  /\ phase \in {"parse", "build", "link", "layout", "resolve", "verify", "inherit", "accepted", "refused"}
  /\ next \in 1..(Len(decls) + Len(table.order) + 1)
  /\ phase = "build" /\ next = 1 => \A d \in Range(decls) : IsTree(d)
  /\ table.error \in {"none", "diagnostic", "internal", "crash"}
  /\ table.error = "none" => table.loopDepth = 0
  /\ JustLinked => Linked

\* A pass leaves the scope in which it found the table, and the Linker enters
\* the scopes that the Builder made, each from the one around it (Builder.cpp,
\* Linker.cpp, util/Guard.h).  Not those of a trait's signatures, nor those
\* in what is cast and in the arguments of a spawn, which it does not visit.
ScopesMatched ==
  /\ table.error = "none" => table.current = TopLevel
  /\ phase = "layout" =>
       DOMAIN table.scopes \ {BuiltinScope, TopLevel, RootScope}
         = table.entered \cup {p \in DOMAIN table.scopes :
                                Len(p) > 1 /\ (NodeAt(p).kind = "TraitSig" \/ In(p, "CastExpr", "expr")
                                                                          \/ In(p, "SpawnExpr", "args"))}

\* Up to the layout a program goes on or is refused with a diagnostic, except
\* for a match in a range or in a match's value, a class that extends a built-in
\* type or Main, and an impl of a trait that is not there (Linker.cpp:83, 104,
\* 161, 242).  The Verifier finds a type wherever it asks for one, unless an
\* enum's payload took it from an argument (ResolveCall.cpp:218, Verifier.cpp:52-192).
OnlyDiagnostics ==
  /\ table.pass = "names" /\ table.error = "internal" =>
       \E p \in NodesOf({"MatchExpr"}) : In(p, "ForStmt", "range") \/ In(p, "MatchExpr", "value")
  /\ table.pass = "names" /\ table.error = "crash" =>
       \/ \E p \in NodesOf({"ClassDecl"}) :
            "baseClass" \in DOMAIN NodeAt(p) /\ NodeAt(p).baseClass \in BuiltinNames \cup {"Main"}
       \/ \E p \in NodesOf({"ImplDecl"}) : \E name \in Range(NodeAt(p).traits) :
            \A q \in NodesOf(DOMAIN KindOf) : NodeAt(q).name # name
  /\ table.pass = "checks" /\ table.error \in {"internal", "crash"} =>
       \E p \in NodesOf({"CallExpr"}) :
         TypeKind(TypeOf(p, table), table) = "ENUM" /\ \E i \in DOMAIN NodeAt(p).args : TypeOf(p \o <<"args", i>>, table) = Null

\* The name of a type stands for the declaration nearest around it, whatever
\* the order of the declarations (SymbolTable.cpp:203, Builder before Linker).
NearestType ==
  JustLinked =>
    \A p \in DOMAIN table.resolved :
      LET inSight == {d \in NodesOf(DOMAIN KindOf) : NodeAt(d).name = NodeAt(p).name
                                                     /\ IsPrefix(Enclosing(d), p)}
          found   == table.resolved[p]
      IN NodeAt(p).kind = "IdentifierType" =>
           IF inSight = {} THEN found = Builtin(NodeAt(p).name)
           ELSE found \in inSight /\ \A d \in inSight : Len(d) <= Len(found)

\* A method stands once among the methods of its type under its name, also
\* when an impl brings it.  Main's update stands there no more: its inits do
\* (Builder.cpp:483, Linker.cpp:142 and 267-281).
MethodsFiled ==
  JustLinked =>
    \A type \in DOMAIN table.types : table.types[type].kind \in {"CLASS", "STRUCT"} =>
      \A name \in DOMAIN table.scopes[type].methods :
        LET bucket == Bucket(name, type, table)
            mine   == {p \in NodesOf({"FuncDecl"}) : NodeAt(p).name = name /\ CurrentType(p, table) = type}
        IN IF name = "update" /\ IsMain(type, table) THEN bucket = table.scopes[type].inits
           ELSE Range(bucket) = mine /\ Len(bucket) = Cardinality(mine)

\* No two methods of a type have a name, a return type and the types of their
\* parameters in common, though they are compared one by one while they are
\* linked (Linker.cpp:303-313).
MethodsDistinct ==
  JustLinked =>
    \A type \in DOMAIN table.types : table.types[type].kind \in {"CLASS", "STRUCT"} =>
      \A name \in DOMAIN table.scopes[type].methods :
        \A m \in Range(Bucket(name, type, table)) :
          ~\E o \in Range(Bucket(name, type, table)) :
             /\ o # m /\ SameParams(m, o, table)
             /\ table.methods[m].returnType = table.methods[o].returnType

\* The program that is accepted has no break or continue outside of the loops
\* (test/fail/control_flow/break&continue/break_outside_of_loop.hrd and
\* continue_outside_of_loop.hrd, docs/grammar.md:1178).  In an initial value, in the
\* value of a return and in a struct's init they are not looked at
\* (Verifier.cpp:209-245, 229, 263, 304).  It does not say that the switch or
\* match in the loop that they may stand in is one they may leave: the
\* documentation forbids it, the code does not (AcceptedIsLegal in Typing).
LoopControl ==
  phase = "accepted" =>
    \A p \in NodesOf({"BreakStmt", "ContinueStmt"}) :
      \/ In(p, "ForStmt", "body") \/ In(p, "WhileStmt", "body")
      \/ In(p, "VarDecl", "init") \/ In(p, "ReturnStmt", "value") \/ In(p, "StructDecl", "inits")

\* The scan of every text ends, unless a comment is not closed: a line comment
\* needs a newline even at the end (lexer.cpp:153-171).
EveryScanEnds == <>(mode \in {"end", "refused"} \/ OpenComment)
=============================================================================
