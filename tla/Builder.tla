------------------------------- MODULE Builder -------------------------------
(***************************************************************************)
(* Builder.cpp: the pass that makes the scopes and the symbols.            *)
(***************************************************************************)
EXTENDS SymbolTable

\* What is not visited here gets no scope: the value of a match, a range, the
\* value of a switch, the conditions of if and while.
BuilderExprs ==
  [BinaryExpr |-> <<"left", "right">>, UnaryExpr |-> <<"operand">>,
   CallExpr |-> <<"object", "args">>, AssignExpr |-> <<"value", "target">>,
   MemberExpr |-> <<"object">>, ArrayAccessExpr |-> <<"object", "index">>,
   TernaryExpr |-> <<"condition", "thenExpr", "elseExpr">>, CastExpr |-> <<"expr">>,
   SpawnExpr |-> <<"storage", "args">>, ViewExpr |-> <<"storage", "target">>,
   DestroyExpr |-> <<"storage", "target">>, MatchExpr |-> <<"ENTER", "cases", "EXIT">>]

BuilderStmts ==
  [ExprStmt |-> <<"expr">>, BlockStmt |-> <<"ENTER", "statements", "EXIT">>,
   IfStmt |-> <<"thenBranch", "elseBranch">>, ForStmt |-> <<"ENTER", "initializer", "body", "EXIT">>,
   WhileStmt |-> <<"body">>, SwitchStmt |-> <<"ENTER", "cases", "EXIT">>, Case |-> <<"body">>,
   Default |-> <<"body">>, ReturnStmt |-> <<"value">>, ValueTransferStmt |-> <<"value">>,
   DeclStmt |-> <<"decl">>]

BuilderDecls ==
  [ClassDecl |-> <<"TYPE", "ENTER", "fields", "FIELDS", "methods", "INNER", "innerDecl", "EXIT">>,
   StructDecl |-> <<"TYPE", "ENTER", "fields", "FIELDS", "inits", "EXIT">>,
   EnumDecl |-> <<"TYPE", "VARIANTS">>, ImplDecl |-> <<"ENTER", "methods", "EXIT", "IMPL">>,
   TraitDecl |-> <<"TYPE", "ENTER", "traitSigs", "EXIT">>,
   TraitSig |-> <<"METHOD", "ENTER", "params", "EXIT">>,
   FuncDecl |-> <<"METHOD", "ENTER", "params", "body", "EXIT">>,
   InitDecl |-> <<"INIT", "ENTER", "params", "body", "EXIT">>,
   OnDestroyDecl |-> <<"ONDESTROY", "ENTER", "body", "EXIT">>,
   VarDecl |-> <<"VALUE", "init">>, Param |-> <<"VALUE">>]

KindOf == [ClassDecl |-> "CLASS", StructDecl |-> "STRUCT", EnumDecl |-> "ENUM", TraitDecl |-> "TRAIT"]

\* The type or the impl that a member at p is written in.
Enclosing(p) == SubSeq(p, 1, Len(p) - 2)

IsRoot(n) == n.kind = "VarDecl" /\ "root" \in n.mods

\* The methods of an impl have no owner yet; a signature of a trait is public.
OwnedBy(n, p, t) ==
  [t EXCEPT !.methods[p].owner = IF Enclosing(p) \in DOMAIN t.types THEN Enclosing(p) ELSE Null,
            !.methods[p].modi = IF "modi" \in DOMAIN n THEN n.modi ELSE @]

NewValue(n, p, t) ==
  LET s == addValue(n.name, IsRoot(n), p, t)
  IN IF s.error # "none" THEN s
     ELSE [s EXCEPT !.values[p].modi = IF "modi" \in DOMAIN n THEN n.modi ELSE @,
                    !.values[p].default = n.kind = "Param" /\ "init" \in DOMAIN n]

BuilderEffect(step, n, p, t) ==
  CASE step = "ENTER"  -> Enter(p, t)
    [] step = "EXIT"   -> Exit(t)
    [] step = "TYPE"   -> IF n.kind = "ClassDecl" /\ n.name = "Main" THEN addMain(p, t)
                          ELSE addNamedType(n.name, KindOf[n.kind], p, t)
    [] step = "VALUE"  -> NewValue(n, p, t)
    [] step = "METHOD" -> OwnedBy(n, p, addMethod(n.name, p, t))
    [] step = "INIT"   -> OwnedBy(n, p, addInit(p, t))
    [] step = "ONDESTROY" -> LET s == addOnDestroy(p, t)
                             IN IF s.error = "none" THEN OwnedBy(n, p, s) ELSE s
    [] step = "FIELDS" -> [t EXCEPT !.types[p].fields = [i \in DOMAIN n.fields |-> p \o <<"fields", i>>]]
    [] step = "VARIANTS" ->
         IF \E i, j \in DOMAIN n.variants : i # j /\ n.variants[i].name = n.variants[j].name
         THEN Refuse(t)
         ELSE [t EXCEPT !.types[p].variants =
                            [name \in {v.name : v \in Range(n.variants)} |->
                               p \o <<"variants", CHOOSE i \in DOMAIN n.variants : n.variants[i].name = name>>]]
    \* canInnerDecl, asked of every inner declaration at once; Main may have any.
    [] step = "INNER"  ->
         IF n.name = "Main" \/ \A d \in Range(n.innerDecl) : d.kind \in {"ClassDecl", "StructDecl", "EnumDecl"}
         THEN t ELSE Refuse(t)
    [] step = "IMPL"   -> [t EXCEPT !.impls = Append(@, p)]
    [] OTHER           -> t

Building == INSTANCE Visitor WITH Visits <- BuilderExprs @@ BuilderStmts @@ BuilderDecls,
                                  Effect <- BuilderEffect

Build(decl, p, t) == Building!Visit(decl, p, t)

linkRoot(t) == IF t.main = Null THEN Refuse(t) ELSE t
=============================================================================
