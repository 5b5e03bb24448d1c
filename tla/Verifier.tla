------------------------------ MODULE Verifier ------------------------------
(***************************************************************************)
(* Verifier.cpp: the last pass over the tree.  It asks of most kinds of    *)
(* expressions that the Resolver has given them a type.                    *)
(***************************************************************************)
EXTENDS Resolver

\* The initial value of a variable, the value of a return and the inits of a
\* struct are not visited.
VerifierExprs ==
  [LiteralExpr |-> <<"TYPED">>, NameExpr |-> <<"TYPED">>,
   BinaryExpr |-> <<"left", "right", "TYPED">>, UnaryExpr |-> <<"operand", "TYPED">>,
   CallExpr |-> <<"args", "object", "TYPED">>, AssignExpr |-> <<"target", "value", "TYPED">>,
   MemberExpr |-> <<"object">>, ArrayAccessExpr |-> <<"object", "index", "TYPED">>,
   TernaryExpr |-> <<"condition", "elseExpr", "thenExpr", "TYPED">>, CastExpr |-> <<"expr", "TYPED">>,
   SpawnExpr |-> <<"storage", "args", "TYPED">>, ViewExpr |-> <<"storage", "target", "TYPED">>,
   DestroyExpr |-> <<"storage", "target", "TYPED">>, Range |-> <<"start", "end", "step">>,
   MatchExpr |-> <<"value", "cases", "TYPED">>]

VerifierStmts ==
  [ExprStmt |-> <<"expr">>, BlockStmt |-> <<"statements">>,
   IfStmt |-> <<"condition", "thenBranch", "elseBranch">>,
   ForStmt |-> <<"initializer", "range", "LOOP", "body", "ENDLOOP">>,
   WhileStmt |-> <<"condition", "LOOP", "body", "ENDLOOP">>,
   SwitchStmt |-> <<"value", "cases">>, Case |-> <<"body">>, Default |-> <<"body">>,
   ValueTransferStmt |-> <<"value">>, DeclStmt |-> <<"decl">>,
   BreakStmt |-> <<"LEAVE">>, ContinueStmt |-> <<"LEAVE">>]

VerifierDecls ==
  [ClassDecl |-> <<"fields", "methods", "innerDecl">>, StructDecl |-> <<"fields">>,
   ImplDecl |-> <<"methods">>, FuncDecl |-> <<"body">>, InitDecl |-> <<"body">>,
   OnDestroyDecl |-> <<"body">>]

\* Mutant: the end of a loop is not counted.
ForgetsLoops(step, n, p, t) ==
  CASE step = "LOOP"  -> [t EXCEPT !.loopDepth = @ + 1]
    [] step = "LEAVE" -> IF t.loopDepth = 0 THEN Refuse(t) ELSE t
    [] OTHER          -> t

VerifierEffect(step, n, p, t) ==
  CASE step = "LOOP"    -> [t EXCEPT !.loopDepth = @ + 1]
    [] step = "ENDLOOP" -> [t EXCEPT !.loopDepth = @ - 1]
    [] step = "LEAVE"   -> IF t.loopDepth = 0 THEN Refuse(t) ELSE t
    [] step = "TYPED"   -> IF TypeOf(p, t) = Null THEN Internal(t) ELSE t
    [] OTHER            -> t

Verifying == INSTANCE Visitor WITH Visits <- VerifierExprs @@ VerifierStmts @@ VerifierDecls,
                                   Effect <- VerifierEffect

Verify(decl, p, t) == Verifying!Visit(decl, p, t)

\* verifyCycledInherit, for the classes at top level.
RECURSIVE verifyCycledInherit(_, _)
verifyCycledInherit(class, t) ==
  IF class \notin DOMAIN t.inherit
  THEN LET visiting == [t EXCEPT !.inherit = (class :> "Visiting") @@ @]
           based    == IF t.types[class].base = Null THEN visiting
                       ELSE verifyCycledInherit(t.types[class].base, visiting)
       IN IF based.error = "none" THEN [based EXCEPT !.inherit[class] = "Done"] ELSE based
  ELSE IF t.inherit[class] = "Visiting" THEN Refuse(t)
  ELSE t
=============================================================================
