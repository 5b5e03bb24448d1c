---------------------------- MODULE HIRVerifier ----------------------------
(***************************************************************************)
(* The compiler's check for definite initialisation and definite return    *)
(* (src/src/IR/HIR/HIRVerifier.cpp).                                       *)
(*                                                                         *)
(* The C++ walks the tree with one mutable InitMap and throws at the first *)
(* error.  Here a walk maps a state to a state: ok says that nothing has   *)
(* been thrown, init is the InitMap, from the places seen so far to        *)
(* whether they are initialised.                                           *)
(***************************************************************************)
EXTENDS HIR, Naturals, SequencesExt

(* unordered_map::emplace: an entry that exists is kept *)
Emplace(init, v, initialized) == init @@ (v :> initialized)

(* checkInitialize; a place without an entry is an internal error *)
CheckInitialize(v, st) ==
  [st EXCEPT !.ok = @ /\ v \in DOMAIN st.init /\ st.init[v]]

(* initialize *)
Initialize(v, st) ==
  [ok |-> st.ok /\ v \in DOMAIN st.init, init |-> (v :> TRUE) @@ st.init]

MergeIntersection(a, b) ==
  [v \in DOMAIN a |-> a[v] /\ v \in DOMAIN b /\ b[v]]

RECURSIVE VerifyExpr(_, _), VerifyStmt(_, _), DefinitelyReturns(_)

VerifyBlock(body, st) == FoldLeft(LAMBDA s, x : VerifyStmt(x, s), st, body)

VerifyExprs(es, st) == FoldLeft(LAMBDA s, x : VerifyExpr(x, s), st, es)

(* the cases of a switch or match, one after the other on one map *)
VerifyCases(cases, st) ==
  FoldLeft(LAMBDA s, c : VerifyBlock(c.body, s), st, cases)

VerifyExpr(e, st) ==
  CASE e.k = "lit" -> st
    [] e.k = "load" -> CheckInitialize(e.v, st)
    [] e.k = "ternary" -> VerifyExprs(<<e.c, e.a, e.b>>, st)
    [] e.k = "match" -> VerifyCases(e.cases, VerifyExpr(e.c, st))

Merge(a, b) ==
  [ok |-> a.ok /\ b.ok, init |-> MergeIntersection(a.init, b.init)]

(* mutant of VerifyElse: the then branch alone decides *)
ElseWithoutMerge(s, before, then) ==
  IF s.els = <<>> THEN then ELSE VerifyBlock(s.els[1], then)

(* The else branch is walked on the map the then branch leaves. *)
VerifyElse(s, before, then) ==
  Merge(then, IF s.els = <<>> THEN before ELSE VerifyBlock(s.els[1], then))

VerifyThen(s, before) == VerifyElse(s, before, VerifyBlock(s.then, before))

VerifyIf(s, st) == VerifyThen(s, VerifyExpr(s.c, st))

(* what the body of a while initialises is forgotten *)
VerifyWhile(s, st) ==
  [st EXCEPT !.ok = VerifyBlock(s.body, VerifyExpr(s.c, st)).ok]

(* what the body of a for initialises is kept *)
VerifyFor(s, st) ==
  VerifyBlock(s.body,
    VerifyExprs(<<s.start, s.end, s.step>>,
                [st EXCEPT !.init = Emplace(@, s.v, TRUE)]))

(* the target counts as initialised before the right-hand side is checked, *)
(* and a compound assignment does not check that its target is             *)
VerifyAssign(s, st) == VerifyExpr(s.e, Initialize(s.v, st))

(* likewise a local with an initialiser *)
VerifyLocalDecl(s, st) ==
  VerifyExprs(s.init, [st EXCEPT !.init = Emplace(@, s.v, s.init # <<>>)])

VerifyStmt(s, st) ==
  CASE s.k = "block" -> VerifyBlock(s.body, st)
    [] s.k \in {"expr", "transfer"} -> VerifyExpr(s.e, st)
    [] s.k = "decl" -> VerifyLocalDecl(s, st)
    [] s.k \in {"assign", "compound"} -> VerifyAssign(s, st)
    [] s.k = "if" -> VerifyIf(s, st)
    [] s.k = "while" -> VerifyWhile(s, st)
    [] s.k = "for" -> VerifyFor(s, st)
    [] s.k = "switch" -> VerifyCases(s.cases, VerifyExpr(s.c, st))
    [] s.k = "return" -> VerifyExprs(s.value, st)
    [] s.k \in {"break", "continue"} -> st

SomeReturns(body) == \E i \in DOMAIN body : DefinitelyReturns(body[i])

(* mutant of IfReturns: one branch is enough *)
EitherBranchReturns(s) ==
  s.els # <<>> /\ (SomeReturns(s.then) \/ SomeReturns(s.els[1]))

IfReturns(s) == s.els # <<>> /\ SomeReturns(s.then) /\ SomeReturns(s.els[1])

SwitchReturns(s) ==
  /\ \A i \in DOMAIN s.cases : SomeReturns(s.cases[i].body)
  /\ \E i \in DOMAIN s.cases : s.cases[i].default

DefinitelyReturns(s) ==
  CASE s.k = "return" -> TRUE
    [] s.k = "block" -> SomeReturns(s.body)
    [] s.k = "if" -> IfReturns(s)
    [] s.k = "switch" -> SwitchReturns(s)
    [] OTHER -> FALSE

VerifyMethod(m, st) ==
  LET params == [v \in m.params |-> TRUE]
      returns == m.void \/ SomeReturns(m.body)
  IN  [VerifyBlock(m.body, [st EXCEPT !.init = @ @@ params])
         EXCEPT !.ok = @ /\ returns]

(* linkField *)
LinkFields(cls) ==
  [ok |-> TRUE,
   init |-> [f \in Fields |-> \E i \in DOMAIN cls.preset : cls.preset[i] = f]]

(* verifyType: each constructor starts from the field initialisers; what   *)
(* all of them initialise is what the first method may read; every other   *)
(* method starts from the map the method before it leaves.  onDestroy is   *)
(* in neither initMap nor methodMap and is not walked at all.              *)
VerifyInits(cls, base) ==
  IF cls.inits = <<>> THEN base
  ELSE FoldLeft(LAMBDA st, m : Merge(st, VerifyMethod(m, base)),
                VerifyMethod(Head(cls.inits), base), Tail(cls.inits))

VerifyType(cls) ==
  FoldLeft(LAMBDA st, m : VerifyMethod(m, st),
           VerifyInits(cls, VerifyBlock(DefaultInit(cls).body, LinkFields(cls))),
           cls.methods)

Accepted(cls) == VerifyType(cls).ok

=============================================================================
