-------------------------- MODULE MCCompiledClass --------------------------
(***************************************************************************)
(* CompiledClass for TLC: families of small classes.                       *)
(*                                                                         *)
(* Ordinary leaves out what README section 5 lists as not compiled or not  *)
(* checked as documented, each by the way its programs are put together:   *)
(*  - a while opens its block, or follows a statement that ends in a fresh *)
(*    block, and its condition is no ternary or match (LowerWhile);        *)
(*  - an else, a for body and a case do not initialise what is read later, *)
(*    nothing uninitialised is the target of a compound assignment, and    *)
(*    methods do not initialise fields for each other, and onDestroy does  *)
(*    not read what is uninitialised (HIRVerifier);                        *)
(*  - bounds of a range are literals (LowerForRange);                      *)
(*  - operands of a ternary and values switched on are not ternaries or    *)
(*    matches, and a switch and a match have a default (LowerTernary,      *)
(*    MakeSwitch);                                                         *)
(*  - a method with a result does not end in an if or a switch all of      *)
(*    whose branches return (LowerMethod);                                 *)
(*  - a result is no local that owns something, and no local is declared   *)
(*    inside a match (LowerReturn, LowerValueTransfer).                    *)
(***************************************************************************)
EXTENDS CompiledClass

(* x, t and u own a buffer, i and y do not; p is a parameter, f a field *)
MCLocals == {"x", "t", "u", "i", "y"}
MCOwning == {"x", "t", "u"}
MCParams == {"p"}
MCFields == {"f"}

SetX == AssignTo("x", Lit)
UseX == ExprStmt(Load("x"))
SetP == AssignTo("p", Load("p"))
DeclT == LocalInit("t", Lit)
DeclU == LocalInit("u", Lit)
Cond == Lit
VoidMethod(body) == Class(<<>>, <<>>, <<Method({"p"}, TRUE, body)>>, <<>>)
Result(body) == Class(<<>>, <<>>, <<Method({"p"}, FALSE, body)>>, <<>>)

(* blocks of a branch and of the body of a loop *)
Branches == {<<>>, <<SetX>>, <<UseX>>, <<ReturnVoid>>, <<DeclT, ReturnVoid>>}
Else(then) ==
  IF then = <<SetX>> THEN {<<SetX>>, <<ReturnVoid>>}
  ELSE {<<>>, <<UseX>>, <<ReturnVoid>>}
Turns ==
  {<<SetX, UseX>>, <<DeclT>>, <<UseX, Break>>, <<DeclT, Continue>>,
   <<DeclT, ReturnVoid>>,
   <<If(Load("p"), <<DeclT, Break>>, <<>>), UseX>>,
   <<DeclT, If(Cond, <<Continue>>, <<<<Break>>>>)>>,
   <<DeclT, Block(<<If(Cond, <<Break>>, <<>>), SetP>>), UseX>>}
SafeTurns == {t \in Turns : SetX \notin ToSet(t)}

Ifs == {If(Load("p"), then, <<>>) : then \in Branches}
       \cup UNION {{If(Cond, then, <<else>>) : else \in Else(then)} :
                      then \in Branches}
Whiles == {While(Load("p"), turn) : turn \in Turns}
Fors == {ForRange("i", Lit, Lit, Lit, turn) : turn \in SafeTurns}
Nested ==
  {While(Cond, <<While(Load("p"), turn), DeclU>>) : turn \in Turns}
  \cup {ForRange("i", Lit, Lit, Lit, <<DeclU, If(Cond, <<loop>>, <<>>)>>) :
          loop \in {While(Cond, turn) : turn \in SafeTurns}}

(* x is declared, perhaps set on some paths; then a loop; then it is read *)
Loops ==
  {VoidMethod(<<LocalDecl("x"), if, loop>> \o rest) :
     if \in Ifs, loop \in Whiles \cup Fors \cup Nested, rest \in {<<>>, <<UseX>>}}
Paths ==
  {VoidMethod(<<LocalDecl("x"), if, SetP, then, UseX>>) : if \in Ifs, then \in Ifs}

(* expressions that are lowered to blocks of their own *)
Arms(e) == {<<ValueTransfer(e)>>,
            <<If(Cond, <<ValueTransfer(Load("p"))>>, <<<<ValueTransfer(e)>>>>)>>}
Values ==
  {Ternary(Load("p"), a, b) : a \in {Lit, Load("x")}, b \in {Lit, Load("p")}}
  \cup {Match(Load("p"), <<Case(a), Case(b), Default(<<ValueTransfer(Lit)>>)>>) :
          a \in Arms(Load("x")), b \in Arms(Lit)}
Expressions ==
  {VoidMethod(<<LocalDecl("x"), if, LocalInit("y", e), ExprStmt(Load("y"))>>) :
     if \in {SetX} \cup Ifs, e \in Values}
  \cup {Result(<<LocalDecl("x"), SetX, ReturnValue(e)>>) : e \in Values}
  \cup {VoidMethod(<<LocalDecl("x"), SetX, If(e, <<SetX>>, <<>>)>>) : e \in Values}

(* methods with a result, whose last statement is a return, or a choice of *)
(* which one branch does not return                                        *)
Give == <<ReturnValue(Load("p"))>>
Returning == {Give, <<DeclT>> \o Give, <<If(Cond, Give, <<Give>>)>>}
Falling == {<<>>, <<SetP>>, <<If(Cond, Give, <<>>)>>}
Exits == Returning \cup Falling
If2(b) == If(Cond, b[1], <<b[2]>>)
Switch3(b) == Switch(Load("p"), <<Case(b[1]), Case(b[2]), Default(b[3])>>)
Results ==
  UNION {{Result(<<DeclU, If2(b)>> \o Give) : b \in [1..2 -> Exits]},
         {Result(<<DeclU, If2(b)>>) : b \in [1..2 -> Exits] \ [1..2 -> Returning]},
         {Result(<<DeclU, Switch3(b)>> \o Give) : b \in [1..3 -> Exits]},
         {Result(<<DeclU, Switch3(b)>>) : b \in [1..3 -> Exits] \ [1..3 -> Returning]}}

(* classes: constructors that set the field on all paths or on some *)
SetF == AssignTo("f", Lit)
UseF == ExprStmt(Load("f"))
Constructors ==
  {Method({}, TRUE, b) : b \in {<<>>, <<SetF>>, <<If(Cond, <<SetF>>, <<>>)>>,
                                <<SetF, UseF>>, <<If(Cond, <<SetF>>, <<<<SetF>>>>), UseF>>}}
Users == {Method({}, TRUE, <<UseF>>), Method({"p"}, TRUE, <<If(Load("p"), <<UseF>>, <<>>)>>)}
Farewell == Method({}, TRUE, <<DeclT, If(Cond, <<ReturnVoid>>, <<>>), SetF, UseF>>)
Objects ==
  {Class(preset, inits, methods, onDestroy) :
     preset \in {<<>>, <<"f">>}, inits \in BoundedSeq(Constructors, 2),
     methods \in BoundedSeq(Users, 1), onDestroy \in {<<>>, <<Farewell>>}}

(* a while whose condition is a ternary, and a range loop whose body       *)
(* changes what its end was computed from                                  *)
LoopConditions ==
  {VoidMethod(<<While(Ternary(Load("p"), Lit, Load("p")), <<SetP>>)>>),
   VoidMethod(<<ForRange("i", Lit, Load("p"), Lit, <<AssignTo("p", Lit)>>)>>)}

(* a match that lists every variant and has no `_`; methods with a result  *)
(* that end in an if, and in a switch, all of whose branches return        *)
Ungenerated ==
  {VoidMethod(<<LocalInit("y", Match(Load("p"), <<Case(<<ValueTransfer(Lit)>>),
                                                 Case(<<ValueTransfer(Lit)>>)>>))>>),
   Result(<<If2(<<Give, Give>>)>>), Result(<<Switch3(<<Give, Give, Give>>)>>)}

(* reads before a value, each through a hole of its own: the target of a   *)
(* compound assignment; a local that only the then branch sets; a field    *)
(* that another method sets; a local of onDestroy                          *)
Unassigned ==
  {VoidMethod(<<LocalDecl("y"), CompoundAssign("y", Lit)>>),
   VoidMethod(<<LocalDecl("y"), If(Load("p"), <<AssignTo("y", Lit)>>, <<<<>>>>),
                ExprStmt(Load("y"))>>),
   Class(<<>>, <<>>, <<Method({}, TRUE, <<SetF>>), Method({}, TRUE, <<UseF>>)>>, <<>>),
   Class(<<>>, <<>>, <<>>,
         <<Method({}, TRUE, <<LocalDecl("y"), ExprStmt(Load("y"))>>)>>)}

Ordinary == Loops \cup Paths \cup Expressions \cup Results \cup Objects

(* What is in the condition of a while is evaluated on every turn, the     *)
(* bounds of a range once, before the loop starts (lowerWhile and          *)
(* lowerForRange of MIRStmtBuilder.cpp against docs/grammar.md, 8.5 and    *)
(* 8.6.1): a call has read each place as often as its statements say.      *)
ReadsOf(v, events) == Len(SelectSeq(events, LAMBDA e : e = <<"read", v>>))
EvaluatedAsOften ==
  phase = "ready" /\ calls > 0 =>
    \A v \in Named : ReadsOf(v, trace) = ReadsOf(v, Run(method, Picks).trace)

=============================================================================
