----------------------------- MODULE MIRBuilder -----------------------------
(***************************************************************************)
(* The lowering of a method from HIR to the basic blocks of MIR            *)
(* (src/src/IR/MIR/MIRBuilder.cpp, MIRStmtBuilder.cpp, MIRExprBuilder.cpp, *)
(* MIRUtil.cpp, MIRScope.cpp).                                             *)
(*                                                                         *)
(* The C++ builder is an object that is mutated; here it is a record that  *)
(* an operator takes and returns:                                          *)
(*   blocks    currentFunc->blocks, ids from 1                             *)
(*   cur       currentBlock                                                *)
(*   scopes    the chain of IRScopes from the outermost to currentScope,   *)
(*             each the sequence of its locals                             *)
(*   loops     the stack of LoopContexts; a scope is named by its depth    *)
(*   matches   the stack of MatchContexts                                  *)
(*   temps     currentFunc->nextTemp                                       *)
(* A MIR value is the sequence of places it loads when it is evaluated.    *)
(***************************************************************************)
EXTENDS HIR, Naturals, SequencesExt

TempName(n) == "$tmp" \o ToString(n)

(* MIR statements and terminators *)
Eval(loads) == [k |-> "eval", loads |-> loads]
Decl(v, init) == [k |-> "decl", v |-> v, init |-> init]
Assign(v, loads) == [k |-> "assign", v |-> v, loads |-> loads]
Cleanup(vs) == [k |-> "cleanup", vs |-> vs]
NoTerminator == [k |-> "none"]
Goto(to) == [k |-> "goto", to |-> to]
Branch(loads, then, else) ==
  [k |-> "branch", loads |-> loads, to |-> <<then, else>>]
SwitchOn(loads, targets, default) ==
  [k |-> "branch", loads |-> loads, to |-> Append(targets, default)]
Return(value) == [k |-> "return", value |-> value]

NewBuilder ==
  [blocks |-> <<>>, cur |-> 0, scopes |-> <<>>, loops |-> <<>>,
   matches |-> <<>>, temps |-> 0]

MakeBlocks(n, b) ==
  [b EXCEPT !.blocks = @ \o [i \in 1..n |-> [stmts |-> <<>>,
                                             term |-> NoTerminator]]]
At(id, b) == [b EXCEPT !.cur = id]
Emit(inst, b) == [b EXCEPT !.blocks[b.cur].stmts = Append(@, inst)]
Terminate(id, term, b) == [b EXCEPT !.blocks[id].term = term]
HasTerminator(id, b) == b.blocks[id].term # NoTerminator
TerminateIfOpen(id, term, b) ==
  [b EXCEPT !.blocks[id].term = IF @ = NoTerminator THEN term ELSE @]
End(term, b) == Terminate(b.cur, term, b)
EndIfOpen(term, b) == TerminateIfOpen(b.cur, term, b)

EnterScope(b) == [b EXCEPT !.scopes = Append(@, <<>>)]
ExitScope(b) == [b EXCEPT !.scopes = Front(@)]
AddLocal(v, b) == [b EXCEPT !.scopes[Len(b.scopes)] = Append(@, v)]
EmitCleanup(b) == Emit(Cleanup(Last(b.scopes)), b)

(* mutant of EmitCleanupUntil: it stops one scope too early *)
CleanupStopsEarly(depth, b) ==
  FoldLeft(LAMBDA c, locals : Emit(Cleanup(locals), c), b,
           Reverse(SubSeq(b.scopes, depth + 2, Len(b.scopes))))

(* emitCleanupUntil: the scopes deeper than depth, the innermost first *)
EmitCleanupUntil(depth, b) ==
  FoldLeft(LAMBDA c, locals : Emit(Cleanup(locals), c), b,
           Reverse(SubSeq(b.scopes, depth + 1, Len(b.scopes))))

(* a lowered expression: the value, and the builder that has lowered it *)
Lowered(loads, b) == [loads |-> loads, b |-> b]
EmitDecl(v, x) == Emit(Decl(v, <<x.loads>>), x.b)
EmitAssign(v, x) == Emit(Assign(v, x.loads), x.b)
EmitUpdate(v, x) == Emit(Assign(v, <<v>> \o x.loads), x.b)
BranchAt(id, x, then, else) == Terminate(id, Branch(x.loads, then, else), x.b)

RECURSIVE LowerExpr(_, _), LowerStmt(_, _)

(* lowerBlock: what follows a terminator is dropped *)
CleanupIfOpen(b) == IF HasTerminator(b.cur, b) THEN b ELSE EmitCleanup(b)
LowerBlock(body, b) ==
  LET lower(c, s) == IF HasTerminator(c.cur, c) THEN c ELSE LowerStmt(s, c)
  IN  ExitScope(CleanupIfOpen(FoldLeft(lower, EnterScope(b), body)))

(* lowerTernary: the blocks keep their numbers whatever blocks the         *)
(* lowering of an operand has moved to                                     *)
TernaryArm(e, id, temp, join, b) ==
  Terminate(id, Goto(join), EmitAssign(temp, LowerExpr(e, At(id, b))))

LowerTernary(e, b) ==
  LET n == Len(b.blocks)
      cond == n + 1
      then == n + 2
      else == n + 3
      join == n + 4
      temp == TempName(b.temps)
      entry == Emit(Decl(temp, <<>>), MakeBlocks(4, [b EXCEPT !.temps = @ + 1]))
      test == LowerExpr(e.c, At(cond, End(Goto(cond), entry)))
      first == TernaryArm(e.a, then, temp, join, BranchAt(cond, test, then, else))
  IN  Lowered(<<temp>>, At(join, TernaryArm(e.b, else, temp, join, first)))

(* SwitchData: cond is the number of the block the caller was in before    *)
(* the value switched on was lowered                                       *)
SwitchData(s, cond, default, cleanup, join) ==
  [cases |-> s.cases, cond |-> cond, default |-> default, cleanup |-> cleanup,
   join |-> join, hasDefault |-> \E i \in DOMAIN s.cases : s.cases[i].default]

(* one case of makeSwitch; acc adds the targets of the cases so far *)
LowerCase(case, data, acc) ==
  LET id == IF case.default THEN data.default ELSE Len(acc.b.blocks) + 1
      b1 == IF case.default THEN acc.b ELSE MakeBlocks(1, acc.b)
      b2 == EmitCleanup(LowerBlock(case.body, EnterScope(At(id, b1))))
  IN  [b |-> ExitScope(EndIfOpen(Goto(data.cleanup), b2)),
       targets |-> IF case.default THEN acc.targets ELSE Append(acc.targets, id)]

CloseSwitch(data, temp, acc) ==
  LET other == IF data.hasDefault THEN data.default ELSE data.cleanup
      b1 == IF data.hasDefault
            THEN TerminateIfOpen(data.default, Goto(data.cleanup), acc.b)
            ELSE acc.b
      b2 == Terminate(data.cond, SwitchOn(<<temp>>, acc.targets, other), b1)
  IN  Terminate(data.cleanup, Goto(data.join), EmitCleanup(At(data.cleanup, b2)))

(* makeSwitch, once its value x is lowered; its scope is on the stack *)
MakeSwitch(data, x) ==
  LET temp == TempName(x.b.temps)
      held == EmitDecl(temp, [x EXCEPT !.b = AddLocal(temp, [@ EXCEPT !.temps = @ + 1])])
      lower(acc, case) == LowerCase(case, data, acc)
  IN  CloseSwitch(data, temp,
                  FoldLeft(lower, [b |-> held, targets |-> <<>>], data.cases))

LowerMatch(e, b) ==
  LET n == Len(b.blocks)
      data == SwitchData(e, n + 1, n + 2, n + 3, n + 4)
      result == TempName(b.temps)
      match == [result |-> result, join |-> data.cleanup]
      b1 == AddLocal(result, MakeBlocks(4, [b EXCEPT !.temps = @ + 1]))
      b2 == End(Goto(data.cond), Emit(Decl(result, <<>>), b1))
      b3 == [EnterScope(At(data.cond, b2)) EXCEPT !.matches = Append(@, match)]
      b4 == ExitScope(MakeSwitch(data, LowerExpr(e.c, b3)))
  IN  Lowered(<<result>>, At(data.join, [b4 EXCEPT !.matches = Front(@)]))

LowerExpr(e, b) ==
  CASE e.k = "lit" -> Lowered(<<>>, b)
    [] e.k = "load" -> Lowered(<<e.v>>, b)
    [] e.k = "ternary" -> LowerTernary(e, b)
    [] e.k = "match" -> LowerMatch(e, b)

(* lowerIf, once the condition x is lowered *)
LowerIf(s, x) ==
  LET n == Len(x.b.blocks)
      then == n + 1
      else == n + 2
      join == n + 3
      b1 == BranchAt(x.b.cur, [x EXCEPT !.b = MakeBlocks(3, @)], then, else)
      b2 == EndIfOpen(Goto(join), LowerBlock(s.then, At(then, b1)))
      b3 == IF s.els = <<>> THEN At(else, b2) ELSE LowerBlock(s.els[1], At(else, b2))
  IN  At(join, EndIfOpen(Goto(join), b3))

(* lowerWhile, once the condition x is lowered: the block the loop returns *)
(* to is the one the condition ended in                                    *)
LowerWhile(s, x) ==
  LET n == Len(x.b.blocks)
      cond == x.b.cur
      then == n + 1
      else == n + 2
      join == n + 3
      depth == Len(x.b.scopes)
      loop == [continue |-> cond, break |-> join,
               continueDepth |-> depth, breakDepth |-> depth]
      b1 == BranchAt(cond, [x EXCEPT !.b = MakeBlocks(3, @)], then, else)
      b2 == LowerBlock(s.body, [At(then, b1) EXCEPT !.loops = Append(@, loop)])
      b3 == EndIfOpen(Goto(cond), [b2 EXCEPT !.loops = Front(@)])
  IN  At(join, Terminate(else, Goto(join), b3))

(* mutant of RangeLoop: continue goes to the test and skips the step *)
ContinueSkipsStep(cond, step, join, depth) ==
  [continue |-> cond, break |-> join,
   continueDepth |-> depth + 1, breakDepth |-> depth]

(* the LoopContext of a range loop met in a scope of the given depth *)
RangeLoop(cond, step, join, depth) ==
  [continue |-> step, break |-> join,
   continueDepth |-> depth + 1, breakDepth |-> depth]

RangeTest(v, id, x, then, else) ==
  BranchAt(id, [x EXCEPT !.loads = <<v>> \o @], then, else)

LowerForRange(s, b) ==
  LET n == Len(b.blocks)
      cond == n + 1
      body == n + 2
      step == n + 3
      join == n + 4
      loop == RangeLoop(cond, step, join, Len(b.scopes))
      b1 == Emit(Decl(s.v, <<>>), AddLocal(s.v, MakeBlocks(4, EnterScope(b))))
      b2 == Terminate(b.cur, Goto(cond), EmitAssign(s.v, LowerExpr(s.start, b1)))
      b3 == RangeTest(s.v, cond, LowerExpr(s.end, At(cond, b2)), body, join)
      b4 == LowerBlock(s.body, [At(body, b3) EXCEPT !.loops = Append(@, loop)])
      b5 == At(step, [EndIfOpen(Goto(step), b4) EXCEPT !.loops = Front(@)])
      b6 == Terminate(step, Goto(cond), EmitUpdate(s.v, LowerExpr(s.step, b5)))
  IN  ExitScope(EmitCleanup(At(join, b6)))

LowerSwitch(s, b) ==
  LET n == Len(b.blocks)
      data == SwitchData(s, b.cur, n + 1, n + 2, n + 3)
      x == LowerExpr(s.c, EnterScope(MakeBlocks(3, b)))
  IN  At(data.join, ExitScope(MakeSwitch(data, x)))

LowerLocalDecl(s, b) ==
  LET declare(x) == EmitDecl(s.v, [x EXCEPT !.b = AddLocal(s.v, @)])
  IN  IF s.init = <<>> THEN Emit(Decl(s.v, <<>>), AddLocal(s.v, b))
      ELSE declare(LowerExpr(s.init[1], b))

LowerReturn(s, b) ==
  LET return(x) == End(Return(<<x.loads>>), EmitCleanupUntil(0, x.b))
  IN  IF s.value = <<>> THEN End(Return(<<>>), EmitCleanupUntil(0, b))
      ELSE return(LowerExpr(s.value[1], b))

LowerBreak(b) ==
  End(Goto(Last(b.loops).break), EmitCleanupUntil(Last(b.loops).breakDepth, b))

LowerContinue(b) ==
  End(Goto(Last(b.loops).continue),
      EmitCleanupUntil(Last(b.loops).continueDepth, b))

LowerValueTransfer(s, b) ==
  LET match == Last(b.matches)
  IN  End(Goto(match.join), EmitAssign(match.result, LowerExpr(s.e, b)))

LowerExprStmt(x) == Emit(Eval(x.loads), x.b)

LowerStmt(s, b) ==
  CASE s.k = "block" -> LowerBlock(s.body, b)
    [] s.k = "expr" -> LowerExprStmt(LowerExpr(s.e, b))
    [] s.k = "decl" -> LowerLocalDecl(s, b)
    [] s.k = "assign" -> EmitAssign(s.v, LowerExpr(s.e, b))
    [] s.k = "compound" -> EmitUpdate(s.v, LowerExpr(s.e, b))
    [] s.k = "if" -> LowerIf(s, LowerExpr(s.c, b))
    [] s.k = "while" -> LowerWhile(s, LowerExpr(s.c, b))
    [] s.k = "for" -> LowerForRange(s, b)
    [] s.k = "switch" -> LowerSwitch(s, b)
    [] s.k = "return" -> LowerReturn(s, b)
    [] s.k = "break" -> LowerBreak(b)
    [] s.k = "continue" -> LowerContinue(b)
    [] s.k = "transfer" -> LowerValueTransfer(s, b)

LowerFunction(m) ==
  ExitScope(LowerBlock(m.body, EnterScope(At(1, MakeBlocks(1, NewBuilder)))))

(* mutant of LowerMethod: no return is added at the end *)
MethodWithoutReturn(m) == LowerFunction(m).blocks

(* lowerMethod; also lowerType's lowering of the default constructor *)
LowerMethod(m) == EndIfOpen(Return(<<>>), LowerFunction(m)).blocks

=============================================================================
