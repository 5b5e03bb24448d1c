---------------------------- MODULE HIRSemantics ----------------------------
(***************************************************************************)
(* What a method means: the reference the compiled code is compared with.  *)
(*                                                                         *)
(* A run of a method is the sequence of what it does to places, <<"read",  *)
(* v>> and <<"write", v>>, and of the ways its conditions went, <<"pick",  *)
(* i>>: 1 and 2 for true and false, the number of the case for a switch,   *)
(* one more than there are cases when none matches.  Given the picks, a    *)
(* run is determined.  Range loops compare and step as the language says,  *)
(* with bounds that are evaluated once.                                    *)
(*                                                                         *)
(* A state of a run has the trace so far, the picks left, and how the last *)
(* statement ended: "next", "break", "continue", "return", "transfer" out  *)
(* of a match, or "stuck" where the picks ran out.                         *)
(***************************************************************************)
EXTENDS HIR, Naturals, SequencesExt

RECURSIVE RunExpr(_, _), RunStmt(_, _), RunWhile(_, _), RunRange(_, _)

Going(st) == st.sig = "next"
Signal(sig, st) == IF Going(st) THEN [st EXCEPT !.sig = sig] ELSE st
Do(event, st) ==
  IF Going(st) THEN [st EXCEPT !.trace = Append(@, event)] ELSE st
Read(v, st) == Do(<<"read", v>>, st)
Write(v, st) == Do(<<"write", v>>, st)

(* take the next pick; pick is the one taken last *)
Pick(st) ==
  CASE ~Going(st) -> st
    [] Going(st) /\ st.picks = <<>> -> [st EXCEPT !.sig = "stuck"]
    [] OTHER -> [st EXCEPT !.trace = Append(@, <<"pick", Head(st.picks)>>),
                           !.picks = Tail(@), !.pick = Head(st.picks)]

RunExprs(es, st) == FoldLeft(LAMBDA s, e : RunExpr(e, s), st, es)
RunBlock(body, st) == FoldLeft(LAMBDA s, x : RunStmt(x, s), st, body)

(* the case that is taken, the default or nothing when none matches *)
RunCases(cases, st) ==
  LET plain == SelectSeq(cases, LAMBDA c : ~c.default)
      defaults == SelectSeq(cases, LAMBDA c : c.default)
      taken == IF st.pick <= Len(plain) THEN plain[st.pick].body
               ELSE IF defaults # <<>> THEN defaults[1].body ELSE <<>>
  IN  IF Going(st) THEN RunBlock(taken, st) ELSE st

RunExpr(e, st) ==
  CASE ~Going(st) \/ e.k = "lit" -> st
    [] Going(st) /\ e.k = "load" -> Read(e.v, st)
    [] Going(st) /\ e.k = "ternary" ->
         LET c == Pick(RunExpr(e.c, st))
         IN  RunExpr(IF c.pick = 1 THEN e.a ELSE e.b, c)
    [] Going(st) /\ e.k = "match" ->
         LET done == RunCases(e.cases, Pick(RunExpr(e.c, st)))
         IN  IF done.sig = "transfer" THEN [done EXCEPT !.sig = "next"] ELSE done

(* after one turn of a loop: leave it, or go on with the next turn *)
AfterTurn(turn, again(_)) ==
  CASE turn.sig = "break" -> [turn EXCEPT !.sig = "next"]
    [] turn.sig \in {"next", "continue"} -> again([turn EXCEPT !.sig = "next"])
    [] OTHER -> turn

RunWhile(s, st) ==
  LET c == Pick(RunExpr(s.c, st))
  IN  IF Going(c) /\ c.pick = 1
      THEN AfterTurn(RunBlock(s.body, c), LAMBDA t : RunWhile(s, t))
      ELSE c

RunRange(s, st) ==
  LET c == Pick(Read(s.v, st))
      step(t) == RunRange(s, Write(s.v, Read(s.v, t)))
  IN  IF Going(c) /\ c.pick = 1
      THEN AfterTurn(RunBlock(s.body, c), step)
      ELSE c

RunStmt(s, st) ==
  CASE ~Going(st) -> st
    [] Going(st) /\ s.k = "block" -> RunBlock(s.body, st)
    [] Going(st) /\ s.k = "expr" -> RunExpr(s.e, st)
    [] Going(st) /\ s.k = "decl" ->
         IF s.init = <<>> THEN st ELSE Write(s.v, RunExpr(s.init[1], st))
    [] Going(st) /\ s.k = "assign" -> Write(s.v, RunExpr(s.e, st))
    [] Going(st) /\ s.k = "compound" -> Write(s.v, RunExpr(s.e, Read(s.v, st)))
    [] Going(st) /\ s.k = "if" ->
         LET c == Pick(RunExpr(s.c, st))
         IN  IF ~Going(c) THEN c
             ELSE IF c.pick = 1 THEN RunBlock(s.then, c)
             ELSE IF s.els # <<>> THEN RunBlock(s.els[1], c) ELSE c
    [] Going(st) /\ s.k = "while" -> RunWhile(s, st)
    [] Going(st) /\ s.k = "for" ->
         RunRange(s, Write(s.v, RunExprs(<<s.start, s.end, s.step>>, st)))
    [] Going(st) /\ s.k = "switch" -> RunCases(s.cases, Pick(RunExpr(s.c, st)))
    [] Going(st) /\ s.k = "return" -> Signal("return", RunExprs(s.value, st))
    [] Going(st) /\ s.k \in {"break", "continue"} -> Signal(s.k, st)
    [] Going(st) /\ s.k = "transfer" -> Signal("transfer", RunExpr(s.e, st))

(* the run of a method that the picks determine *)
Run(m, picks) ==
  RunBlock(m.body, [trace |-> <<>>, picks |-> picks, pick |-> 0, sig |-> "next"])

=============================================================================
