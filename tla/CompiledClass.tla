--------------------------- MODULE CompiledClass ---------------------------
(***************************************************************************)
(* A class taken through the compiler and run: verified on its HIR         *)
(* (HIRVerifier), lowered to blocks (MIRBuilder), and executed block by    *)
(* block (MIRExecution).  What it does is compared with what its methods   *)
(* say (HIRSemantics).                                                     *)
(*                                                                         *)
(* A configuration gives Verified, CodeOf and FactsOf the values Accepted, *)
(* LowerMethod and Dataflow.                                               *)
(***************************************************************************)
EXTENDS HIRVerifier, MIRBuilder, HIRSemantics, MIRExecution

(* The compiled method does what the method says: at every point its reads *)
(* and writes of named places and the ways its conditions went are a       *)
(* beginning of the run those conditions determine, and the whole of it    *)
(* when it returns (MIRStmtBuilder.cpp, MIRExprBuilder.cpp: no statement   *)
(* is lost, repeated or moved to another path by the lowering).            *)
FollowsSource ==
  LET run == Run(method, Picks)
  IN  CASE phase = "running" -> IsPrefix(trace, run.trace)
        [] phase = "ready" /\ calls > 0 ->
             trace = run.trace /\ run.sig \in {"next", "return"}
        [] OTHER -> TRUE

(* In a class the verifier accepts, every way through a method with a      *)
(* result that comes to an end comes to a return, whatever its conditions  *)
(* (HIRVerifier.cpp, definitelyReturns: "may exit without returning a      *)
(* value").  A way is the outcome of a method's first MaxWay conditions.   *)
MaxWay == 3
Ways == [1..MaxWay -> 1..3]
ReturnsValue ==
  phase # "rejected" /\ calls = 0 =>
    \A m \in ToSet(cls.methods) :
      ~m.void => \A picks \in Ways : Run(m, picks).sig # "next"

-----------------------------------------------------------------------------
(* The facts that certify a method (MIRExecution): from the fact at its    *)
(* entry, what a block is left with is carried to the blocks it goes to,   *)
(* until nothing changes.                                                  *)
Meet(facts) ==
  [set |-> {v \in UNION {f.set : f \in facts} : \A f \in facts : v \in f.set},
   live |-> UNION {f.live : f \in facts}]

Left(block, fact) == FoldLeft(LAMBDA f, s : After(s, f), fact, block.stmts)

RECURSIVE Carry(_, _)
Carry(code, entry) ==
  LET from(t) == {b \in DOMAIN entry : t \in Targets(code[b].term)}
      reached == DOMAIN entry \cup UNION {Targets(code[b].term) : b \in DOMAIN entry}
      next == [t \in reached |->
                 Meet({Left(code[b], entry[b]) : b \in from(t)}
                      \cup {entry[b] : b \in {t} \cap DOMAIN entry})]
  IN  IF next = entry THEN entry ELSE Carry(code, next)

Dataflow(m, known) ==
  LET code == LowerMethod(m)
      start == [set |-> known \cup (m.params \ Fields), live |-> Owning \cap m.params]
      entry == Carry(code, 1 :> start)
      before(b, i) == [code[b] EXCEPT !.stmts = SubSeq(@, 1, i - 1)]
  IN  [b \in DOMAIN entry |->
         [i \in 1..(Len(code[b].stmts) + 1) |-> Left(before(b, i), entry[b])]]

=============================================================================
