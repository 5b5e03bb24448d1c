------------------------- MODULE MIRExecutionProofs -------------------------
(***************************************************************************)
(* A class whose blocks are certified runs without fault: theorems about   *)
(* MIRExecution for every class, every verifier, every lowering, and every *)
(* bound on the calls and on the conditions they evaluate.                 *)
(*                                                                         *)
(* Certified asks something of each statement by itself.  IInv carries it  *)
(* through a run: the running method is one that may be called now, its    *)
(* position is in a block that has facts, and what the facts say there is  *)
(* so of the slots; between calls, the fields that the functions finished  *)
(* so far promise have a value.                                            *)
(***************************************************************************)
EXTENDS MIRExecution, TLAPS

Val(sl, v) == IF v \in DOMAIN sl THEN sl[v] ELSE "undeclared"

\* The slots are as a fact says.
Agrees(sl, fact) ==
  /\ \A v \in fact.set : Val(sl, v) = "set"
  /\ \A v \in Owning : v \in fact.live <=> Val(sl, v) \in {"declared", "set"}

\* Fields keep their slots, and those in kept their values.
FieldsKept(sl, kept) ==
  /\ Fields \subseteq DOMAIN sl
  /\ \A f \in kept : Val(sl, f) = "set"

States(sl) == \A v \in DOMAIN sl : sl[v] \in SlotStates

Facts == FactsOf(method, Known(cls, calls))

Position ==
  /\ calls > 0
  /\ method \in Callable(cls, calls)
  /\ blocks = CodeOf(method)
  /\ at.block \in DOMAIN Facts
  /\ at.pos \in 1..(Len(Stmts) + 1)

IInv ==
  /\ phase \in Phases
  /\ calls \in 0..MaxCalls
  /\ States(slots)
  /\ phase \in {"ready", "running"} => Certified(cls)
  /\ FieldsKept(slots, {})
  /\ phase = "ready" => FieldsKept(slots, Known(cls, calls + 1))
  /\ phase = "running" => /\ Position
                          /\ FieldsKept(slots, Known(cls, calls))
                          /\ Agrees(slots, Facts[at.block][at.pos])

-----------------------------------------------------------------------------
\* What is certified for the third function called, and known then, is for
\* every later one.
LEMMA CallableCertified ==
  ASSUME NEW c, Certified(c), NEW n \in Nat, n > 0, NEW m \in Callable(c, n)
  PROVE  CertifiedMethod(m, Known(c, n))
<1>1. CASE n \in 1..3
  BY <1>1 DEF Certified
<1>2. CASE n > 3
  <2>1. Callable(c, n) = Callable(c, 3) /\ Known(c, n) = Known(c, 3)
    BY <1>2 DEF Callable, Known
  <2> QED
    BY <2>1 DEF Certified
<1> QED
  BY <1>1, <1>2

\* What a certificate says of a method as a whole and of one of its blocks.
LEMMA CertifiedParts ==
  ASSUME NEW m, NEW known, CertifiedMethod(m, known)
  PROVE  /\ 1 \in DOMAIN FactsOf(m, known)
         /\ FactsOf(m, known)[1][1].set \subseteq known \cup (m.params \ Fields)
         /\ FactsOf(m, known)[1][1].live = Owning \cap m.params
         /\ DOMAIN FactsOf(m, known) \subseteq DOMAIN CodeOf(m)
         /\ \A b \in DOMAIN FactsOf(m, known) :
              CertifiedBlock(CodeOf(m), FactsOf(m, known), b)
BY DEF CertifiedMethod

\* Known fields are fields.
LEMMA KnownAreFields == ASSUME NEW c, NEW n PROVE Known(c, n) \subseteq Fields
BY DEF Known, Made, Preset, Kept

\* A fact that leads to another carries the slots with it.
LEMMA LeadsAgrees ==
  ASSUME NEW sl, NEW fact, NEW next, Agrees(sl, fact), Leads(fact, next)
  PROVE  Agrees(sl, next)
BY DEF Agrees, Leads

\* A value in one slot: what it does to the facts, the fields and the states.
LEMMA DeclAgrees ==
  ASSUME NEW sl, NEW fact, NEW s, s.k = "decl", Agrees(sl, fact), Allowed(s, fact),
         NEW sl2,
         sl2 = [u \in DOMAIN sl \cup {s.v} |->
                  IF u = s.v THEN IF s.init = <<>> THEN "declared" ELSE "set"
                  ELSE sl[u]]
  PROVE  Agrees(sl2, After(s, fact))
BY DEF Agrees, Allowed, After, Val

LEMMA AssignAgrees ==
  ASSUME NEW sl, NEW fact, NEW s, s.k = "assign", Agrees(sl, fact), Allowed(s, fact),
         NEW sl2,
         sl2 = [u \in DOMAIN sl \cup {s.v} |-> IF u = s.v THEN "set" ELSE sl[u]]
  PROVE  Agrees(sl2, After(s, fact))
BY DEF Agrees, Allowed, After, Val

LEMMA CleanupAgrees ==
  ASSUME NEW sl, NEW fact, NEW s, s.k = "cleanup", Agrees(sl, fact),
         NEW sl2,
         sl2 = [u \in DOMAIN sl \cup Freed(s) |->
                  IF u \in Freed(s) THEN "destroyed" ELSE sl[u]]
  PROVE  Agrees(sl2, After(s, fact))
BY DEF Agrees, After, Val

\* Fields keep their values under an assignment, a declaration and a cleanup.
LEMMA SlotKept ==
  ASSUME NEW sl, NEW kept, FieldsKept(sl, kept), States(sl), NEW v, NEW st \in SlotStates,
         st = "set" \/ v \notin kept, NEW sl2,
         sl2 = [u \in DOMAIN sl \cup {v} |-> IF u = v THEN st ELSE sl[u]]
  PROVE  FieldsKept(sl2, kept) /\ States(sl2)
BY DEF FieldsKept, States, Val

LEMMA CleanupKept ==
  ASSUME NEW sl, NEW kept \in SUBSET Fields, FieldsKept(sl, kept), States(sl), NEW s, NEW sl2,
         sl2 = [u \in DOMAIN sl \cup Freed(s) |->
                  IF u \in Freed(s) THEN "destroyed" ELSE sl[u]]
  PROVE  FieldsKept(sl2, kept) /\ States(sl2)
<1>1. Freed(s) \cap kept = {}
  BY MIRExecutionAssumption DEF Freed
<1> QED
  BY <1>1 DEF FieldsKept, States, SlotStates, Val

\* What a function keeps where it returns is what is known at the next call.
LEMMA KnownGrows ==
  ASSUME NEW c, NEW n \in Nat, n > 0, NEW m \in Callable(c, n),
         NEW b \in DOMAIN FactsOf(m, Known(c, n)), CodeOf(m)[b].term.k = "return",
         NEW f \in Known(c, n + 1)
  PROVE  \/ f \in Known(c, n)
         \/ f \in FactsOf(m, Known(c, n))[b][Len(CodeOf(m)[b].stmts) + 1].set
<1>1. CASE n = 1
  <2>1. m = DefaultInit(c) /\ Known(c, n) = {} /\ f \in Kept(m, {})
    BY <1>1 DEF Callable, Known, Preset
  <2> QED
    BY <2>1 DEF Kept
<1>2. CASE n = 2 /\ c.inits # <<>>
  <2>1. f \in Kept(m, Preset(c)) /\ Known(c, n) = Preset(c)
    BY <1>2 DEF Callable, Known, Made
  <2> QED
    BY <2>1 DEF Kept
<1>3. CASE n = 2 /\ c.inits = <<>>
  BY <1>3 DEF Known, Made
<1>4. CASE n > 2
  BY <1>4 DEF Known
<1> QED
  BY <1>1, <1>2, <1>3, <1>4

-----------------------------------------------------------------------------
\* At a statement: it is allowed, its block certified, and the position after
\* it is in the block.
LEMMA AtStatement ==
  ASSUME IInv, phase = "running", at.pos <= Len(Stmts)
  PROVE  LET s == Stmts[at.pos]
             here == Facts[at.block][at.pos]
         IN  /\ Allowed(s, here)
             /\ Leads(After(s, here), Facts[at.block][at.pos + 1])
             /\ at.pos + 1 \in 1..(Len(Stmts) + 1)
<1>1. /\ Position
      /\ Certified(cls)
      /\ calls \in Nat
  BY MIRExecutionAssumption DEF IInv
<1>2. CertifiedMethod(method, Known(cls, calls))
  BY <1>1, CallableCertified DEF Position
<1>3. CertifiedBlock(blocks, Facts, at.block)
  BY <1>1, <1>2, CertifiedParts DEF Position, Facts
<1>4. Stmts \in Seq(Statement)
  BY <1>3 DEF CertifiedBlock, Stmts
<1>5. at.pos \in DOMAIN Stmts /\ at.pos + 1 \in 1..(Len(Stmts) + 1)
  BY <1>1, <1>4 DEF Position
<1> QED
  BY <1>3, <1>5 DEF CertifiedBlock, Stmts

\* At a terminator: what it reads, where it may go and how it returns.
LEMMA AtTerminator ==
  ASSUME IInv, phase = "running", at.pos > Len(Stmts)
  PROVE  LET here == Facts[at.block][at.pos]
         IN  /\ at.pos = Len(Stmts) + 1
             /\ TermLoads(Term) \subseteq here.set
             /\ \A t \in Targets(Term) :
                  /\ t \in DOMAIN Facts
                  /\ Leads(here, Facts[t][1])
                  /\ 1 \in 1..(Len(blocks[t].stmts) + 1)
             /\ Term.k = "return" => here.live = {}
<1>1. /\ Position
      /\ Certified(cls)
      /\ calls \in Nat
  BY MIRExecutionAssumption DEF IInv
<1>2. CertifiedMethod(method, Known(cls, calls))
  BY <1>1, CallableCertified DEF Position
<1>3. \A b \in DOMAIN Facts : CertifiedBlock(blocks, Facts, b)
  BY <1>1, <1>2, CertifiedParts DEF Position, Facts
<1>4. \A b \in DOMAIN Facts : blocks[b].stmts \in Seq(Statement)
  BY <1>3 DEF CertifiedBlock
<1>5. \A b \in DOMAIN Facts : 1 \in 1..(Len(blocks[b].stmts) + 1)
  BY <1>4
<1>6. at.pos = Len(Stmts) + 1
  <2>1. Stmts \in Seq(Statement) /\ at.pos \in 1..(Len(Stmts) + 1)
    BY <1>1, <1>4 DEF Position, Stmts
  <2> QED
    BY <2>1
<1>7. CertifiedBlock(blocks, Facts, at.block)
  BY <1>1, <1>3 DEF Position
<1> QED
  BY <1>5, <1>6, <1>7 DEF CertifiedBlock, Stmts, Term

-----------------------------------------------------------------------------
\* A step over a statement: the slots agree with the fact after it.
LEMMA AdvanceInv ==
  ASSUME IInv, phase = "running", at.pos <= Len(Stmts), Advance,
         Agrees(slots', After(Stmts[at.pos], Facts[at.block][at.pos])),
         FieldsKept(slots', {}), FieldsKept(slots', Known(cls, calls)), States(slots')
  PROVE  IInv'
<1>1. /\ Leads(After(Stmts[at.pos], Facts[at.block][at.pos]), Facts[at.block][at.pos + 1])
      /\ at.pos + 1 \in 1..(Len(Stmts) + 1)
  BY AtStatement
<1>2. Agrees(slots', Facts[at.block][at.pos + 1])
  BY <1>1, LeadsAgrees
<1>3. Facts' = Facts /\ at'.block = at.block /\ at'.pos = at.pos + 1 /\ Stmts' = Stmts
  BY DEF Advance, Facts, Stmts
<1>4. Position'
  BY <1>1, <1>3 DEF IInv, Position, Advance
<1> QED
  BY <1>2, <1>3, <1>4 DEF IInv, Advance

\* A jump to one of the targets of the terminator.
LEMMA JumpInv ==
  ASSUME IInv, phase = "running", at.pos > Len(Stmts), NEW id \in Targets(Term), Jump(id)
  PROVE  IInv'
<1>1. /\ id \in DOMAIN Facts
      /\ Leads(Facts[at.block][at.pos], Facts[id][1])
      /\ 1 \in 1..(Len(blocks[id].stmts) + 1)
  BY AtTerminator
<1>2. Agrees(slots, Facts[id][1])
  BY <1>1, LeadsAgrees DEF IInv
<1>3. Facts' = Facts /\ at'.block = id /\ at'.pos = 1 /\ Stmts' = blocks[id].stmts
  BY DEF Jump, Facts, Stmts
<1>4. Position'
  BY <1>1, <1>3 DEF IInv, Position, Jump
<1> QED
  BY <1>2, <1>3, <1>4 DEF IInv, Jump

\* A call: the parameters and the known fields have a value, nothing else does.
LEMMA CallInv ==
  ASSUME IInv, NEW m \in Callable(cls, calls + 1), Call(m)
  PROVE  IInv'
<1> DEFINE known == Known(cls, calls + 1)
<1>1. /\ Certified(cls) /\ calls \in Nat /\ calls < MaxCalls
      /\ FieldsKept(slots, known) /\ States(slots) /\ FieldsKept(slots, {})
  BY MIRExecutionAssumption DEF IInv, Call
<1>2. CertifiedMethod(m, known)
  BY <1>1, CallableCertified
<1>3. /\ 1 \in DOMAIN FactsOf(m, known)
      /\ FactsOf(m, known)[1][1].set \subseteq known \cup (m.params \ Fields)
      /\ FactsOf(m, known)[1][1].live = Owning \cap m.params
      /\ CertifiedBlock(CodeOf(m), FactsOf(m, known), 1)
  BY <1>2, CertifiedParts
<1>4. 1 \in 1..(Len(CodeOf(m)[1].stmts) + 1)
  <2>1. CodeOf(m)[1].stmts \in Seq(Statement)
    BY <1>3 DEF CertifiedBlock
  <2> QED
    BY <2>1
<1>5. slots' = [v \in Fields \cup m.params |-> IF v \in Fields THEN slots[v] ELSE "set"]
  BY DEF Call
<1>6. FieldsKept(slots', known) /\ FieldsKept(slots', {}) /\ States(slots')
  BY <1>1, <1>5, KnownAreFields DEF FieldsKept, States, SlotStates, Val
<1>7. Agrees(slots', FactsOf(m, known)[1][1])
  BY <1>1, <1>3, <1>5, KnownAreFields, MIRExecutionAssumption DEF Agrees, FieldsKept, Val
<1>8. /\ Facts' = FactsOf(m, known) /\ at'.block = 1 /\ at'.pos = 1
      /\ Stmts' = CodeOf(m)[1].stmts
  BY DEF Call, Facts, Stmts
<1>9. Position'
  BY <1>1, <1>3, <1>4, <1>8 DEF Position, Call
<1>10. Agrees(slots, Facts[at.block][at.pos])'
  BY <1>7, <1>8
<1>11. FieldsKept(slots, Known(cls, calls))'
  BY <1>6 DEF Call
<1>12. /\ phase' = "running" /\ cls' = cls /\ calls' = calls + 1
       /\ calls + 1 \in 0..MaxCalls
  BY <1>1, MIRExecutionAssumption DEF Call
<1> QED
  BY <1>1, <1>6, <1>9, <1>10, <1>11, <1>12 DEF IInv, Phases

\* A return: what the method keeps is known at the next call.
LEMMA ReturnInv == IInv /\ ReturnTerm => IInv'
<1> SUFFICES ASSUME IInv, ReturnTerm PROVE IInv'
  OBVIOUS
<1>1. /\ phase = "running" /\ at.pos > Len(Stmts) /\ Term.k = "return"
      /\ phase' = "ready" /\ UNCHANGED <<cls, slots, calls>>
  BY DEF ReturnTerm, AtTerm
<1>2. at.pos = Len(blocks[at.block].stmts) + 1
  BY <1>1, AtTerminator DEF Stmts
<1>3. /\ Position /\ calls \in Nat
      /\ FieldsKept(slots, Known(cls, calls))
      /\ Agrees(slots, Facts[at.block][at.pos])
  BY <1>1, MIRExecutionAssumption DEF IInv
<1>4. ASSUME NEW f \in Known(cls, calls + 1) PROVE Val(slots, f) = "set"
  <2>1. f \in Known(cls, calls) \/ f \in Facts[at.block][at.pos].set
    BY <1>1, <1>2, <1>3, KnownGrows DEF Position, Facts, Term
  <2> QED
    BY <2>1, <1>3 DEF FieldsKept, Agrees
<1>5. FieldsKept(slots, Known(cls, calls + 1))
  BY <1>3, <1>4 DEF FieldsKept
<1> QED
  BY <1>1, <1>5 DEF IInv, Phases

-----------------------------------------------------------------------------
LEMMA InitIInv == Init /\ CodeCertified => IInv
<1> SUFFICES ASSUME Init, CodeCertified PROVE IInv
  OBVIOUS
<1>1. phase \in {"rejected", "internalError", "ready"}
  BY DEF Init, Compiled
<1>2. FieldsKept(slots, {}) /\ States(slots)
  BY DEF Init, FieldsKept, States, SlotStates
<1>3. Known(cls, calls + 1) = {}
  BY DEF Init, Known
<1> QED
  BY <1>1, <1>2, <1>3, MIRExecutionAssumption DEF IInv, Init, Phases, CodeCertified

LEMMA NextIInv == IInv /\ [Next]_vars => IInv'
<1> SUFFICES ASSUME IInv, [Next]_vars PROVE IInv'
  OBVIOUS
<1>1. ASSUME NEW m \in Callable(cls, calls + 1), Call(m) PROVE IInv'
  BY <1>1, CallInv
<1>2. CASE EvalStmt
  <2>1. phase = "running" /\ at.pos <= Len(Stmts) /\ Stmts[at.pos].k = "eval"
    BY <1>2 DEF EvalStmt, AtStmt
  <2>2. After(Stmts[at.pos], Facts[at.block][at.pos]) = Facts[at.block][at.pos]
    BY <2>1 DEF After
  <2>3. slots' = slots /\ Advance
    BY <1>2 DEF EvalStmt
  <2> QED
    BY <2>1, <2>2, <2>3, AdvanceInv DEF IInv
<1>3. CASE DeclStmt
  <2> DEFINE s == Stmts[at.pos]
             st == IF s.init = <<>> THEN "declared" ELSE "set"
  <2>1. phase = "running" /\ at.pos <= Len(Stmts) /\ s.k = "decl" /\ Advance
    BY <1>3 DEF DeclStmt, AtStmt
  <2>2. slots' = [u \in DOMAIN slots \cup {s.v} |-> IF u = s.v THEN st ELSE slots[u]]
    BY <1>3 DEF DeclStmt, SetSlot
  <2>3. Allowed(s, Facts[at.block][at.pos])
    BY <2>1, AtStatement
  <2>4. Agrees(slots', After(s, Facts[at.block][at.pos]))
    BY <2>1, <2>2, <2>3, DeclAgrees DEF IInv
  <2>5. s.v \notin Fields /\ st \in SlotStates
    BY <2>1, <2>3 DEF Allowed, SlotStates
  <2>6. s.v \notin Known(cls, calls)
    BY <2>5, KnownAreFields
  <2>7. FieldsKept(slots, Known(cls, calls)) /\ FieldsKept(slots, {}) /\ States(slots)
    BY <2>1 DEF IInv
  <2>8. /\ FieldsKept(slots', Known(cls, calls)) /\ States(slots')
        /\ FieldsKept(slots', {})
    <3> HIDE DEF s, st
    <3> QED
      BY <2>2, <2>5, <2>6, <2>7, SlotKept
  <2> QED
    BY <2>1, <2>4, <2>8, AdvanceInv
<1>4. CASE AssignStmt
  <2> DEFINE s == Stmts[at.pos]
  <2>1. phase = "running" /\ at.pos <= Len(Stmts) /\ s.k = "assign" /\ Advance
    BY <1>4 DEF AssignStmt, AtStmt
  <2>2. slots' = [u \in DOMAIN slots \cup {s.v} |-> IF u = s.v THEN "set" ELSE slots[u]]
    BY <1>4 DEF AssignStmt, SetSlot
  <2>3. Allowed(s, Facts[at.block][at.pos])
    BY <2>1, AtStatement
  <2>4. Agrees(slots', After(s, Facts[at.block][at.pos]))
    BY <2>1, <2>2, <2>3, AssignAgrees DEF IInv
  <2>5. FieldsKept(slots, Known(cls, calls)) /\ FieldsKept(slots, {}) /\ States(slots)
    BY <2>1 DEF IInv
  <2>6. /\ FieldsKept(slots', Known(cls, calls)) /\ States(slots')
        /\ FieldsKept(slots', {})
    <3>1. "set" \in SlotStates
      BY DEF SlotStates
    <3> HIDE DEF s
    <3> QED
      BY <2>2, <2>5, <3>1, SlotKept
  <2> QED
    BY <2>1, <2>4, <2>6, AdvanceInv
<1>5. CASE CleanupStmt
  <2> DEFINE s == Stmts[at.pos]
  <2>1. phase = "running" /\ at.pos <= Len(Stmts) /\ s.k = "cleanup" /\ Advance
    BY <1>5 DEF CleanupStmt, AtStmt
  <2>2. slots' = [u \in DOMAIN slots \cup Freed(s) |->
                    IF u \in Freed(s) THEN "destroyed" ELSE slots[u]]
    BY <1>5 DEF CleanupStmt
  <2>3. Agrees(slots', After(s, Facts[at.block][at.pos]))
    BY <2>1, <2>2, CleanupAgrees DEF IInv
  <2>4. FieldsKept(slots, Known(cls, calls)) /\ FieldsKept(slots, {}) /\ States(slots)
    BY <2>1 DEF IInv
  <2>5. /\ FieldsKept(slots', Known(cls, calls)) /\ States(slots')
        /\ FieldsKept(slots', {})
    BY <2>2, <2>4, CleanupKept, KnownAreFields
  <2> QED
    BY <2>1, <2>3, <2>5, AdvanceInv
<1>6. CASE GotoTerm
  <2>1. phase = "running" /\ at.pos > Len(Stmts) /\ Term.to \in Targets(Term) /\ Jump(Term.to)
    BY <1>6 DEF GotoTerm, AtTerm, Targets
  <2> QED
    BY <2>1, JumpInv
<1>7. CASE BranchTerm
  <2>1. PICK i \in DOMAIN Term.to : Jump(Term.to[i])
    BY <1>7 DEF BranchTerm
  <2>2. phase = "running" /\ at.pos > Len(Stmts) /\ Term.to[i] \in Targets(Term)
    BY <1>7 DEF BranchTerm, AtTerm, Targets, ToSet
  <2> QED
    BY <2>1, <2>2, JumpInv
<1>8. CASE ReturnTerm
  BY <1>8, ReturnInv
<1>9. CASE UNCHANGED vars
  BY <1>9 DEF vars, IInv, Position, Facts, Stmts
<1> QED
  BY <1>1, <1>2, <1>3, <1>4, <1>5, <1>6, <1>7, <1>8, <1>9 DEF Next, Step

LEMMA Invariance == Spec /\ CodeCertified => []IInv
<1> QED
  BY InitIInv, NextIInv, PTL DEF Spec

-----------------------------------------------------------------------------
LEMMA IInvTypeOK == IInv => TypeOK
<1> SUFFICES ASSUME IInv PROVE TypeOK
  OBVIOUS
<1>1. ASSUME phase = "running" PROVE at.block \in DOMAIN blocks
  <2>1. Position /\ Certified(cls) /\ calls \in Nat
    BY <1>1, MIRExecutionAssumption DEF IInv
  <2> QED
    BY <2>1, CallableCertified, CertifiedParts DEF Position, Facts
<1> QED
  BY <1>1 DEF IInv, TypeOK, Position, States

LEMMA IInvReads == IInv => ReadsInitialised
<1> SUFFICES ASSUME IInv, phase = "running", NEW v \in NextLoads PROVE Slot(v) = "set"
  BY DEF ReadsInitialised
<1>1. v \in Facts[at.block][at.pos].set
  <2>1. CASE at.pos <= Len(Stmts)
    BY <2>1, AtStatement DEF NextLoads, Allowed
  <2>2. CASE ~(at.pos <= Len(Stmts))
    <3>1. at.pos > Len(Stmts)
      <4>1. Position /\ Certified(cls) /\ calls \in Nat
        BY MIRExecutionAssumption DEF IInv
      <4>2. Len(Stmts) \in Nat
        BY <4>1, CallableCertified, CertifiedParts DEF Position, Facts, CertifiedBlock, Stmts
      <4> QED
        BY <4>1, <4>2, <2>2 DEF Position
    <3> QED
      BY <2>2, <3>1, AtTerminator DEF NextLoads
  <2> QED
    BY <2>1, <2>2
<1> QED
  BY <1>1 DEF IInv, Agrees, Val, Slot

LEMMA IInvOwned == IInv => OwnedCleanedOnce
<1> SUFFICES ASSUME IInv PROVE OwnedCleanedOnce
  OBVIOUS
<1>1. ASSUME phase = "running" PROVE \A v \in Owning : v \in Facts[at.block][at.pos].live <=> Live(v)
  BY <1>1 DEF IInv, Agrees, Val, Live, Slot
<1>2. ASSUME AtStmt("cleanup"), NEW v \in Freed(Stmts[at.pos]) PROVE Live(v)
  BY <1>1, <1>2, AtStatement DEF AtStmt, Allowed, Freed
<1>3. ASSUME AtStmt("decl"), Stmts[at.pos].v \in Owning PROVE ~Live(Stmts[at.pos].v)
  BY <1>1, <1>3, AtStatement DEF AtStmt, Allowed
<1>4. ASSUME AtStmt("assign"), Stmts[at.pos].v \in Owning PROVE Live(Stmts[at.pos].v)
  BY <1>1, <1>4, AtStatement DEF AtStmt, Allowed
<1>5. ASSUME AtTerm("return"), NEW v \in Owning PROVE ~Live(v)
  BY <1>1, <1>5, AtTerminator DEF AtTerm
<1> QED
  BY <1>2, <1>3, <1>4, <1>5 DEF OwnedCleanedOnce

\* Every state of every run of a certified class is well typed: the position
\* stays in a block that exists, wherever the terminators lead.
THEOREM TypeCorrect == Spec /\ CodeCertified => []TypeOK
BY Invariance, IInvTypeOK, PTL

\* No run of a certified class, however long, reads a place without a value,
\* in whatever order its methods are called.
THEOREM ReadsFindValues == Spec /\ CodeCertified => []ReadsInitialised
BY Invariance, IInvReads, PTL

\* No run of a certified class destroys an owner twice, overwrites a live one
\* by a declaration, or leaves one live when a method returns.
THEOREM OwnersCleanedOnce == Spec /\ CodeCertified => []OwnedCleanedOnce
BY Invariance, IInvOwned, PTL

=============================================================================
