---------------------------- MODULE MIRExecution ----------------------------
(***************************************************************************)
(* The execution of compiled classes, block by block, with the meaning     *)
(* code generation gives to statements and terminators                     *)
(* (src/src/IR/llvmIR/llvmCodegen.cpp, lowerStmt.cpp, assign.cpp).  An     *)
(* object is constructed and its methods are then called in any order, one *)
(* at a time.                                                              *)
(*                                                                         *)
(* Who verifies a class and who lowers its methods are constants;          *)
(* CompiledClass gives them the compiler's own verifier and builder.  What *)
(* this module says of blocks holds whoever built them: Certified is a     *)
(* condition on the blocks of a class, one statement at a time, under      *)
(* which no run of any length goes wrong (MIRExecutionProofs).             *)
(***************************************************************************)
EXTENDS HIR, Naturals, FiniteSets, SequencesExt

CONSTANTS
  Classes,       \* the classes to compile
  Owning,        \* the locals whose type needsDestroy: they own a buffer
  MaxPicks,      \* bound on the conditions one call evaluates
  MaxCalls,      \* bound on the functions called, constructors included
  Verified(_),   \* is a class accepted by the verifier?
  CodeOf(_),     \* the blocks of a method
  FactsOf(_, _)  \* what holds in the blocks of a method, see Certified

ASSUME MIRExecutionAssumption ==
  /\ Owning \cap Fields = {}
  /\ MaxPicks \in Nat
  /\ MaxCalls \in Nat

VARIABLES
  cls,           \* the class; it never changes
  phase,         \* what has become of it, see Phases
  method,        \* the method running, or the one that has returned
  blocks,        \* its blocks
  at,            \* the block and the position in it that is next
  slots,         \* what each place holds, see SlotStates
  trace,         \* history: what the call has done to named places
  calls          \* how many functions have been called

vars == <<cls, phase, method, blocks, at, slots, trace, calls>>

Phases == {"rejected", "internalError", "ready", "running"}

(* A slot nobody has declared holds garbage; a declared one an empty value *)
(* or, for types that own nothing, still garbage; then a value; and after  *)
(* its destruction an empty value again.                                   *)
SlotStates == {"undeclared", "declared", "set", "destroyed"}

Slot(v) == IF v \in DOMAIN slots THEN slots[v] ELSE "undeclared"
SetSlot(v, state) ==
  slots' = [u \in DOMAIN slots \cup {v} |-> IF u = v THEN state ELSE slots[u]]

Named == Fields \cup Params \cup Locals
Events(kind, vs) ==
  LET named == SelectSeq(vs, LAMBDA v : v \in Named)
  IN  [i \in DOMAIN named |-> <<kind, named[i]>>]
Picks == LET taken == SelectSeq(trace, LAMBDA e : e[1] = "pick")
         IN  [i \in DOMAIN taken |-> taken[i][2]]

-----------------------------------------------------------------------------
(* The functions of the class, and those that can be the n-th to be        *)
(* called: the default constructor, one constructor if there is any, then  *)
(* the methods, and onDestroy last.                                        *)
Functions(c) ==
  {DefaultInit(c)} \cup ToSet(c.inits) \cup ToSet(c.methods)
                   \cup ToSet(c.onDestroy)

Callable(c, n) ==
  CASE n = 1 -> {DefaultInit(c)}
    [] n = 2 /\ c.inits # <<>> -> ToSet(c.inits)
    [] OTHER -> ToSet(c.methods) \cup ToSet(c.onDestroy)

Over == calls > 1 /\ method \in ToSet(cls.onDestroy)

(* Code generation stops with an internal error at a block that has no     *)
(* terminator; then llvm::verifyModule refuses a function in which a return *)
(* has a value and the function no result, or the other way round.  Both   *)
(* look at every block, also at one that is never reached.                 *)
Terminated(code) == \A b \in ToSet(code) : b.term.k # "none"
Verifies(m, code) ==
  \A b \in ToSet(code) : b.term.k = "return" => (b.term.value = <<>> <=> m.void)
Generates(c) ==
  \A m \in Functions(c) :
    LET code == CodeOf(m) IN Terminated(code) /\ Verifies(m, code)

Compiled(c) ==
  IF ~Verified(c) THEN "rejected"
  ELSE IF Generates(c) THEN "ready" ELSE "internalError"

Init ==
  /\ cls \in Classes
  /\ phase = Compiled(cls)
  /\ method = DefaultInit(cls)
  /\ blocks = <<>>
  /\ at = [block |-> 1, pos |-> 1]
  /\ slots = [f \in Fields |-> "declared"]
  /\ trace = <<>>
  /\ calls = 0

(* mutant of Call: the position of the function before is kept *)
CallKeepsPosition(m) ==
  /\ phase = "ready"
  /\ calls < MaxCalls
  /\ phase' = "running"
  /\ method' = m
  /\ blocks' = CodeOf(m)
  /\ slots' = [v \in Fields \cup m.params |->
                 IF v \in Fields THEN slots[v] ELSE "set"]
  /\ trace' = <<>>
  /\ calls' = calls + 1
  /\ UNCHANGED <<cls, at>>

(* emitFuncBody: enter a function; its parameters have values *)
Call(m) ==
  /\ phase = "ready"
  /\ calls < MaxCalls
  /\ phase' = "running"
  /\ method' = m
  /\ blocks' = CodeOf(m)
  /\ at' = [block |-> 1, pos |-> 1]
  /\ slots' = [v \in Fields \cup m.params |->
                 IF v \in Fields THEN slots[v] ELSE "set"]
  /\ trace' = <<>>
  /\ calls' = calls + 1
  /\ UNCHANGED cls

Stmts == blocks[at.block].stmts
Term == blocks[at.block].term
Freed(s) == ToSet(s.vs) \cap Owning
AtStmt(kind) ==
  phase = "running" /\ at.pos <= Len(Stmts) /\ Stmts[at.pos].k = kind
AtTerm(kind) ==
  phase = "running" /\ at.pos > Len(Stmts) /\ Term.k = kind
Advance ==
  /\ at' = [block |-> at.block, pos |-> at.pos + 1]
  /\ UNCHANGED <<cls, phase, method, blocks, calls>>
Jump(id) ==
  /\ at' = [block |-> id, pos |-> 1]
  /\ UNCHANGED <<cls, phase, method, blocks, slots, calls>>

(* lowerExprStmt *)
EvalStmt ==
  /\ AtStmt("eval")
  /\ trace' = trace \o Events("read", Stmts[at.pos].loads)
  /\ Advance
  /\ UNCHANGED slots

(* lowerLocalDecl: an empty value, then the initialiser if there is one *)
DeclStmt ==
  LET s == Stmts[at.pos]
  IN  /\ AtStmt("decl")
      /\ SetSlot(s.v, IF s.init = <<>> THEN "declared" ELSE "set")
      /\ trace' = IF s.init = <<>> THEN trace
                  ELSE trace \o Events("read", s.init[1])
                             \o Events("write", <<s.v>>)
      /\ Advance

(* lowerAssign *)
AssignStmt ==
  LET s == Stmts[at.pos]
  IN  /\ AtStmt("assign")
      /\ SetSlot(s.v, "set")
      /\ trace' = trace \o Events("read", s.loads) \o Events("write", <<s.v>>)
      /\ Advance

(* lowerCleanup: the locals that own something are destroyed *)
CleanupStmt ==
  LET freed == Freed(Stmts[at.pos])
  IN  /\ AtStmt("cleanup")
      /\ slots' = [u \in DOMAIN slots \cup freed |->
                     IF u \in freed THEN "destroyed" ELSE slots[u]]
      /\ Advance
      /\ UNCHANGED trace

GotoTerm ==
  /\ AtTerm("goto")
  /\ Jump(Term.to)
  /\ UNCHANGED trace

(* BranchTerminator and SwitchTerminator: the condition goes any way *)
BranchTerm ==
  /\ AtTerm("branch")
  /\ Len(Picks) < MaxPicks
  /\ \E i \in DOMAIN Term.to :
       /\ trace' = Append(trace \o Events("read", Term.loads), <<"pick", i>>)
       /\ Jump(Term.to[i])

(* ReturnTerminator: the value is computed here, after the cleanups *)
ReturnTerm ==
  /\ AtTerm("return")
  /\ phase' = "ready"
  /\ trace' = IF Term.value = <<>> THEN trace
              ELSE trace \o Events("read", Term.value[1])
  /\ UNCHANGED <<cls, method, blocks, at, slots, calls>>

Step == \/ EvalStmt
        \/ DeclStmt
        \/ AssignStmt
        \/ CleanupStmt
        \/ GotoTerm
        \/ BranchTerm
        \/ ReturnTerm

Next == \/ ~Over /\ \E m \in Callable(cls, calls + 1) : Call(m)
        \/ Step

Spec == Init /\ [][Next]_vars

-----------------------------------------------------------------------------
(* Every variable keeps its type. *)
TypeOK ==
  /\ phase \in Phases
  /\ phase = "running" =>
       at.block \in DOMAIN blocks /\ at.pos \in 1..(Len(Stmts) + 1)
  /\ \A v \in DOMAIN slots : slots[v] \in SlotStates
  /\ calls \in 0..MaxCalls

(* the places a statement reads, and a terminator *)
StmtLoads(s) ==
  CASE s.k \in {"eval", "assign"} -> ToSet(s.loads)
    [] s.k = "decl" -> UNION {ToSet(e) : e \in ToSet(s.init)}
    [] OTHER -> {}
TermLoads(t) ==
  CASE t.k = "branch" -> ToSet(t.loads)
    [] t.k = "return" -> UNION {ToSet(e) : e \in ToSet(t.value)}
    [] OTHER -> {}
NextLoads ==
  IF at.pos <= Len(Stmts) THEN StmtLoads(Stmts[at.pos]) ELSE TermLoads(Term)

(* In a class the verifier accepts, no call reads a place that has not     *)
(* been given a value, or one that has been destroyed (HIRVerifier.cpp,    *)
(* "use of uninitialized variable").                                       *)
ReadsInitialised == phase = "running" => \A v \in NextLoads : Slot(v) = "set"

(* A local that owns a buffer is destroyed exactly once on every path out  *)
(* of its scope: it is destroyed only between its declaration and its      *)
(* destruction, not declared again or written to otherwise, and no live    *)
(* one is left when the method returns (MIRScope.cpp and every caller of   *)
(* emitCleanup).                                                           *)
Live(v) == Slot(v) \in {"declared", "set"}
OwnedCleanedOnce ==
  /\ AtStmt("cleanup") => \A v \in Freed(Stmts[at.pos]) : Live(v)
  /\ AtStmt("decl") /\ Stmts[at.pos].v \in Owning => ~Live(Stmts[at.pos].v)
  /\ AtStmt("assign") /\ Stmts[at.pos].v \in Owning => Live(Stmts[at.pos].v)
  /\ AtTerm("return") => \A v \in Owning : ~Live(v)

(* A class the verifier accepts is generated: no block is left without a   *)
(* terminator (llvmCodegen.cpp, "MIR block has no terminator"), and no     *)
(* block of a method with a result returns none (main.cpp, "invalid llvm   *)
(* module").                                                               *)
AcceptedIsGenerated == phase # "internalError"

-----------------------------------------------------------------------------
(* What holds before each statement and the terminator of the blocks that  *)
(* can be reached, in the manner of the stack maps of a bytecode verifier: *)
(* facts[b][i].set are places that have a value, facts[b][i].live exactly  *)
(* the owning locals that are declared and not destroyed.  known are the   *)
(* fields that have a value when the method is called.                     *)
Place == STRING
Statement ==
       [k : {"eval"}, loads : Seq(Place)]
  \cup [k : {"decl"}, v : Place, init : Seq(Seq(Place))]
  \cup [k : {"assign"}, v : Place, loads : Seq(Place)]
  \cup [k : {"cleanup"}, vs : Seq(Place)]

(* what a statement asks of the facts before it, and what holds after it *)
Allowed(s, fact) ==
  /\ StmtLoads(s) \subseteq fact.set
  /\ s.k = "decl" => s.v \notin Fields /\ s.v \notin fact.live
  /\ s.k = "assign" => (s.v \in Owning => s.v \in fact.live)
  /\ s.k = "cleanup" => Freed(s) \subseteq fact.live

After(s, fact) ==
  CASE s.k = "decl" ->
         [set |-> IF s.init = <<>> THEN fact.set \ {s.v} ELSE fact.set \cup {s.v},
          live |-> fact.live \cup (Owning \cap {s.v})]
    [] s.k = "assign" -> [set |-> fact.set \cup {s.v}, live |-> fact.live]
    [] s.k = "cleanup" ->
         [set |-> fact.set \ Freed(s), live |-> fact.live \ Freed(s)]
    [] OTHER -> fact

Leads(fact, next) == next.set \subseteq fact.set /\ next.live = fact.live

Targets(t) ==
  CASE t.k = "goto" -> {t.to}
    [] t.k = "branch" -> ToSet(t.to)
    [] OTHER -> {}

CertifiedBlock(code, facts, b) ==
  LET stmts == code[b].stmts
      term == code[b].term
      last == facts[b][Len(stmts) + 1]
  IN  /\ stmts \in Seq(Statement)
      /\ \A i \in DOMAIN stmts :
           /\ Allowed(stmts[i], facts[b][i])
           /\ Leads(After(stmts[i], facts[b][i]), facts[b][i + 1])
      /\ TermLoads(term) \subseteq last.set
      /\ \A t \in Targets(term) : t \in DOMAIN facts /\ Leads(last, facts[t][1])
      /\ term.k = "return" => last.live = {}

(* \A x \in {e} names the value e, as LET does, and has TLC compute it once *)
CertifiedMethod(m, known) ==
  \A code \in {CodeOf(m)}, facts \in {FactsOf(m, known)} :
    /\ 1 \in DOMAIN facts
    /\ DOMAIN facts \subseteq DOMAIN code
    /\ facts[1][1].set \subseteq known \cup (m.params \ Fields)
    /\ facts[1][1].live = Owning \cap m.params
    /\ \A b \in DOMAIN facts : CertifiedBlock(code, facts, b)

(* the fields that have a value wherever a method returns, after the       *)
(* default constructor, after any constructor, and when the n-th function  *)
(* is called                                                               *)
Kept(m, known) ==
  {f \in Fields :
     \A code \in {CodeOf(m)}, facts \in {FactsOf(m, known)} :
       \A b \in DOMAIN facts :
         code[b].term.k = "return" => f \in facts[b][Len(code[b].stmts) + 1].set}

Preset(c) == Kept(DefaultInit(c), {})
Made(c) ==
  {f \in Fields :
     \A preset \in {Preset(c)}, m \in ToSet(c.inits) : f \in Kept(m, preset)}
Known(c, n) ==
  IF n = 1 THEN {}
  ELSE IF n = 2 \/ c.inits = <<>> THEN Preset(c) ELSE Made(c)

Certified(c) ==
  \A n \in 1..3 : \A known \in {Known(c, n)}, m \in Callable(c, n) :
    CertifiedMethod(m, known)

(* The blocks of every class that is accepted and generated are certified: *)
(* whatever way its conditions go and however often its methods are        *)
(* called, a read finds a value and an owner is destroyed once             *)
(* (HIRVerifier.cpp, and emitCleanup in MIRScope.cpp).                     *)
CodeCertified == phase = "ready" /\ calls = 0 => Certified(cls)

=============================================================================
