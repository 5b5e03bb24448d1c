-------------------------------- MODULE HIR --------------------------------
(***************************************************************************)
(* The part of the HIR of HwarangDo that decides control flow, lifetimes   *)
(* and initialisation: statements and expressions as records, one          *)
(* constructor per node class (src/include/hrd/IR/HIR/HIRStmt.h,           *)
(* HIRExpr.h).                                                             *)
(*                                                                         *)
(* A place is a name.  A literal has no value: which way a condition goes  *)
(* is left open, so that a method stands for all the runs it can have.     *)
(* Operators, casts and calls are left out: they evaluate their operands   *)
(* in order, and what is said of a load holds of each operand.             *)
(***************************************************************************)
EXTENDS Sequences

CONSTANTS
  Fields,        \* the fields of the class
  Params,        \* names of parameters
  Locals         \* names of local variables

(* expressions *)
Lit == [k |-> "lit"]
Load(v) == [k |-> "load", v |-> v]
Ternary(c, a, b) == [k |-> "ternary", c |-> c, a |-> a, b |-> b]
Match(c, cases) == [k |-> "match", c |-> c, cases |-> cases]

(* statements; a block is a sequence of them, els is <<>> or <<block>>; a  *)
(* default case is the `default` of a switch or the `_` of a match, either *)
(* of which the resolver allows at the end only                            *)
Block(body) == [k |-> "block", body |-> body]
ExprStmt(e) == [k |-> "expr", e |-> e]
LocalDecl(v) == [k |-> "decl", v |-> v, init |-> <<>>]
LocalInit(v, e) == [k |-> "decl", v |-> v, init |-> <<e>>]
AssignTo(v, e) == [k |-> "assign", v |-> v, e |-> e]
CompoundAssign(v, e) == [k |-> "compound", v |-> v, e |-> e]
If(c, then, els) == [k |-> "if", c |-> c, then |-> then, els |-> els]
While(c, body) == [k |-> "while", c |-> c, body |-> body]
ForRange(v, start, end, step, body) ==
  [k |-> "for", v |-> v, start |-> start, end |-> end, step |-> step,
   body |-> body]
Switch(c, cases) == [k |-> "switch", c |-> c, cases |-> cases]
Case(body) == [default |-> FALSE, body |-> body]
Default(body) == [default |-> TRUE, body |-> body]
ReturnVoid == [k |-> "return", value |-> <<>>]
ReturnValue(e) == [k |-> "return", value |-> <<e>>]
Break == [k |-> "break"]
Continue == [k |-> "continue"]
ValueTransfer(e) == [k |-> "transfer", e |-> e]

(* a method, and a class without a base: fields with an initialiser, the   *)
(* constructors, the methods in the order methodMap yields them, and       *)
(* onDestroy, which is <<>> or <<method>>                                  *)
Method(params, void, body) == [params |-> params, void |-> void, body |-> body]
Class(preset, inits, methods, onDestroy) ==
  [preset |-> preset, inits |-> inits, methods |-> methods,
   onDestroy |-> onDestroy]

(* HIRBuilder::setDefaultInit: the block that runs the initialisers *)
DefaultInit(cls) ==
  Method({}, TRUE, [i \in DOMAIN cls.preset |-> AssignTo(cls.preset[i], Lit)])

=============================================================================
