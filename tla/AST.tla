--------------------------------- MODULE AST ---------------------------------
(***************************************************************************)
(* The classes of the syntax tree (include/hrd/AST).  A node is a record   *)
(* of its kind, its parts, which are nodes or sequences of nodes, and its  *)
(* data: names, operators, modifiers.  What the later passes write into    *)
(* the nodes is in their tables instead.                                   *)
(***************************************************************************)
EXTENDS Naturals, Sequences, FiniteSets, SequencesExt, TLC

Class(parts, optional, data) == [parts |-> parts, optional |-> optional, data |-> data]

Operations ==
  [LiteralExpr |-> Class({}, {}, {"type", "value"}),
   NameExpr    |-> Class({}, {}, {"name"}),
   UnaryExpr   |-> Class({"operand"}, {}, {"op"}),
   BinaryExpr  |-> Class({"left", "right"}, {}, {"op"}),
   AssignExpr  |-> Class({"target", "value"}, {}, {"op"})]

Accesses ==
  [MemberExpr      |-> Class({"object"}, {}, {"member"}),
   ArrayAccessExpr |-> Class({"object", "index"}, {}, {}),
   CallExpr        |-> Class({"args"}, {"object"}, {"callee"}),
   TernaryExpr     |-> Class({"condition", "thenExpr", "elseExpr"}, {}, {})]

Receivers ==
  [ThisExpr |-> Class({}, {}, {"name"}), SuperExpr |-> Class({}, {}, {"name"}),
   SelfExpr |-> Class({}, {}, {"name"}), RootExpr |-> Class({}, {}, {"name"}),
   MatchExpr |-> Class({"value", "cases"}, {}, {})]

Builtins ==
  [Range            |-> Class({"start", "end"}, {"step"}, {}),
   CastExpr         |-> Class({"expr", "type"}, {}, {}),
   BuiltInNameExpr  |-> Class({}, {}, {"name"}),
   SpawnExpr        |-> Class({"storage", "type", "args"}, {}, {}),
   ViewExpr         |-> Class({"storage", "target"}, {}, {}),
   DestroyExpr      |-> Class({"storage", "target"}, {}, {}),
   QuitExpr         |-> Class({"storage"}, {}, {}),
   DefaultValueExpr |-> Class({}, {}, {"name"}),
   CaseValueExpr    |-> Class({"value"}, {}, {})]

Statements ==
  [ExprStmt          |-> Class({"expr"}, {}, {}),
   BlockStmt         |-> Class({"statements"}, {}, {}),
   IfStmt            |-> Class({"condition", "thenBranch"}, {"elseBranch"}, {}),
   WhileStmt         |-> Class({"condition", "body"}, {}, {}),
   ForStmt           |-> Class({"initializer", "range", "body"}, {}, {}),
   ReturnStmt        |-> Class({}, {"value"}, {}),
   ValueTransferStmt |-> Class({"value"}, {}, {}),
   BreakStmt         |-> Class({}, {}, {}), ContinueStmt |-> Class({}, {}, {})]

\* A default clause is a Case without values.
Clauses ==
  [Case        |-> Class({"values", "body"}, {}, {}), Default |-> Class({"body"}, {}, {}),
   SwitchStmt  |-> Class({"value", "cases"}, {}, {}),
   CatchClause |-> Class({"body"}, {}, {"type", "name"}),
   TryStmt     |-> Class({"body", "catches"}, {}, {}),
   EmptyStmt   |-> Class({}, {}, {}), DeclStmt |-> Class({"decl"}, {}, {}),
   ThrowStmt   |-> Class({"value"}, {}, {})]

Modified == {"modi", "mods"}

Members ==
  [VarDecl  |-> Class({"type"}, {"init"}, Modified \cup {"name", "context"}),
   Param    |-> Class({"type"}, {"init"}, {"name"}),
   FuncDecl |-> Class({"params", "body"}, {"returnType"}, Modified \cup {"name"})]

Types ==
  [StructDecl |-> Class({"fields", "inits"}, {}, Modified \cup {"name"}),
   ClassDecl  |-> Class({"fields", "methods", "innerDecl"}, {}, Modified \cup {"name", "baseClass", "traits"}),
   EnumDecl   |-> Class({"variants"}, {}, Modified \cup {"name"}),
   Variant    |-> Class({}, {"payload"}, {"name"}),
   ImplDecl   |-> Class({"methods"}, {}, Modified \cup {"target", "traits"}),
   TraitDecl  |-> Class({"traitSigs"}, {}, Modified \cup {"name"}),
   TraitSig   |-> Class({"type", "params"}, {}, {"name"}),
   InitDecl   |-> Class({"params", "body"}, {}, Modified),
   OnDestroyDecl |-> Class({"body"}, {}, Modified)]

TypeNodes ==
  [BuiltinType    |-> Class({}, {}, {"name", "width", "sized"}),
   IdentifierType |-> Class({}, {}, {"name"}),
   ArrayType      |-> Class({"element", "size"}, {}, {}),
   GenericType    |-> Class({"inner"}, {}, {})]

Classes == Operations @@ Accesses @@ Receivers @@ Builtins @@ Statements @@ Clauses
             @@ Members @@ Types @@ TypeNodes

\* Data that may be missing: the base of a class, the name of what is caught.
OptionalData == {"baseClass", "name"}

Sequences == {"args", "cases", "values", "statements", "catches", "fields", "methods", "inits",
              "innerDecl", "params", "variants", "traitSigs"}

\* The parts of a node, as steps from it.
Steps(n) ==
  UNION {IF part \in Sequences THEN {<<part, i>> : i \in DOMAIN n[part]} ELSE {<<part>>} :
           part \in (Classes[n.kind].parts \cup Classes[n.kind].optional) \cap DOMAIN n}

Descend(n, path) == FoldLeft(LAMBDA m, step : m[step], n, path)

\* The paths of the nodes of a tree whose root is at p.
RECURSIVE Paths(_, _)
Paths(n, p) == {p} \cup UNION {Paths(Descend(n, s), p \o s) : s \in Steps(n)}

\* A tree of which every node has what the class of its kind has.
RECURSIVE IsTree(_)
IsTree(n) ==
  /\ n.kind \in DOMAIN Classes
  /\ LET class == Classes[n.kind]
     IN /\ class.parts \cup (class.data \ OptionalData) \subseteq DOMAIN n
        /\ DOMAIN n \subseteq {"kind"} \cup class.parts \cup class.optional \cup class.data
  /\ \A s \in Steps(n) : IsTree(Descend(n, s))
=============================================================================
