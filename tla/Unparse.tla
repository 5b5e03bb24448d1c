------------------------------- MODULE Unparse -------------------------------
(***************************************************************************)
(* The text of a syntax tree, written from the language's rules and not    *)
(* from the parser: an operand is put in parentheses when its operator     *)
(* binds more loosely than its place asks, and blanks stand only between   *)
(* words.  Parsing the text has to give the tree back.                     *)
(***************************************************************************)
EXTENDS AST

Precedence ==
  ("||" :> 2) @@ ("&&" :> 3) @@ ("|" :> 4) @@ ("^" :> 5) @@ ("&" :> 6)
    @@ [o \in {"==", "!="} |-> 7] @@ [o \in {"<", "<=", ">", ">="} |-> 8]
    @@ [o \in {"<<", ">>"} |-> 9] @@ [o \in {"+", "-"} |-> 10] @@ [o \in {"*", "/", "%"} |-> 11]
    @@ ("**" :> 12)

Primary == 14
Binds(e) ==
  CASE e.kind = "AssignExpr"  -> 0
    [] e.kind = "TernaryExpr" -> 1
    [] e.kind = "BinaryExpr"  -> Precedence[e.op]
    [] e.kind \in {"UnaryExpr", "CastExpr"} -> 13
    [] OTHER -> Primary

\* Comparisons do not associate, and ** associates to the right.
LeftPlace(op)  == IF Precedence[op] \in {7, 8, 12} THEN Precedence[op] + 1 ELSE Precedence[op]
RightPlace(op) == IF op = "**" THEN 12 ELSE Precedence[op] + 1

Braces(tokens) == <<"{">> \o tokens \o <<"}">>

RECURSIVE Expr(_, _), Written(_), Scalar(_), Dimensions(_)
All(nodes)    == FlattenSeq([i \in DOMAIN nodes |-> Written(nodes[i])])
Listed(nodes) == FlattenSeq([i \in DOMAIN nodes |-> (IF i = 1 THEN <<>> ELSE <<",">>) \o Written(nodes[i])])

Expr(e, place) == IF Binds(e) < place THEN <<"(">> \o Written(e) \o <<")">> ELSE Written(e)

Scalar(type) == IF type.kind = "ArrayType" THEN Scalar(type.element) ELSE type
Dimensions(type) ==
  IF type.kind # "ArrayType" THEN <<>>
  ELSE <<"[">> \o Written(type.size) \o <<"]">> \o Dimensions(type.element)

\* A part that may be missing, with what is written before it.
Maybe(n, part, before) == IF part \in DOMAIN n THEN before \o Written(n[part]) ELSE <<>>
Prefix(n) == (IF n.modi = "public" THEN <<>> ELSE <<n.modi>>) \o SetToSeq(n.mods)
Traits(n) ==
  IF n.traits = <<>> THEN <<>> ELSE <<":">> \o n.traits

Written(n) ==
  CASE n.kind = "LiteralExpr" -> <<n.value>>
    [] n.kind \in {"NameExpr", "ThisExpr", "SelfExpr", "SuperExpr", "RootExpr", "BuiltInNameExpr",
                   "DefaultValueExpr"} -> <<n.name>>
    [] n.kind = "UnaryExpr"   -> <<n.op>> \o Expr(n.operand, Primary)
    [] n.kind = "BinaryExpr"  -> Expr(n.left, LeftPlace(n.op)) \o <<n.op>> \o Expr(n.right, RightPlace(n.op))
    [] n.kind = "AssignExpr"  -> Expr(n.target, Primary) \o <<n.op>> \o Expr(n.value, 1)
    [] n.kind = "TernaryExpr" -> Expr(n.condition, 2) \o <<"?">> \o Written(n.thenExpr) \o <<":">>
                                   \o Written(n.elseExpr)
    [] n.kind = "MemberExpr"  -> Expr(n.object, Primary) \o <<".", n.member>>
    [] n.kind = "ArrayAccessExpr" -> Expr(n.object, Primary) \o <<"[">> \o Written(n.index) \o <<"]">>
    [] n.kind = "CallExpr"    -> (IF "object" \in DOMAIN n THEN Expr(n.object, Primary) \o <<".">> ELSE <<>>)
                                   \o <<n.callee, "(">> \o Listed(n.args) \o <<")">>
    [] n.kind = "CastExpr"    -> Expr(n.expr, Primary) \o <<"as">> \o Written(n.type)
    [] n.kind = "SpawnExpr"   -> Written(n.storage) \o <<".", "spawn">> \o Written(n.type)
                                   \o <<"(">> \o Listed(n.args) \o <<")">>
    [] n.kind = "ViewExpr"    -> Written(n.storage) \o <<".", "view", "(">> \o Written(n.target) \o <<")">>
    [] n.kind = "DestroyExpr" -> Written(n.storage) \o <<".", "destroy", "(">> \o Written(n.target) \o <<")">>
    [] n.kind = "QuitExpr"    -> Written(n.storage) \o <<".", "quit", "(", ")">>
    [] n.kind = "MatchExpr"   -> <<"match", "(">> \o Written(n.value) \o <<")">> \o Braces(All(n.cases))
    [] n.kind = "Range"       -> Expr(n.start, 1) \o <<"..">> \o Expr(n.end, 1) \o Maybe(n, "step", <<"by">>)
    [] n.kind = "CaseValueExpr" -> Written(n.value)
    [] n.kind = "Case"        -> <<"case">> \o Listed(n.values) \o <<"=>">> \o Written(n.body)
    [] n.kind = "Default"     -> <<"default", "=>">> \o Written(n.body)
    [] n.kind = "ExprStmt"    -> Written(n.expr) \o <<";">>
    [] n.kind = "BlockStmt"   -> Braces(All(n.statements))
    [] n.kind = "IfStmt"      -> <<"if", "(">> \o Written(n.condition) \o <<")">> \o Written(n.thenBranch)
                                   \o Maybe(n, "elseBranch", <<"else">>)
    [] n.kind = "WhileStmt"   -> <<"while", "(">> \o Written(n.condition) \o <<")">> \o Written(n.body)
    [] n.kind = "ForStmt"     -> <<"for", "(">> \o Written(n.initializer) \o Written(n.range) \o <<")">>
                                   \o Written(n.body)
    [] n.kind = "SwitchStmt"  -> <<"switch", "(">> \o Written(n.value) \o <<")">> \o Braces(All(n.cases))
    [] n.kind = "ReturnStmt"  -> <<"return">> \o Maybe(n, "value", <<>>) \o <<";">>
    [] n.kind = "ValueTransferStmt" -> <<"<<">> \o Written(n.value) \o <<";">>
    [] n.kind = "BreakStmt"   -> <<"break">>
    [] n.kind = "ContinueStmt" -> <<"continue">>
    [] n.kind = "EmptyStmt"   -> <<";">>
    [] n.kind = "DeclStmt"    -> Written(n.decl)
    [] n.kind = "VarDecl"     -> Prefix(n) \o Written(n.type) \o <<n.name>> \o Maybe(n, "init", <<"=">>) \o <<";">>
    [] n.kind = "Param"       -> Written(n.type) \o <<n.name>> \o Maybe(n, "init", <<"=">>)
    [] n.kind = "FuncDecl"    -> Prefix(n) \o (IF "returnType" \in DOMAIN n THEN Written(n.returnType) ELSE <<"func">>)
                                   \o <<n.name, "(">> \o Listed(n.params) \o <<")">> \o Written(n.body)
    [] n.kind = "InitDecl"    -> Prefix(n) \o <<"init", "(">> \o Listed(n.params) \o <<")">> \o Written(n.body)
    [] n.kind = "OnDestroyDecl" -> <<"onDestroy", "(", ")">> \o Written(n.body)
    [] n.kind = "ClassDecl"   -> <<"class", n.name>>
                                   \o (IF "baseClass" \in DOMAIN n THEN <<"extends", n.baseClass>> ELSE <<>>)
                                   \o Traits(n) \o Braces(All(n.fields) \o All(n.methods) \o All(n.innerDecl))
    [] n.kind = "StructDecl"  -> <<"struct", n.name>> \o Braces(All(n.fields) \o All(n.inits))
    [] n.kind = "EnumDecl"    -> <<"enum", n.name>> \o Braces(Listed(n.variants))
    [] n.kind = "Variant"     -> <<n.name>>
                                   \o (IF "payload" \in DOMAIN n THEN <<"(">> \o Written(n.payload) \o <<")">> ELSE <<>>)
    [] n.kind = "ImplDecl"    -> <<"impl", n.target>> \o Traits(n) \o Braces(All(n.methods))
    [] n.kind = "TraitDecl"   -> <<"trait", n.name>> \o Braces(All(n.traitSigs))
    [] n.kind = "TraitSig"    -> Written(n.type) \o <<n.name, "(">> \o Listed(n.params) \o <<")", ";">>
    [] n.kind = "BuiltinType" -> <<n.name>> \o (IF n.sized THEN <<":", n.width>> ELSE <<>>)
    [] n.kind = "IdentifierType" -> <<n.name>>
    [] n.kind = "GenericType" -> <<"Handle", "<">> \o Written(n.inner) \o <<">">>
    [] n.kind = "ArrayType"   -> Written(Scalar(n)) \o Dimensions(n)

-----------------------------------------------------------------------------
\* The characters of the tokens that have several, and blanks between words.
Characters ==
  ("||" :> <<"|", "|">>) @@ ("&&" :> <<"&", "&">>) @@ ("==" :> <<"=", "=">>) @@ ("!=" :> <<"!", "=">>)
    @@ ("<=" :> <<"<", "=">>) @@ (">=" :> <<">", "=">>) @@ ("<<" :> <<"<", "<">>) @@ (">>" :> <<">", ">">>)
    @@ ("**" :> <<"*", "*">>) @@ ("=>" :> <<"=", ">">>) @@ (".." :> <<".", ".">>) @@ ("+=" :> <<"+", "=">>)
    @@ ("**=" :> <<"*", "*", "=">>) @@ (">>=" :> <<">", ">", "=">>)

Marks == {"(", ")", "{", "}", "[", "]", ";", ":", ",", "?", ".", "+", "-", "*", "/", "%", "=", "!",
          "<", ">", "&", "|", "^"}
IsWord(token) == token \notin Marks \cup DOMAIN Characters

Spell(token) == IF token \in DOMAIN Characters THEN Characters[token] ELSE <<token>>

TextOf(decls) ==
  LET words == All(decls)
      blank(i) == IF i > 1 /\ IsWord(words[i]) /\ IsWord(words[i - 1]) THEN <<" ">> ELSE <<>>
  IN FlattenSeq([i \in DOMAIN words |-> blank(i) \o Spell(words[i])])
=============================================================================
