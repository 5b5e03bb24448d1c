------------------------------- MODULE Parser -------------------------------
(***************************************************************************)
(* Parser.cpp and parserUtil, parserExpr, parserStmt, parserDecl.cpp: the  *)
(* tokens to a tree, by recursive descent.  A rule that reads its parts in *)
(* a fixed order is a sequence of items, which Items follows; the others   *)
(* are operators.  A node is a record: its kind, and a field for each part *)
(* that is there.                                                          *)
(***************************************************************************)
EXTENDS Lexer, TLC

VARIABLES current,  \* the next token
          decls,    \* the declarations parsed so far
          parsed    \* "no", "yes" or "refused"

parser == <<current, decls, parsed>>

Kind(i) == IF i \in 1..Len(tokens) THEN tokens[i].kind ELSE "none"
IsAtEnd(i) == Kind(i) \in {"none", "END"}

Ok(node, i) == [ok |-> TRUE, node |-> node, at |-> i]
Fail == [ok |-> FALSE]
Then(r, Next(_, _)) == IF r.ok THEN Next(r.node, r.at) ELSE Fail
Node(kind) == [kind |-> kind]

\* The items of a rule.
Tok(kind)              == [is |-> "tok", kind |-> kind]
Name(field)            == [is |-> "name", field |-> field]
AnyText(field)         == [is |-> "any", field |-> field]
Sub(field, rule)       == [is |-> "sub", field |-> field, rule |-> rule]
Opt(kind, items)       == [is |-> "opt", kind |-> kind, items |-> items]
Unless(kind, items)    == [is |-> "unless", kind |-> kind, items |-> items]
Until(kind, field, rule) == [is |-> "until", kind |-> kind, field |-> field, rule |-> rule]
While(kind, field, rule) == [is |-> "while", kind |-> kind, field |-> field, rule |-> rule]
Comma(notBefore)       == [is |-> "comma", kind |-> notBefore]

-----------------------------------------------------------------------------
(* Declarations *)

IsAccessModifier(k) == k \in {"public", "private", "protected"}
IsTypeToken(k) == k \in {"int", "float", "char", "string", "fixed", "bool", "IDENTIFIER"}

\* isFunc takes a width or dimensions after the type for a variable's.
IsFunc(i) ==
  /\ IsTypeToken(Kind(i)) \/ Kind(i) \in {"void", "func"}
  /\ Kind(i + 1) = "IDENTIFIER" /\ Kind(i + 2) = "("

Params == <<Tok("("), Until(")", "params", "Param"), Tok(")")>>
Body   == <<Tok("{"), Sub("body", "Block")>>
Traits == Opt(":", <<Until("{", "traits", "Trait")>>)

classDecl == <<Tok("class"), Name("name"), Opt("extends", <<AnyText("baseClass")>>), Traits,
               Tok("{"), Until("}", "members", "ClassMember"), Tok("}")>>
structDecl == <<Tok("struct"), Name("name"),
                Tok("{"), Until("}", "members", "StructMember"), Tok("}")>>
implDecl == <<Tok("impl"), Name("target"), Traits,
              Tok("{"), Until("}", "methods", "ImplMember"), Tok("}")>>
traitDecl == <<Tok("trait"), Name("name"),
               Tok("{"), Until("}", "traitSigs", "TraitSig"), Tok("}")>>
\* A comma with nothing after it is a comma before "}": ")" is not looked for.
traitSig == <<Sub("type", "ReturnType"), Name("name"),
              Tok("("), Until(")", "params", "TraitParam"), Tok(")"), Tok(";")>>
enumDecl == <<Tok("enum"), Name("name"),
              Tok("{"), Until("}", "variants", "Variant"), Tok("}")>>
variant == <<Name("name"), Opt("(", <<Sub("payload", "BareType"), Tok(")")>>), Comma("none")>>
varDecl == <<Sub("type", "Type"), Name("name"), Opt("=", <<Sub("init", "Expr")>>), Tok(";")>>
handleDecl == <<Sub("type", "HandleType"), Name("name"), Opt("=", <<Sub("init", "Expr")>>), Tok(";")>>
handleType == <<Tok("Handle"), Tok("<"), Sub("inner", "DeclaredType"), Tok(">")>>
functionDecl(dynamic) ==
  <<IF dynamic THEN Tok("func") ELSE Sub("returnType", "Type"), Name("name")>> \o Params \o Body
initDecl == <<Tok("init")>> \o Params \o Body
onDestroyDecl == <<Tok("onDestroy"), Tok("("), Tok(")")>> \o Body
param(type, notBefore) == <<Sub("type", type), Name("name"),
                            Opt("=", <<Sub("init", "Expr")>>), Comma(notBefore)>>

-----------------------------------------------------------------------------
(* Statements *)

expressionStmt    == <<Sub("expr", "Expr"), Tok(";")>>
declStmt          == <<Sub("decl", "BlockDecl")>>
ifStmt            == <<Tok("if"), Tok("("), Sub("condition", "Expr"), Tok(")"),
                       Sub("thenBranch", "Body"), Opt("else", <<Sub("elseBranch", "Body")>>)>>
blockStmt         == <<Until("}", "statements", "Statement"), Tok("}")>>
range             == <<Sub("start", "Expr"), Tok(".."), Sub("end", "Expr"),
                       Opt("by", <<Sub("step", "Expr")>>)>>
forStmt           == <<Tok("for"), Tok("("), Sub("initializer", "LoopVariable"),
                       Sub("range", "Range"), Tok(")"), Sub("body", "Body")>>
whileStmt         == <<Tok("while"), Tok("("), Sub("condition", "Expr"), Tok(")"),
                       Sub("body", "Body")>>
switchStmt        == <<Tok("switch"), Tok("("), Sub("value", "Expr"), Tok(")"),
                       Tok("{"), Until("}", "cases", "SwitchCase"), Tok("}")>>
caseStmt          == <<Tok("case"), Until("=>", "values", "CaseValue"), Tok("=>"),
                       Tok("{"), Sub("body", "Block")>>
defaultCase       == <<Tok("default"), Tok("=>"), Tok("{"), Sub("body", "Block")>>
returnStmt        == <<Tok("return"), Unless(";", <<Sub("value", "Expr")>>), Tok(";")>>
valueTransferStmt == <<Tok("<<"), Sub("value", "Expr"), Tok(";")>>
tryStmt           == <<Tok("try"), Sub("body", "Body"), While("catch", "catches", "Catch")>>
catchStmt         == <<Tok("catch"), Tok("{"), Name("type"), Unless("}", <<Name("name")>>), Tok("}"),
                       Sub("body", "Body")>>
throwStmt         == <<Tok("throw"), Sub("value", "Expr")>>

DeclStarts == {"int", "float", "string", "char", "fixed", "bool", "public", "protected", "private",
               "impl", "trait", "const", "Handle", "frame", "init"}

-----------------------------------------------------------------------------
(* Expressions: the binary operators, the loosest level first. *)

\* Mutant: as in C, comparisons bind more loosely than the operators on bits.
LevelOfC == <<[ops |-> {"||"}, repeats |-> TRUE], [ops |-> {"&&"}, repeats |-> TRUE],
              [ops |-> {"=="}, repeats |-> FALSE], [ops |-> {"<"}, repeats |-> FALSE],
              [ops |-> {"|"}, repeats |-> TRUE], [ops |-> {"^"}, repeats |-> TRUE],
              [ops |-> {"&"}, repeats |-> TRUE],
              [ops |-> {"<<", ">>"}, repeats |-> TRUE], [ops |-> {"+", "-"}, repeats |-> TRUE],
              [ops |-> {"*", "/", "%"}, repeats |-> TRUE]>>

Level == <<[ops |-> {"||"}, repeats |-> TRUE], [ops |-> {"&&"}, repeats |-> TRUE],
           [ops |-> {"|"}, repeats |-> TRUE], [ops |-> {"^"}, repeats |-> TRUE],
           [ops |-> {"&"}, repeats |-> TRUE],
           [ops |-> {"==", "!="}, repeats |-> FALSE],
           [ops |-> {">", ">=", "<", "<="}, repeats |-> FALSE],
           [ops |-> {"<<", ">>"}, repeats |-> TRUE], [ops |-> {"+", "-"}, repeats |-> TRUE],
           [ops |-> {"*", "/", "%"}, repeats |-> TRUE]>>

IsAssign(k) == k \in {"=", "+=", "-=", "*=", "**=", "/=", "%=", "&=", "|=", "^=", "<<=", ">>="}
IsAssignable(e) == e.kind \in {"NameExpr", "MemberExpr", "ArrayAccessExpr"}
IsLit(k) == k \in {"LIT_BOOL", "LIT_INT", "LIT_CHARACTER", "LIT_STRING", "LIT_FLOAT"}
Leaf == [super |-> "SuperExpr", this |-> "ThisExpr", self |-> "SelfExpr", root |-> "RootExpr",
         world |-> "BuiltInNameExpr", arena |-> "BuiltInNameExpr"] @@ ("_" :> "DefaultValueExpr")

Binary(left, op, right) == Node("BinaryExpr") @@ [left |-> left, op |-> op, right |-> right]

ternary == <<Tok("?"), Sub("thenExpr", "Expr"), Tok(":"), Sub("elseExpr", "Expr")>>
matchExpr == <<Tok("match"), Tok("("), Sub("value", "Expr"), Tok(")"),
               Tok("{"), Until("}", "cases", "MatchCase"), Tok("}")>>
arrayAccess == <<Tok("["), Sub("index", "Ternary"), Tok("]")>>
arguments == <<Tok("("), Sub("args", "Args")>>
builtinCall ==
  [view    |-> [kind |-> "ViewExpr", items |-> <<Tok("("), Sub("target", "Expr"), Tok(")")>>],
   destroy |-> [kind |-> "DestroyExpr", items |-> <<Tok("("), Sub("target", "Expr"), Tok(")")>>],
   quit    |-> [kind |-> "QuitExpr", items |-> <<Tok("("), Tok(")")>>],
   spawn   |-> [kind |-> "SpawnExpr", items |-> <<Sub("type", "Type")>> \o arguments]]

\* A call is made of a name or of a member; nothing else can be called.
IsCallable(e) == e.kind \in {"NameExpr", "MemberExpr"}
Call(e) ==
  IF e.callee.kind = "NameExpr" THEN [e EXCEPT !.callee = @.name]
  ELSE [e EXCEPT !.callee = @.member] @@ [object |-> e.callee.object]

-----------------------------------------------------------------------------
(* Types *)

DefaultWidth == [int |-> "i32", float |-> "f32", char |-> "c8", string |-> "s8",
                 bool |-> "bool", void |-> "void"]

\* "fixed" takes any width, and has none of its own; no width is a string's.
FitsWidth(k, width) ==
  k = "fixed" \/ (k \in DOMAIN Widths /\ width \in Widths[k])

typeNodeConvertor(i, width) ==
  CASE Kind(i) = "IDENTIFIER" -> Ok([kind |-> "IdentifierType", name |-> tokens[i].text], i)
    [] Kind(i) \in {"int", "float", "char", "string", "bool", "void", "fixed"} ->
         IF Kind(i) = "fixed" /\ width = "" THEN Fail
         ELSE Ok([kind |-> "BuiltinType", name |-> Kind(i), sized |-> width # "",
                  width |-> IF width # "" THEN width ELSE DefaultWidth[Kind(i)]], i)
    [] OTHER -> Fail

\* A type that is one token, in trait signatures and enum payloads.
BareType(i) == Then(typeNodeConvertor(i, ""), LAMBDA type, at : Ok(type, at + 1))

ArrayOf(type, dims) ==
  FoldRight(LAMBDA size, element : [kind |-> "ArrayType", element |-> element, size |-> size],
            dims, type)

-----------------------------------------------------------------------------
(* The prefix of a declaration, and what it allows. *)

RECURSIVE SkipModifiers(_)
SkipModifiers(i) ==
  IF Kind(i) \in {"const", "root", "frame", "override", "async"} THEN SkipModifiers(i + 1) ELSE i

AfterAccess(i) == IF IsAccessModifier(Kind(i)) THEN i + 1 ELSE i
AModifier(i) == IF IsAccessModifier(Kind(i)) THEN Kind(i) ELSE "public"
Modifiers(i) == SubSeq(tokens, i, SkipModifiers(i) - 1)
ModifierSet(i) == {m.kind : m \in Range(Modifiers(i))}
NoDuplicates(i) == Cardinality(ModifierSet(i)) = Len(Modifiers(i))

notFunc(prefix) == prefix.mods \cap {"frame", "override", "async"} = {}
notVar(prefix)  == prefix.mods \cap {"const", "root"} = {}

Declared(kind, prefix, kept) ==
  [kind |-> kind, modi |-> prefix.modi, mods |-> prefix.mods \cap kept]

Context == {"TOPLEVEL", "CLASSBODY", "IMPLBODY", "BLOCK"}
Rule == {"FuncDecl", "VarDecl", "HandleDecl", "InitDecl", "OnDestroyDecl", "ClassDecl",
         "StructDecl", "ImplDecl", "TraitDecl", "EnumDecl"}

\* declaration: what a declaration that starts with the token k is, where it may
\* stand, and what the prefix must be.  Handle<T> takes its name from the first
\* token of the prefix: with any prefix it is no known generic type.
DeclarationRule(k, isFunc) ==
  CASE k \in {"func", "void"} \/ (IsTypeToken(k) /\ isFunc) -> "FuncDecl"
    [] IsTypeToken(k) /\ ~isFunc -> "VarDecl"
    [] k = "init"      -> "InitDecl"
    [] k = "onDestroy" -> "OnDestroyDecl"
    [] k = "Handle"    -> "HandleDecl"
    [] k = "class"     -> "ClassDecl"
    [] k = "struct"    -> "StructDecl"
    [] k = "impl"      -> "ImplDecl"
    [] k = "trait"     -> "TraitDecl"
    [] k = "enum"      -> "EnumDecl"
    [] OTHER           -> "none"

AllowedIn(rule) ==
  CASE rule \in {"FuncDecl", "InitDecl", "OnDestroyDecl"} -> {"CLASSBODY", "IMPLBODY"}
    [] rule = "VarDecl" -> Context \ {"TOPLEVEL"}
    [] rule \in {"ClassDecl", "StructDecl", "ImplDecl"} -> {"TOPLEVEL", "CLASSBODY"}
    [] rule \in {"HandleDecl", "TraitDecl", "EnumDecl"} -> Context
    [] OTHER -> {}

Allows(prefix, rule) ==
  /\ rule \in {"VarDecl", "HandleDecl", "ClassDecl", "StructDecl", "ImplDecl", "TraitDecl", "EnumDecl"}
       => notFunc(prefix)
  /\ rule \notin {"VarDecl", "HandleDecl"} => notVar(prefix)
  /\ rule \in {"InitDecl", "OnDestroyDecl"} => prefix.modi = "public"
  /\ rule = "HandleDecl" => prefix.empty

-----------------------------------------------------------------------------
(* The descent *)

RECURSIVE Parse(_, _), Items(_, _, _), Item(_, _, _), Many(_, _, _, _), Dims(_, _),
          BinaryLevel(_, _), BinaryMore(_, _, _), PostfixMore(_, _), ArgsMore(_, _)

Items(items, node, i) ==
  IF items = <<>> THEN Ok(node, i)
  ELSE Then(Item(Head(items), node, i), LAMBDA n, at : Items(Tail(items), n, at))

Item(item, node, i) ==
  CASE item.is = "tok"    -> IF Kind(i) = item.kind THEN Ok(node, i + 1) ELSE Fail
    [] item.is = "name"   -> IF Kind(i) = "IDENTIFIER"
                             THEN Ok((item.field :> tokens[i].text) @@ node, i + 1) ELSE Fail
    [] item.is = "any"    -> IF IsAtEnd(i) THEN Fail
                             ELSE Ok((item.field :> tokens[i].text) @@ node, i + 1)
    [] item.is = "sub"    -> Then(Parse(item.rule, i),
                                  LAMBDA n, at : Ok((item.field :> n) @@ node, at))
    [] item.is = "opt"    -> IF Kind(i) = item.kind THEN Items(item.items, node, i + 1) ELSE Ok(node, i)
    [] item.is = "unless" -> IF Kind(i) = item.kind THEN Ok(node, i) ELSE Items(item.items, node, i)
    [] item.is = "comma"  -> IF Kind(i) # "," THEN Ok(node, i)
                             ELSE IF Kind(i + 1) = item.kind THEN Fail ELSE Ok(node, i + 1)
    [] item.is \in {"until", "while"} ->
         Then(Many(item, <<>>, node, i), LAMBDA n, at : Ok(n, at))

Many(item, list, node, i) ==
  IF (item.is = "while" /\ Kind(i) = item.kind)
     \/ (item.is = "until" /\ Kind(i) # item.kind /\ ~IsAtEnd(i))
  THEN Then(Parse(item.rule, i), LAMBDA n, at : Many(item, Append(list, n), node, at))
  ELSE Ok((item.field :> list) @@ node, i)

(* Types: a token, a width for a built-in type, dimensions. *)
Dims(list, i) ==
  IF Kind(i) # "[" THEN Ok(list, i)
  ELSE Then(Parse("Expr", i + 1),
            LAMBDA size, at : IF Kind(at) = "]" THEN Dims(Append(list, size), at + 1) ELSE Fail)

TypeWith(width, i, at) ==
  Then(Dims(<<>>, at),
       LAMBDA dims, to : Then(typeNodeConvertor(i, width),
                              LAMBDA type, same : Ok(ArrayOf(type, dims), to)))

parseType(i) ==
  IF Kind(i + 1) # ":" THEN TypeWith("", i, i + 1)
  ELSE IF Kind(i + 2) = "SIZE" /\ FitsWidth(Kind(i), tokens[i + 2].text)
       THEN TypeWith(tokens[i + 2].text, i, i + 3)
       ELSE Fail

(* Expressions *)
BinaryLevel(level, i) ==
  IF level > Len(Level) THEN Parse("Power", i)
  ELSE Then(BinaryLevel(level + 1, i), LAMBDA left, at : BinaryMore(level, left, at))

BinaryMore(level, left, i) ==
  IF Kind(i) \notin Level[level].ops THEN Ok(left, i)
  ELSE Then(BinaryLevel(level + 1, i + 1),
            LAMBDA right, at : IF Level[level].repeats
                               THEN BinaryMore(level, Binary(left, Kind(i), right), at)
                               ELSE Ok(Binary(left, Kind(i), right), at))

power(i) ==
  Then(Parse("Unary", i),
       LAMBDA left, at : IF Kind(at) # "**" THEN Ok(left, at)
                         ELSE Then(Parse("Power", at + 1),
                                   LAMBDA right, to : Ok(Binary(left, "**", right), to)))

unary(i) ==
  IF Kind(i) \in {"-", "+", "!"}
  THEN Then(Parse("Postfix", i + 1),
            LAMBDA e, at : Ok([kind |-> "UnaryExpr", op |-> Kind(i), operand |-> e], at))
  ELSE Parse("Postfix", i)

assignment(i) ==
  Then(Parse("Ternary", i),
       LAMBDA target, at :
         IF ~IsAssign(Kind(at)) THEN Ok(target, at)
         ELSE Then(Parse("Ternary", at + 1),
                   LAMBDA value, to :
                     IF ~IsAssignable(target) THEN Fail
                     ELSE Ok([kind |-> "AssignExpr", target |-> target, op |-> Kind(at),
                              value |-> value], to)))

conditional(i) ==
  Then(BinaryLevel(1, i),
       LAMBDA e, at : IF Kind(at) # "?" THEN Ok(e, at)
                      ELSE Items(ternary, [kind |-> "TernaryExpr", condition |-> e], at))

\* The arguments after "(", at least one, to the ")".
ArgsMore(list, i) ==
  Then(Parse("Ternary", i),
       LAMBDA e, at : CASE Kind(at) = "," -> ArgsMore(Append(list, e), at + 1)
                        [] Kind(at) = ")" -> Ok(Append(list, e), at + 1)
                        [] OTHER -> Fail)

args(i) == IF Kind(i) = ")" THEN Ok(<<>>, i + 1) ELSE ArgsMore(<<>>, i)

builtinMethod(e, i) ==
  IF Kind(i) = "IDENTIFIER" /\ tokens[i].text \in DOMAIN builtinCall
  THEN Items(builtinCall[tokens[i].text].items,
             [kind |-> builtinCall[tokens[i].text].kind, storage |-> e], i + 1)
  ELSE Fail

\* A method of world or arena ends the expression; the others may go on.
PostfixMore(e, i) ==
  CASE Kind(i) = "." /\ e.kind = "BuiltInNameExpr" -> builtinMethod(e, i + 1)
    [] Kind(i) = "." /\ e.kind # "BuiltInNameExpr" ->
         Then(Items(<<Name("member")>>, [kind |-> "MemberExpr", object |-> e], i + 1),
              LAMBDA n, at : PostfixMore(n, at))
    [] Kind(i) = "(" ->
         Then(Items(arguments, [kind |-> "CallExpr", callee |-> e], i),
              LAMBDA n, at : IF IsCallable(e) THEN PostfixMore(Call(n), at) ELSE Fail)
    [] Kind(i) = "[" ->
         Then(Items(arrayAccess, [kind |-> "ArrayAccessExpr", object |-> e], i),
              LAMBDA n, at : PostfixMore(n, at))
    [] Kind(i) = "as" ->
         Then(Items(<<Sub("type", "Type")>>, [kind |-> "CastExpr", expr |-> e], i + 1),
              LAMBDA n, at : PostfixMore(n, at))
    [] OTHER -> Ok(e, i)

primary(i) ==
  CASE IsLit(Kind(i)) ->
         Ok([kind |-> "LiteralExpr", type |-> Kind(i), value |-> tokens[i].text], i + 1)
    [] Kind(i) = "IDENTIFIER" -> Ok([kind |-> "NameExpr", name |-> tokens[i].text], i + 1)
    [] Kind(i) = "(" -> Then(Parse("Expr", i + 1),
                             LAMBDA e, at : IF Kind(at) = ")" THEN Ok(e, at + 1) ELSE Fail)
    [] Kind(i) \in DOMAIN Leaf -> Ok([kind |-> Leaf[Kind(i)], name |-> Kind(i)], i + 1)
    [] Kind(i) = "match" -> Items(matchExpr, Node("MatchExpr"), i)
    [] OTHER -> Fail

(* Statements *)
\* A selector, and a comma if another follows; without the comma it may follow too.
parseCaseValue(i) ==
  Then(Items(<<Sub("value", "Postfix"), Comma("=>")>>, Node("CaseValueExpr"), i),
       LAMBDA n, at : IF n.value.kind = "CallExpr" /\ Len(n.value.args) # 1 THEN Fail ELSE Ok(n, at))

matchCase(i) ==
  Then(Items(caseStmt, Node("Case"), i),
       LAMBDA n, at : IF Len(n.values) = 1 THEN Ok(n, at) ELSE Fail)

loopVariable(i) ==
  Then(Parse("BlockDecl", i),
       LAMBDA d, at : IF d.kind = "VarDecl" /\ "init" \notin DOMAIN d THEN Ok(d, at) ELSE Fail)

statement(i) ==
  CASE Kind(i) = ";" -> Ok(Node("EmptyStmt"), i + 1)
    [] Kind(i) = "if" -> Items(ifStmt, Node("IfStmt"), i)
    [] Kind(i) = "switch" -> Items(switchStmt, Node("SwitchStmt"), i)
    [] Kind(i) = "for" -> Items(forStmt, Node("ForStmt"), i)
    [] Kind(i) = "while" -> Items(whileStmt, Node("WhileStmt"), i)
    [] Kind(i) = "break" -> Ok(Node("BreakStmt"), i + 1)
    [] Kind(i) = "continue" -> Ok(Node("ContinueStmt"), i + 1)
    [] Kind(i) = "return" -> Items(returnStmt, Node("ReturnStmt"), i)
    [] Kind(i) = "<<" -> Items(valueTransferStmt, Node("ValueTransferStmt"), i)
    [] Kind(i) = "try" -> Items(tryStmt, Node("TryStmt"), i)
    [] Kind(i) = "throw" -> Items(throwStmt, Node("ThrowStmt"), i)
    [] Kind(i) = "{" -> Items(blockStmt, Node("BlockStmt"), i + 1)
    [] \/ Kind(i) \in DeclStarts
       \/ Kind(i) = "root" /\ Kind(i + 1) # "."
       \/ Kind(i) = "IDENTIFIER" /\ Kind(i + 1) = "IDENTIFIER" -> Items(declStmt, Node("DeclStmt"), i)
    [] OTHER -> Items(expressionStmt, Node("ExprStmt"), i)

(* Declarations *)
\* The members of a class or a struct, by what they are.
Sorted(decl) ==
  LET are(kinds) == SelectSeq(decl.members, LAMBDA m : m.kind \in kinds)
      rest == Restrict(decl, DOMAIN decl \ {"members"})
  IN IF decl.kind = "StructDecl" THEN rest @@ [fields |-> are({"VarDecl"}), inits |-> are({"InitDecl"})]
     ELSE rest @@ [fields    |-> are({"VarDecl"}),
                   methods   |-> are({"FuncDecl", "InitDecl", "OnDestroyDecl"}),
                   innerDecl |-> are({"ClassDecl", "StructDecl", "ImplDecl", "TraitDecl", "EnumDecl"})]

Declare(rule, ctx, prefix, i) ==
  LET as(kept) == Declared(rule, prefix, kept)
      var == Declared("VarDecl", prefix, {"const", "root"}) @@ [context |-> ctx]
      sorted(r) == Then(r, LAMBDA n, at : Ok(Sorted(n), at))
  IN CASE rule = "FuncDecl" -> Items(functionDecl(Kind(i) = "func"), as({"frame", "override"}), i)
       [] rule = "VarDecl" -> Items(varDecl, var, i)
       [] rule = "HandleDecl" -> Items(handleDecl, var, i)
       [] rule = "InitDecl" -> Items(initDecl, as({"override"}), i)
       [] rule = "OnDestroyDecl" -> Items(onDestroyDecl, as({}), i)
       [] rule = "ClassDecl" -> sorted(Items(classDecl, as({}) @@ [traits |-> <<>>], i))
       [] rule = "StructDecl" -> sorted(Items(structDecl, as({}), i))
       [] rule = "ImplDecl" -> Items(implDecl, as({}) @@ [traits |-> <<>>], i)
       [] rule = "TraitDecl" -> Items(traitDecl, as({}), i)
       [] rule = "EnumDecl" -> Items(enumDecl, as({}), i)

\* A declaration of one of the rules, whose modifiers are read from first on.
DeclareOneOf(rules, ctx, first, from, i) ==
  LET rule   == DeclarationRule(Kind(from), IsFunc(from))
      prefix == [modi |-> AModifier(i), mods |-> ModifierSet(first), empty |-> from = i]
  IN IF rule \in rules /\ ctx \in AllowedIn(rule) /\ Allows(prefix, rule)
     THEN Declare(rule, ctx, prefix, from) ELSE Fail

declaration(ctx, i) ==
  LET first == AfterAccess(i)
  IN IF (first # i /\ ctx # "CLASSBODY") \/ ~NoDuplicates(first) THEN Fail
     ELSE DeclareOneOf(Rule, ctx, first, SkipModifiers(first), i)

structMember(i) ==
  LET first == AfterAccess(i)
  IN DeclareOneOf({"VarDecl", "InitDecl"}, "CLASSBODY", first,
                  IF Kind(first) = "const" THEN first + 1 ELSE first, i)

\* Unlike a class, an impl asks isFunc also of what begins with void.
implMember(i) ==
  IF IsFunc(AfterAccess(i))
  THEN DeclareOneOf({"FuncDecl"}, "IMPLBODY", AfterAccess(i), AfterAccess(i), i) ELSE Fail

Parse(rule, i) ==
  CASE rule = "Expr"         -> assignment(i)
    [] rule = "Ternary"      -> conditional(i)
    [] rule = "Power"        -> power(i)
    [] rule = "Unary"        -> unary(i)
    [] rule = "Postfix"      -> Then(primary(i), LAMBDA e, at : PostfixMore(e, at))
    [] rule = "Args"         -> args(i)
    [] rule = "Type"         -> parseType(i)
    [] rule = "DeclaredType" -> IF IsTypeToken(Kind(i)) THEN parseType(i) ELSE Fail
    [] rule = "BareType"     -> IF IsTypeToken(Kind(i)) THEN BareType(i) ELSE Fail
    [] rule = "ReturnType"   -> BareType(i)
    [] rule = "HandleType"   -> Items(handleType, Node("GenericType"), i)
    [] rule = "Statement"    -> statement(i)
    [] rule = "Block"        -> Items(blockStmt, Node("BlockStmt"), i)
    [] rule = "Body"         -> IF Kind(i) = "{" THEN Parse("Block", i + 1) ELSE statement(i)
    [] rule = "Range"        -> Items(range, Node("Range"), i)
    [] rule = "LoopVariable" -> loopVariable(i)
    [] rule = "SwitchCase"   -> IF Kind(i) = "default" THEN Items(defaultCase, Node("Default"), i)
                                ELSE Items(caseStmt, Node("Case"), i)
    [] rule = "MatchCase"    -> matchCase(i)
    [] rule = "CaseValue"    -> parseCaseValue(i)
    [] rule = "Catch"        -> Items(catchStmt, Node("CatchClause"), i)
    [] rule = "BlockDecl"    -> declaration("BLOCK", i)
    [] rule = "ClassMember"  -> declaration("CLASSBODY", i)
    [] rule = "StructMember" -> structMember(i)
    [] rule = "ImplMember"   -> implMember(i)
    [] rule = "TraitSig"     -> Items(traitSig, Node("TraitSig"), i)
    [] rule = "Param"        -> Items(param("DeclaredType", ")"), Node("Param"), i)
    [] rule = "TraitParam"   -> Items(param("BareType", "}"), Node("Param"), i)
    [] rule = "Variant"      -> Items(variant, Node("Variant"), i)
    [] rule = "Trait"        -> Ok(tokens[i].text, i + 1)

-----------------------------------------------------------------------------
\* parse: one turn of its loop, and its end.
ParseDeclaration ==
  /\ mode = "end" /\ parsed = "no" /\ ~IsAtEnd(current)
  /\ LET r == declaration("TOPLEVEL", current)
     IN IF r.ok THEN decls' = Append(decls, r.node) /\ current' = r.at /\ UNCHANGED parsed
                ELSE parsed' = "refused" /\ UNCHANGED <<decls, current>>

ParsingEnds ==
  /\ mode = "end" /\ parsed = "no" /\ IsAtEnd(current)
  /\ parsed' = "yes"
  /\ UNCHANGED <<current, decls>>

Parsing == (ParseDeclaration \/ ParsingEnds) /\ UNCHANGED lexer
=============================================================================
