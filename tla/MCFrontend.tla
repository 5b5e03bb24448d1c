----------------------------- MODULE MCFrontend -----------------------------
(***************************************************************************)
(* The front end on families of small programs: runs of operator           *)
(* characters and comments, and programs written from their trees.         *)
(***************************************************************************)
EXTENDS Typing

Printer == INSTANCE Unparse

(* The trees *)
Public == [modi |-> "public", mods |-> {}]

Num(digit)  == [kind |-> "LiteralExpr", type |-> "LIT_INT", value |-> digit]
V(name)     == [kind |-> "NameExpr", name |-> name]
Bin(l, op, r) == [kind |-> "BinaryExpr", left |-> l, op |-> op, right |-> r]
Un(op, e)   == [kind |-> "UnaryExpr", op |-> op, operand |-> e]
Cond(c, t, e) == [kind |-> "TernaryExpr", condition |-> c, thenExpr |-> t, elseExpr |-> e]
Assign(l, op, r) == [kind |-> "AssignExpr", target |-> l, op |-> op, value |-> r]
Member(e, m) == [kind |-> "MemberExpr", object |-> e, member |-> m]
Element(e, i)   == [kind |-> "ArrayAccessExpr", object |-> e, index |-> i]
CallOf(f, es) == [kind |-> "CallExpr", callee |-> f, args |-> es]
CallOn(e, f, es) == [kind |-> "CallExpr", object |-> e, callee |-> f, args |-> es]
Cast(e, type) == [kind |-> "CastExpr", expr |-> e, type |-> type]

Plain(name, width) == [kind |-> "BuiltinType", name |-> name, width |-> width, sized |-> FALSE]
Sized(name, width) == [kind |-> "BuiltinType", name |-> name, width |-> width, sized |-> TRUE]
I32        == Plain("int", "i32")
I64        == Sized("int", "i64")
Void       == Plain("void", "void")
Ref(name)  == [kind |-> "IdentifierType", name |-> name]
HandleTo(name) == [kind |-> "GenericType", inner |-> Ref(name)]
ArrayTo(type, size) == [kind |-> "ArrayType", element |-> type, size |-> Num(size)]

F32        == Plain("float", "f32")
F64        == Sized("float", "f64")
Bool       == Plain("bool", "bool")
World      == [kind |-> "BuiltInNameExpr", name |-> "world"]
Spawn(name, es) == [kind |-> "SpawnExpr", storage |-> World, type |-> Ref(name), args |-> es]
View(e)    == [kind |-> "ViewExpr", storage |-> World, target |-> e]
Destroy(e) == [kind |-> "DestroyExpr", storage |-> World, target |-> e]
Quit       == [kind |-> "QuitExpr", storage |-> World]

Do(e)      == [kind |-> "ExprStmt", expr |-> e]
Block(ss)  == [kind |-> "BlockStmt", statements |-> ss]
Break      == [kind |-> "BreakStmt"]
Give(e)    == [kind |-> "ReturnStmt", value |-> e]
Var(type, name)      == Public @@ [kind |-> "VarDecl", type |-> type, name |-> name, context |-> "BLOCK"]
VarIs(type, name, e) == Var(type, name) @@ [init |-> e]
Local(d)   == [kind |-> "DeclStmt", decl |-> d]
When(e, ss) == [kind |-> "Case", values |-> <<[kind |-> "CaseValueExpr", value |-> e]>>, body |-> Block(ss)]
Otherwise(ss) == [kind |-> "Default", body |-> Block(ss)]
Switch(e, cases)  == [kind |-> "SwitchStmt", value |-> e, cases |-> cases]
Transfer(e) == [kind |-> "ValueTransferStmt", value |-> e]
Wild        == [kind |-> "DefaultValueExpr", name |-> "_"]
MatchOn(e, cases) == [kind |-> "MatchExpr", value |-> e, cases |-> cases]
Match(e, ss) == MatchOn(e, <<When(Num("1"), Append(ss, Transfer(Num("1")))), When(Wild, <<Transfer(Num("1"))>>)>>)
Count(r, ss) == [kind |-> "ForStmt", initializer |-> Var(I32, "k"), range |-> r, body |-> Block(ss)]
Repeat(e, ss) == [kind |-> "WhileStmt", condition |-> e, body |-> Block(ss)]
UpTo(e)    == [kind |-> "Range", start |-> Num("0"), end |-> e]

Param(type, name) == [kind |-> "Param", type |-> type, name |-> name]
Field(type, name) == Public @@ [kind |-> "VarDecl", type |-> type, name |-> name, context |-> "CLASSBODY"]
FieldIs(type, name, e) == Field(type, name) @@ [init |-> e]
Private(d) == [d EXCEPT !.modi = "private"]
Marked(d)  == [d EXCEPT !.mods = {"override"}]
Func(name, params, ss) == Public @@ [kind |-> "FuncDecl", name |-> name, params |-> params, body |-> Block(ss)]
Returning(type, f) == f @@ [returnType |-> type]
InitOf(params) == Public @@ [kind |-> "InitDecl", params |-> params, body |-> Block(<<>>)]
OnDestroy  == Public @@ [kind |-> "OnDestroyDecl", body |-> Block(<<>>)]
ClassOf(name, fields, methods, inner) ==
  Public @@ [kind |-> "ClassDecl", name |-> name, traits |-> <<>>, fields |-> fields, methods |-> methods,
             innerDecl |-> inner]
Extending(base, class) == IF base = "none" THEN class ELSE class @@ [baseClass |-> base]
StructOf(name, fields, inits) == Public @@ [kind |-> "StructDecl", name |-> name, fields |-> fields, inits |-> inits]
ImplOf(name, traits, methods) == Public @@ [kind |-> "ImplDecl", target |-> name, traits |-> traits, methods |-> methods]
TraitOf(name, sigs) == Public @@ [kind |-> "TraitDecl", name |-> name, traitSigs |-> sigs]
Sig(type, name, params) == [kind |-> "TraitSig", type |-> type, name |-> name, params |-> params]
EnumOf(name, variants) == Public @@ [kind |-> "EnumDecl", name |-> name, variants |-> variants]
VariantOf(name) == [kind |-> "Variant", name |-> name]
Carrying(name, type) == VariantOf(name) @@ [payload |-> type]

MainWith(fields, ss) == ClassOf("Main", fields, <<Func("update", <<>>, ss)>>, <<>>)
Main == MainWith(<<>>, <<>>)

-----------------------------------------------------------------------------
(* The programs *)

\* Every pair of operators, grouped to the left and to the right.
Operators == <<"||", "&&", "|", "^", "&", "==", "<", "<<", "+", "*", "**">>
Pairs(op) ==
  FlattenSeq([i \in DOMAIN Operators |->
    <<Do(Bin(Bin(V("a"), op, V("b")), Operators[i], V("c"))),
      Do(Bin(V("a"), op, Bin(V("b"), Operators[i], V("c"))))>>])
OperatorPairs == {<<MainWith(<<>>, Pairs(op))>> : op \in Range(Operators)}

OtherExpressions ==
  {<<MainWith(<<>>,
       <<Do(Bin(Un("-", V("a")), "**", Un("!", V("b")))), Do(Un("-", Bin(V("a"), "**", V("b")))),
         Do(Cond(Bin(V("a"), "||", V("b")), V("c"), Cond(V("a"), V("b"), V("c")))),
         Do(Cond(Cond(V("a"), V("b"), V("c")), V("b"), V("c"))),
         Do(Assign(V("a"), "=", Cond(V("b"), V("c"), V("a")))),
         Do(Assign(Element(Member(V("a"), "b"), Num("1")), ">>=", Cast(Bin(V("b"), "+", V("c")), I64))),
         Do(CallOn(Element(CallOf("a", <<>>), V("b")), "c", <<Cond(V("a"), V("b"), V("c")), Num("2")>>)),
         Do(Member(Un("-", V("a")), "b")), Do(Bin(Cast(V("a"), ArrayTo(Ref("A"), "2")), "<", V("b"))),
         Local(VarIs(Ref("A"), "x", Num("1"))), Local(VarIs(I64, "y", Bin(V("a"), "<", V("b"))))>>)>>}

\* A statement around another one; what an initial value and a return hold, the
\* Verifier does not see; what a range and a match's value hold, the Builder.
Around(s) ==
  {Count(UpTo(Num("2")), <<s>>),
   Repeat(Bin(V("y"), "<", V("y")), <<s>>),
   [kind |-> "IfStmt", condition |-> Bin(V("y"), "<", V("y")), thenBranch |-> Block(<<>>), elseBranch |-> Block(<<s>>)],
   Switch(V("y"), <<When(Num("1"), <<s>>)>>),
   Do(Match(V("y"), <<s>>)), Local(VarIs(I32, "x", Match(V("y"), <<s>>))),
   Do(Cast(Match(V("y"), <<s>>), I32)),
   Count(UpTo(Match(V("y"), <<s>>)), <<>>), Do(Match(Match(V("y"), <<s>>), <<>>))}
OneAround == Around(Break)
Nested == {<<MainWith(<<Field(I32, "y")>>, <<s>>)>> : s \in OneAround \cup UNION {Around(s) : s \in OneAround}}
LeftOver == {<<MainWith(<<>>, <<[kind |-> "BlockStmt", statements |-> <<Count(UpTo(Num("2")), <<>>), [kind |-> "ContinueStmt"]>>]>>)>>}

\* Every graph of bases among three classes, and a few that are not classes.
Bases == {"none", "A", "B", "C"}
Inheriting(a, b, c) ==
  <<Extending(a, ClassOf("A", <<Field(I32, "p")>>, <<>>, <<>>)),
    Extending(b, ClassOf("B", <<Field(I32, "p"), Field(I32, "q")>>, <<>>, <<>>)), Main,
    Extending(c, ClassOf("C", <<Field(HandleTo("A"), "r")>>, <<>>, <<>>))>>
Inheritance == {Inheriting(a, b, c) : a, b, c \in Bases}
OddBases == {<<Main, StructOf("S", <<>>, <<>>), Extending(b, ClassOf("A", <<>>, <<>>, <<>>))>> :
               b \in {"Main", "Handle", "Error", "S", "Z"}}

\* Types inside types under the same names, and references to them from inside
\* and from outside.
Uses == <<Field(Ref("A"), "m"), Field(Ref("B"), "n")>>
Inside(inner) == IF inner = "none" THEN <<>> ELSE <<ClassOf(inner, Uses, <<>>, <<>>)>>
Shadowing ==
  UNION {{<<Main, ClassOf("A", Uses, <<>>, Inside(i)), ClassOf("B", Uses, <<>>, Inside(j))>>,
          <<ClassOf("C", Uses, <<Func("f", <<Param(Ref("B"), "m")>>, <<>>)>>, Inside(i) \o Inside(j)),
            StructOf("B", <<Field(I32, "m")>>, <<InitOf(<<Param(Ref("A"), "m")>>)>>),
            EnumOf("A", <<VariantOf("X")>>), Main>>} : i, j \in {"none", "A", "B"}}

\* Two methods of a name, in a class and in the impl of a struct.
Signatures == {Func("f", <<>>, <<>>), Func("f", <<Param(I32, "x")>>, <<>>),
               Func("f", <<Param(Ref("A"), "x")>>, <<>>), Returning(I32, Func("f", <<Param(I32, "y")>>, <<>>))}
Overloads ==
  UNION {{<<Main, ClassOf("A", <<>>, <<f, g>>, <<>>)>>,
          <<ImplOf("S", <<>>, <<f, g>>), StructOf("S", <<>>, <<>>), ClassOf("A", <<>>, <<>>, <<>>), Main>>,
          <<ImplOf("S", <<>>, <<f>>), StructOf("S", <<>>, <<>>), ClassOf("A", <<>>, <<f>>, <<>>), Main,
            ImplOf("S", <<>>, <<g>>)>>} : f, g \in Signatures}

Update == Func("update", <<>>, <<>>)
Mains ==
  {<<ClassOf("Main", <<>>, methods, <<>>)>> :
     methods \in {<<>>, <<Update>>, <<Update, Update>>, <<Update, InitOf(<<>>)>>, <<Update, InitOf(<<Param(I32, "x")>>)>>,
                  <<Update, InitOf(<<>>), InitOf(<<>>)>>, <<Update, OnDestroy>>, <<Update, OnDestroy, OnDestroy>>}}

Traited == TraitOf("T", <<Sig(I32, "f", <<Param(I32, "x")>>), Sig(Void, "g", <<>>)>>)
Declarations ==
  {<<Main, Traited, StructOf("S", <<>>, <<>>), ImplOf(target, traits, <<>>)>> :
     target \in {"S", "T", "Main"}, traits \in {<<>>, <<"T">>, <<"T", "T">>, <<"S">>, <<"Z">>}}
  \cup {<<Main, Traited, EnumOf("E", variants)>> :
          variants \in {<<VariantOf("X"), VariantOf("Y")>>, <<VariantOf("X"), VariantOf("X")>>,
                        <<Carrying("X", Ref("E")), Carrying("Y", I32)>>, <<Carrying("X", Ref("Main"))>>,
                        <<Carrying("X", Ref("Z"))>>}}
  \cup {<<Main, ClassOf("A", <<Field(type, "x"), Field(ArrayTo(I64, "2"), "y")>>, <<>>, <<>>)>> :
          type \in {HandleTo("A"), HandleTo("Main"), HandleTo("Z"), ArrayTo(I64, "0"), ArrayTo(I64, "2"),
                    ArrayTo(ArrayTo(I64, "2"), "2")}}
  \cup {<<Traited>>, <<Main, Traited, Traited>>, <<Main, Main>>,
        <<Main, ClassOf("A", <<>>, <<>>, <<Traited>>)>>,
        <<ClassOf("A", <<Field(I32, "x"), Field(I32, "x")>>, <<>>, <<>>), Main>>}

(* For the Resolver *)

\* Every two types in an operation, and as a variable and its initial value.
Numeric == {Sized("int", "i8"), I32, I64, Sized("int", "u32"), F32, F64}
Operands == {<<MainWith(<<Field(l, "x"), Field(r, "y")>>, <<Do(Bin(V("x"), "+", V("y")))>>)>> :
               l, r \in Numeric \cup {Bool}}
Initials == {<<MainWith(<<Field(r, "y")>>, <<Local(VarIs(l, "x", V("y"))), Do(V("x"))>>)>> :
               l, r \in Numeric \cup {Sized("int", "i32"), Sized("float", "f32"), Bool}}

\* The field of a class, read in it and in classes before and after it; a variable
\* that is read before its declaration.
Reading(name) ==
  ClassOf(name, <<Field(HandleTo("A"), "h")>>,
          <<Func("g", <<>>, <<Local(VarIs(Ref("A"), "o", View(V("h")))), Do(Member(V("o"), "x"))>>)>>, <<>>)
Widening == {<<Reading("B"), ClassOf("A", <<FieldIs(type, "x", init)>>, <<Func("f", <<>>, <<Do(V("x"))>>)>>, <<>>),
               Reading("C"), Main>> :
               type \in {I32, F32, F64}, init \in {Num("1"), Num("22222222"), Num("2222222222")}}
ReadEarly == {<<MainWith(<<Field(I64, "y")>>, <<Do(V("x")), Local(VarIs(I32, "x", V("y"))), Do(V("x"))>>)>>}

\* Two overloads and a call.
Calling(f, g, es) ==
  <<ClassOf("Main", <<Field(Sized("int", "i8"), "a"), Field(I32, "b")>>,
            <<f, g, Func("update", <<>>, <<Do(CallOf("f", es))>>)>>, <<>>)>>
One(type) == Func("f", <<Param(type, "x")>>, <<>>)
Two(l, r) == Func("f", <<Param(l, "x"), Param(r, "y")>>, <<>>)
Calls ==
  {Calling(One(l), One(r), <<e>>) : l, r \in {Sized("int", "i8"), I32, I64, F32},
                                    e \in {V("a"), V("b"), Num("1"), Num("2222222222")}}
  \cup {Calling(f, g, es) : f, g \in {Two(I32, I64), Two(I64, I32), Two(I64, I64)},
                            es \in {<<V("b"), V("b")>>, <<V("a"), V("b")>>, <<Num("1"), V("b")>>}}
  \cup {Calling(Func("f", <<Param(I32, "x") @@ [init |-> Num("1")]>>, <<>>), One(I64), <<Wild>>)}

\* An inferred or declared type of a method, called before and after it.
Inferred == {Returning(I32, Func("f", <<>>, <<Give(Num("1"))>>)), Func("f", <<>>, <<Give(Num("1"))>>),
             Func("f", <<>>, <<>>), Returning(F32, Func("f", <<>>, <<Give(Num("1"))>>))}
CallF == Func("update", <<>>, <<Local(VarIs(I32, "x", CallOf("f", <<>>)))>>)
ReturnTypes == UNION {{<<ClassOf("Main", <<>>, <<f, CallF>>, <<>>)>>, <<ClassOf("Main", <<>>, <<CallF, f>>, <<>>)>>} : f \in Inferred}

\* A choice over an enum, and one inside its first clause.
EnumE == EnumOf("E", <<VariantOf("X"), Carrying("Y", I32)>>)
Selections ==
  {<<>>, <<V("X")>>, <<V("X"), V("Y")>>, <<Member(V("E"), "Y"), V("X")>>, <<V("X"), CallOf("Y", <<V("v")>>)>>,
   <<V("X"), V("X")>>, <<V("X"), Wild>>, <<Wild, V("X")>>, <<V("Z")>>, <<Num("1")>>, <<CallOf("X", <<V("v")>>)>>}
Cases(names, ss) == [i \in DOMAIN names |-> When(names[i], ss)]
Defaulted(names, ss) == Append(Cases(names, ss), Otherwise(ss))
Switches ==
  {Switch(V("e"), Cases(names, <<>>)) : names \in Selections} \cup {Switch(V("e"), Defaulted(names, <<>>)) : names \in Selections}
    \cup {Switch(V("k"), Cases(<<Num("1")>>, <<>>)), Switch(V("k"), Cases(<<V("X")>>, <<>>)),
          Switch(V("e"), <<Otherwise(<<>>), When(V("X"), <<>>)>>),
          Switch(V("e"), <<[When(V("X"), <<>>) EXCEPT !.values = Append(@, [kind |-> "CaseValueExpr", value |-> V("Y")])]>>)}
Matches == {Do(MatchOn(V("e"), Cases(names, <<Transfer(Num("1"))>>))) : names \in Selections}
             \cup {Do(MatchOn(V("k"), Cases(names, <<Transfer(Num("1"))>>))) : names \in {<<Num("1")>>, <<Num("1"), Wild>>}}
Selecting(s) == <<MainWith(<<Field(Ref("E"), "e"), Field(I32, "k")>>, <<s>>), EnumE>>
Selects == {Selecting(s) : s \in Switches \cup Matches}
             \cup {Selecting(Switch(V("e"), <<When(V("X"), <<s>>)>>)) : s \in Switches}
             \cup {Selecting(Do(MatchOn(V("e"), <<When(V("X"), <<s, Transfer(Num("1"))>>)>>))) : s \in Matches}

\* A method and the one of the base, declared before or after.
Same == Inferred \cup {One(I32)}
Deriving(f, g) == {<<Main, ClassOf("A", <<>>, <<f>>, <<>>), Extending("A", ClassOf("B", <<>>, <<g>>, <<>>))>>,
                   <<Extending("A", ClassOf("B", <<>>, <<g>>, <<>>)), ClassOf("A", <<>>, <<f>>, <<>>), Main>>}
Overriding == UNION {Deriving(f, g) \cup Deriving(f, Marked(g)) : f, g \in Same}
                \cup UNION {Deriving(Func("h", <<>>, <<>>), Marked(g)) : g \in Same}
                \cup {<<ClassOf("Main", <<>>, <<Update, Marked(One(I32))>>, <<>>)>>}
Classy(traits, f) == [ClassOf("A", <<>>, <<f>>, <<>>) EXCEPT !.traits = traits]
Contracts == {<<Main, TraitOf("T", <<Sig(I32, "f", <<Param(I32, "x")>>)>>), Classy(<<"T">>, f)>> : f \in Same}
               \cup {<<Main, TraitOf("T", <<Sig(Void, "f", <<Param(I32, "x")>>)>>), ClassOf("A", <<>>, <<f>>, <<>>),
                       [Extending("A", ClassOf("B", <<>>, <<>>, <<>>)) EXCEPT !.traits = <<"T">>]>> : f \in Same}
               \cup {<<Main, TraitOf("T", <<Sig(I32, "f", <<>>)>>), StructOf("S", <<>>, <<>>), ImplOf("S", <<"T">>, <<f>>)>> : f \in Same}

\* Handles and the observers of what they refer to.
Seeing(fields, methods) ==
  <<ClassOf("A", <<Field(I32, "x"), Private(Field(I32, "y"))>>, <<Func("f", <<>>, <<>>), InitOf(<<Param(I32, "x")>>)>>, <<>>),
    ClassOf("B", <<Field(HandleTo("A"), "h"), Field(I32, "k")>> \o fields, methods, <<>>), Main>>
Acting(ss) == Seeing(<<>>, <<Func("g", <<>>, ss)>>)
SeenO == Local(VarIs(Ref("A"), "o", View(V("h"))))
Observing ==
  {Seeing(<<Field(Ref("A"), "o")>>, <<>>), Seeing(<<FieldIs(Ref("A"), "o", View(V("h")))>>, <<>>)}
  \cup {Acting(ss) :
          ss \in {<<SeenO>>, <<Local(Var(Ref("A"), "o"))>>, <<Local(VarIs(Ref("A"), "o", V("h")))>>,
                  <<SeenO, Local(VarIs(Ref("A"), "p", V("o")))>>, <<SeenO, Do(Assign(V("o"), "=", V("o")))>>,
                  <<SeenO, Do(Assign(V("o"), "=", View(V("h"))))>>, <<Do(Assign(V("h"), "=", V("h")))>>,
                  <<Do(View(Spawn("A", <<Num("1")>>)))>>, <<Do(Assign(V("h"), "=", Spawn("A", <<Num("1")>>)))>>,
                  <<Do(Spawn("A", <<>>))>>, <<Do(Spawn("A", <<Num("2222222222")>>))>>, <<Do(Destroy(V("h")))>>,
                  <<Do(Destroy(V("k")))>>, <<Do(Quit)>>, <<SeenO, Do(CallOn(V("o"), "f", <<>>))>>,
                  <<SeenO, Do(Member(V("o"), "y"))>>, <<Do(Member(V("h"), "x"))>>, <<Do(CallOn(V("h"), "f", <<>>))>>}}
  \cup {<<ClassOf("A", <<>>, <<>>, <<>>),
          ClassOf("B", <<Field(HandleTo("A"), "h")>>, <<Func("g", <<>>, <<>>)>>,
                  <<ClassOf("C", <<FieldIs(Ref("A"), "o", View(V("h")))>>, <<>>, <<>>)>>), Main>>}

\* An init that returns or quits, an enum's value with a payload, and operands that fit nothing.
Others ==
  {Seeing(<<>>, <<[InitOf(<<>>) EXCEPT !.body = Block(<<s>>)]>>) : s \in {Do(Quit), Give(Num("1")), Do(V("k"))}}
  \cup {Selecting(s) : s \in {Do(CallOn(V("E"), "Y", <<e>>)) : e \in {Num("1"), Num("2222222222"), V("k"), V("e")}}
                           \cup {Do(CallOn(V("E"), "X", <<>>)), Do(Member(V("E"), "X")), Do(Member(V("E"), "Z")),
                                 Local(VarIs(Ref("E"), "v", Member(V("E"), "X"))), Do(Un("-", V("e"))),
                                 Do(Bin(V("e"), "==", V("e"))), Do(Cond(V("k"), V("k"), V("e"))),
                                 Do(Assign(V("k"), "=", V("e"))), Do(Element(V("k"), Num("1")))}}

\* Programs that the documentation or a test says are to be refused, each for one
\* reason: a number that its variable has no room for, a whole number that
\* becomes a fraction of its width, a switch and a match left by break and by
\* continue, an assignment to a narrower variable.
InMain(ss) == <<ClassOf("Main", <<>>, <<Update, [InitOf(<<>>) EXCEPT !.body = Block(ss)]>>, <<>>)>>
Looping(s) == <<Local(VarIs(I32, "y", Num("1"))), Count(UpTo(Num("2")), <<s>>)>>
Overflowing == InMain(<<Local(VarIs(Sized("int", "i16"), "a", Num("32768")))>>)
Inexact == InMain(<<Local(VarIs(I32, "a", Num("1"))), Local(VarIs(Sized("float", "f32"), "b", V("a")))>>)
LeavingSwitch == InMain(Looping(Switch(V("y"), <<When(Num("1"), <<Break>>)>>)))
LeavingMatch  == InMain(Looping(Do(Match(V("y"), <<[kind |-> "ContinueStmt"]>>))))
Narrowing == InMain(<<Local(VarIs(I64, "x", Num("1"))), Local(VarIs(I32, "y", Num("1"))),
                      Do(Assign(V("y"), "=", V("x")))>>)
ToBeRefused == {Overflowing, Inexact, LeavingSwitch, LeavingMatch, Narrowing}
RefusalTexts == {Printer!TextOf(p) : p \in ToBeRefused}

Programs == OperatorPairs \cup OtherExpressions \cup Nested \cup LeftOver \cup Inheritance \cup OddBases
              \cup Shadowing \cup Overloads \cup Mains \cup Declarations
              \cup Operands \cup Initials \cup Widening \cup ReadEarly \cup Calls \cup ReturnTypes \cup Selects
              \cup Overriding \cup Contracts \cup Observing \cup Others

Written == {Printer!TextOf(p) : p \in Programs}

\* The runs of up to three operator characters, and comments.
Runs == {"*", "<", "=", "&", ">", "/", "."}
Short == UNION {[1..n -> Runs] : n \in 0..3}
Comments == {<<"/", "*", "*", "/", "a">>, <<"/", "*", "*", "*", "/">>, <<"/", "*", "/", "a">>, <<"/", "*", "a", "*", "a", "/">>, <<"/", "/", "a", "\n", "a">>,
             <<"a", "/", "/", "*", "\n", " ">>, <<"1", ".", ".", "2", ".", "1", "e", "+", "2">>,
             <<"'", "\\", "n", "'", "_", "a">>, <<"\"", "a", "\n", "\"", "@">>}

Fragments == {<<"a">> \o t : t \in Short} \cup Comments

\* Parsing undoes writing: precedence, associativity and the choices between
\* the rules are those of the language (parser/*.cpp).
RoundTrip ==
  phase \in {"build", "refused"} /\ text \notin Fragments =>
    parsed = "yes" /\ decls \in Programs /\ Printer!TextOf(decls) = text

AllTexts == Written \cup Fragments
=============================================================================
