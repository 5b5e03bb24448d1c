---------------------------- MODULE MCOwnership ----------------------------
(* Scenarios for the runs of Ownership: each has the variables and the      *)
(* blocks of statements of a family of programs.  In the scenario "any" it  *)
(* is the steps of HeapProgram that are taken, in any order.                *)
EXTENDS Ownership

VARIABLES strings, enums \* those of HeapProgram

Block(body)       == [needs |-> {}, unless |-> {}, declares |-> {}, leaves |-> {},
                      when |-> <<>>, body |-> body]
With(b, names)    == [b EXCEPT !.needs = names]
Introduces(name, b) == [b EXCEPT !.declares = {name}, !.unless = {name}]
Case(b, place, tag) == [b EXCEPT !.when = <<place, tag>>]
Leaving(locals)   == [needs |-> {locals[i][1] : i \in DOMAIN locals}, unless |-> {},
                      declares |-> {}, leaves |-> {locals[i][1] : i \in DOMAIN locals},
                      when |-> <<>>, body |-> <<CleanupOf(locals)>>]

V(name) == Place(name, <<>>)
F(i)    == Place("self", <<i>>)
Str(place) == LoadOf(place, String)
Letter  == StringLit(<<"a">>)
NoText  == StringLit(<<>>)

DeclBlock(name, type, init, needs) ==
  Introduces(name, With(Block(<<LocalDecl(name, type, init)>>), needs))
Set(place, value, needs) == With(Block(<<Assignment(place, value)>>), needs)
Do(value, needs) == With(Block(<<ExprStmt(value)>>), needs)

\* Methods of the object: the first changes a field and returns it.
Renew == Method(<<>>, <<>>, <<Assignment(F(1), Letter)>>, Str(F(1)))
Extend == Method(<<>>, <<>>, <<Assignment(F(1), Add(Str(F(1)), Letter))>>, NumberLit(1))
Reset == Method(<<"n">>, <<Primitive>>,
                <<LocalDecl("old", String, Str(F(1))), Assignment(F(1), NoText),
                  Assignment(F(1), Add(Str(V("old")), Str(F(1)))),
                  CleanupOf(<<<<"old", String>>>>)>>, LoadOf(V("n"), Primitive))

Strings ==
  [fields |-> <<String>>, locals |-> [x |-> String, y |-> String],
   blocks |->
     {DeclBlock("x", String, Letter, {}), DeclBlock("x", String, Str(F(1)), {}),
      DeclBlock("y", String, Add(Str(V("x")), Letter), {"x"}),
      Introduces("y", Block(<<LocalDecl("y", String, Uninitialised), Assignment(V("y"), NoText)>>)),
      Set(V("x"), Str(V("y")), {"x", "y"}), Set(V("y"), Str(V("x")), {"x", "y"}),
      Set(V("x"), Str(V("x")), {"x"}), Set(V("x"), Add(Str(V("x")), Str(V("x"))), {"x"}),
      Set(F(1), Str(V("x")), {"x"}), Set(V("x"), Str(F(1)), {"x"}),
      Set(F(1), Add(Str(F(1)), Str(V("y"))), {"y"}),
      Set(V("x"), CallOf(Renew, <<>>), {"x"}),
      Set(V("x"), Add(CallOf(Renew, <<>>), Str(V("x"))), {"x"}),
      Do(RuntimeCall(<<Str(V("x")), Add(Str(V("x")), Str(F(1)))>>), {"x"}),
      Do(And(Equal(Str(V("x")), Letter), Equal(CallOf(Extend, <<>>), CallOf(Reset, <<NumberLit(2)>>))),
         {"x"}),
      With(Block(<<StringSwitch(Str(V("x")), <<<<>>, <<"a">>>>,
                     <<<<Assignment(V("x"), Letter)>>, <<Assignment(F(1), Str(V("x")))>>,
                       <<Assignment(V("x"), NoText)>>>>)>>), {"x"}),
      Leaving(<<<<"x", String>>>>), Leaving(<<<<"y", String>>>>),
      Leaving(<<<<"x", String>>, <<"y", String>>>>)}]

\* struct Pair { string s = "a"; int n; init(int k) { s = s + s; n = k; } }, and a struct
\* that contains one.
PairType == Struct(<<String, Primitive>>, <<Assignment(F(1), Letter)>>)
PairInit == Method(<<"k">>, <<Primitive>>,
              <<Assignment(F(1), Add(Str(F(1)), Str(F(1)))), Assignment(F(2), LoadOf(V("k"), Primitive))>>,
              NumberLit(0))
Outer == Struct(<<PairType, Primitive>>, <<>>)
Pair(place) == LoadOf(place, PairType)
Keep == Method(<<"arg">>, <<PairType>>, <<Assignment(Place("self", <<1, 1, 1>>), Str(Place("arg", <<1>>)))>>,
               NumberLit(1))

Structs ==
  [fields |-> <<Outer>>, locals |-> [p |-> PairType, q |-> PairType],
   blocks |->
     {DeclBlock("p", PairType, StructInit(PairType, Uninitialised, <<>>), {}),
      DeclBlock("q", PairType, StructInit(PairType, PairInit, <<NumberLit(1)>>), {}),
      DeclBlock("q", PairType, Pair(V("p")), {"p"}),
      Set(V("p"), Pair(V("q")), {"p", "q"}), Set(V("q"), Pair(V("p")), {"p", "q"}),
      Set(V("p"), StructInit(PairType, PairInit, <<NumberLit(2)>>), {"p"}),
      Set(F(1), StructInit(Outer, Uninitialised, <<>>), {}),
      Set(Place("self", <<1, 1>>), Pair(V("p")), {"p"}),
      Set(V("q"), Pair(Place("self", <<1, 1>>)), {"q"}),
      Set(Place("p", <<1>>), Str(Place("q", <<1>>)), {"p", "q"}),
      Set(Place("self", <<1, 1, 1>>), Add(Str(Place("p", <<1>>)), NoText), {"p"}),
      Do(CallOf(Keep, <<Pair(V("p"))>>), {"p"}),
      Leaving(<<<<"p", PairType>>>>), Leaving(<<<<"p", PairType>>, <<"q", PairType>>>>),
      Leaving(<<<<"q", PairType>>>>)}]

\* enum Item { Empty, Word(string), Boxed(Pair) }
ItemType == Enum(<<Unit, String, PairType>>)
Item(place) == LoadOf(place, ItemType)
Word1(text) == Variant(ItemType, 2, text)
Discard == Method(<<"gone">>, <<ItemType>>, <<Assignment(F(1), Item(V("gone")))>>, NumberLit(1))

Enums ==
  [fields |-> <<ItemType>>, locals |-> [e |-> ItemType, g |-> ItemType, s |-> String],
   blocks |->
     {DeclBlock("e", ItemType, Variant(ItemType, 1, NoPayload), {}),
      DeclBlock("e", ItemType, Word1(Letter), {}),
      DeclBlock("g", ItemType, Item(V("e")), {"e"}),
      DeclBlock("g", ItemType,
                Variant(ItemType, 3, StructInit(PairType, PairInit, <<NumberLit(1)>>)), {}),
      Set(V("e"), Item(V("g")), {"e", "g"}), Set(V("g"), Item(V("e")), {"e", "g"}),
      Set(V("e"), Item(V("e")), {"e"}), Set(F(1), Item(V("e")), {"e"}),
      Set(V("e"), Item(F(1)), {"e"}), Set(F(1), Word1(NoText), {}),
      Do(CallOf(Discard, <<Item(V("e"))>>), {"e"}), Do(CallOf(Discard, <<Word1(Letter)>>), {}),
      Case(DeclBlock("s", String, Payload(F(1), String), {}), F(1), 2),
      Set(F(1), Word1(Str(V("s"))), {"s"}),
      Leaving(<<<<"s", String>>>>), Leaving(<<<<"e", ItemType>>>>),
      Leaving(<<<<"e", ItemType>>, <<"g", ItemType>>>>), Leaving(<<<<"g", ItemType>>>>)}]

\* string names[2], with a copy of it in a local.
Names == Array(String, 2)
Elem(i) == Place("self", <<1, i>>)

Arrays ==
  [fields |-> <<Names>>, locals |-> [n |-> Names],
   blocks |->
     {DeclBlock("n", Names, Uninitialised, {}),
      Set(Elem(1), Add(Letter, Str(Elem(2))), {}), Set(Elem(2), Str(Elem(1)), {}),
      Set(Place("n", <<1>>), Str(Elem(1)), {"n"}), Set(Elem(1), Str(Place("n", <<2>>)), {"n"}),
      Set(Place("n", <<2>>), Str(Place("n", <<1>>)), {"n"}), Leaving(<<<<"n", Names>>>>)}]

AnyOrder == [fields |-> <<>>, locals |-> <<>>, blocks |-> {}]

Accepted == [strings |-> Strings, structs |-> Structs, enums |-> Enums, arrays |-> Arrays,
             any |-> AnyOrder]

\* struct Slot { Item item; }, and one assigned to another.
SlotType == Struct(<<ItemType>>, <<Assignment(F(1), Word1(Letter))>>)

StructsOfEnums ==
  [slots |->
   [fields |-> <<>>, locals |-> [v |-> SlotType, w |-> SlotType],
    blocks |->
      {DeclBlock("v", SlotType, StructInit(SlotType, Uninitialised, <<>>), {}),
       DeclBlock("w", SlotType, StructInit(SlotType, Uninitialised, <<>>), {"v"}),
       Set(V("w"), LoadOf(V("v"), SlotType), {"v", "w"}),
       Leaving(<<<<"v", SlotType>>, <<"w", SlotType>>>>)}]]

-----------------------------------------------------------------------------
\* A local, and a field of an object, which HeapProgram treats differently.
SomePlaces  == {Local("x"), At([root |-> "self", path |-> <<>>, slot |-> FALSE], <<1>>)}
MaxTemps    == 2 \* temporaries of one statement
MaxInUse    == 4 \* temporaries and blocks
MaxWord     == 1 \* the length of a string

Steps == INSTANCE HeapProgram
  WITH Places <- SomePlaces, Chars <- {"a"}, Literals <- {<<>>, <<"a">>},
       Tags <- {2}

MCInit ==
  /\ strings = {} /\ enums = {}
  /\ \/ Init /\ scenario # "any"
     \/ /\ Steps!Init
        /\ scenario = "any" /\ "any" \in DOMAIN Scenarios
        /\ declared = {} /\ alive = TRUE

RunProgram == scenario # "any" /\ Next /\ UNCHANGED <<strings, enums>>

TakeStep ==
  /\ scenario = "any" /\ Steps!Next
  /\ mem'.temps <= MaxTemps
  /\ mem'.temps + Cardinality({b \in Blocks : mem'.block[b] # "unused"}) <= MaxInUse
  /\ \A b \in Blocks : Len(mem'.text[b]) <= MaxWord
  /\ UNCHANGED <<scenario, declared, alive>>

MCSpec == MCInit /\ [][RunProgram \/ TakeStep]_<<vars, strings, enums>>

Copies == INSTANCE CopyStore
  WITH texts <- Steps!TextsNow, items <- Steps!ItemsNow, status <- mem.status,
       Places <- SomePlaces, Locals <- Steps!Slots, Literals <- {<<>>, <<"a">>}, Tags <- {2},
       Temporaries <- {TempAddr(n) : n \in 1..MaxTemps}

\* Strings, structs, arrays and enums are values.  Statements have the effect
\* that they have on a store of values (ValueSemantics); and so have the steps
\* in any order, but for the assignment of a field to itself (CopyStore).
AreValues == ValueSemantics /\ Copies!Spec

\* Ownership's type invariant, in its scenarios.
TypesOK == scenario # "any" => TypeOK
=============================================================================
