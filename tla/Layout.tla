-------------------------------- MODULE Layout --------------------------------
(***************************************************************************)
(* SemanticAnalyzer.cpp, fieldIndexing: the fields of classes and structs  *)
(* are numbered, those of a base before those of the types derived from    *)
(* it, in whatever order the types were registered.  The recursive calls   *)
(* for the bases are a stack; a step is a call or the numbering of the     *)
(* type on top.                                                            *)
(***************************************************************************)
EXTENDS Naturals, Sequences

VARIABLES
  symbols,     \* the linked types: kind, base, fields
  registered,  \* SymbolTable.types, the order in which the loop takes them
  turn,        \* the next of them
  visiting,    \* the types whose fieldIndexing has not returned, the last on top
  layoutState, \* "Visiting" or "Done" for those that have been entered
  fieldCount,  \* for those Done
  fieldIndex,  \* for the fields that have been numbered
  cyclic       \* has a cycle been found, which ends the compilation?

linked == <<symbols, registered>>
layout == <<linked, turn, visiting, layoutState, fieldCount, fieldIndex, cyclic>>

nullptr == <<>>

Laid == {c \in DOMAIN symbols : symbols[c].kind \in {"CLASS", "STRUCT"}}
BaseOf(c) == symbols[c].base
HasBase(c) == BaseOf(c) # nullptr

\* A map after insertions: @@ of module TLC, which has no proofs.
With(map, added) ==
  [k \in DOMAIN map \cup DOMAIN added |-> IF k \in DOMAIN added THEN added[k] ELSE map[k]]

Listed(s) == {s[i] : i \in DOMAIN s}
FieldsOf(c) == Listed(symbols[c].fields)
Is(c, state) == c \in DOMAIN layoutState /\ layoutState[c] = state

LayoutInit ==
  /\ turn = 1 /\ visiting = <<>>
  /\ layoutState = <<>> /\ fieldCount = <<>> /\ fieldIndex = <<>>
  /\ cyclic = FALSE

-----------------------------------------------------------------------------
\* A call for a type that is not Done: it is entered, or seen to be its own base.
EnterType(c) ==
  IF Is(c, "Visiting")
  THEN cyclic' = TRUE /\ UNCHANGED <<linked, turn, visiting, layoutState, fieldCount, fieldIndex>>
  ELSE /\ layoutState' = With(layoutState, [t \in {c} |-> "Visiting"])
       /\ visiting' = Append(visiting, c)
       /\ UNCHANGED <<linked, turn, fieldCount, fieldIndex, cyclic>>

\* The loop over the types: it calls for the next, or goes on if it is Done.
VisitType ==
  /\ visiting = <<>> /\ ~cyclic /\ turn <= Len(registered)
  /\ registered[turn] \in Laid /\ ~Is(registered[turn], "Done")
  /\ EnterType(registered[turn])

SkipType ==
  /\ visiting = <<>> /\ ~cyclic /\ turn <= Len(registered)
  /\ registered[turn] \in Laid => Is(registered[turn], "Done")
  /\ turn' = turn + 1
  /\ UNCHANGED <<linked, visiting, layoutState, fieldCount, fieldIndex, cyclic>>

Top == visiting[Len(visiting)]

\* The type on top calls for its base.  That is a class (Linker.cpp:161), so that
\* it is Done when the call returns, and the return after it is never taken.
VisitBase ==
  /\ visiting # <<>> /\ ~cyclic
  /\ HasBase(Top) /\ ~Is(BaseOf(Top), "Done")
  /\ EnterType(BaseOf(Top))

\* Mutant: the fields of every type are counted from its own first one.
FirstAlone(c) == 0

First(c) == IF HasBase(c) THEN fieldCount[BaseOf(c)] ELSE 0
Numbers(c) ==
  LET fields == symbols[c].fields
  IN [f \in FieldsOf(c) |-> First(c) + (CHOOSE i \in DOMAIN fields : fields[i] = f) - 1]

\* Mutant: the type on top is left as it was entered.
NumberOnly ==
  /\ visiting # <<>> /\ ~cyclic
  /\ HasBase(Top) => Is(BaseOf(Top), "Done")
  /\ fieldIndex' = With(fieldIndex, Numbers(Top))
  /\ fieldCount' = With(fieldCount, [t \in {Top} |-> First(Top) + Len(symbols[Top].fields)])
  /\ visiting' = SubSeq(visiting, 1, Len(visiting) - 1)
  /\ UNCHANGED <<linked, turn, layoutState, cyclic>>

\* The base is Done, or there is none: the type's own fields follow.
NumberFields ==
  /\ visiting # <<>> /\ ~cyclic
  /\ HasBase(Top) => Is(BaseOf(Top), "Done")
  /\ fieldIndex' = With(fieldIndex, Numbers(Top))
  /\ fieldCount' = With(fieldCount, [t \in {Top} |-> First(Top) + Len(symbols[Top].fields)])
  /\ layoutState' = [layoutState EXCEPT ![Top] = "Done"]
  /\ visiting' = SubSeq(visiting, 1, Len(visiting) - 1)
  /\ UNCHANGED <<linked, turn, cyclic>>

Laying == VisitType \/ SkipType \/ VisitBase \/ NumberFields

LaidOut == visiting = <<>> /\ turn > Len(registered)

-----------------------------------------------------------------------------
(* Properties *)

\* What the Builder and the Linker hand over: every class and struct is
\* registered, a base is a class, and a field stands in one type only, once
\* (SymbolTable.cpp:142-199, Linker.cpp:156-167).
Linked ==
  /\ registered \in Seq(Listed(registered))
  /\ Laid \subseteq Listed(registered)
  /\ \A c \in Laid : HasBase(c) => BaseOf(c) \in Laid
  /\ \A c \in Laid : symbols[c].fields \in Seq(FieldsOf(c))
  /\ \A c, d \in Laid : \A i \in DOMAIN symbols[c].fields, k \in DOMAIN symbols[d].fields :
       symbols[c].fields[i] = symbols[d].fields[k] => c = d /\ i = k

LayoutSpec == LayoutInit /\ Linked /\ [][Laying]_layout

\* A type, its base, the base of that, and so on.
Closed(S) == \A c \in S : HasBase(c) => BaseOf(c) \in S
Family(type) == {c \in Laid : \A S \in SUBSET Laid : type \in S /\ Closed(S) => c \in S}
AllFields(type) == UNION {FieldsOf(c) : c \in Family(type)}

\* When a type is done, its fields and those of all its bases are numbered from
\* 0 on without a gap and none twice, in every type of a chain: an object begins
\* with the object of its base.  They never change after that, and no type is
\* its own base (SemanticAnalyzer.cpp:61-96).
LayoutByInheritance ==
  [][\A type \in DOMAIN fieldCount' :
       /\ {fieldIndex'[f] : f \in AllFields(type)} = 0..(fieldCount'[type] - 1)
       /\ \A f, g \in AllFields(type) : fieldIndex'[f] = fieldIndex'[g] => f = g
       /\ HasBase(type) => type \notin Family(BaseOf(type))
       /\ type \in DOMAIN fieldCount =>
            \A f \in AllFields(type) : fieldIndex'[f] = fieldIndex[f]]_layout

\* A program is refused here only if a type is its own base, at some remove; and
\* if it is not refused, no class or struct is left without numbers
\* (SemanticAnalyzer.cpp:40-42, 68-83).
RefusedForCycles ==
  /\ cyclic => \E c \in Laid : HasBase(c) /\ c \in Family(BaseOf(c))
  /\ LaidOut => DOMAIN fieldCount = Laid
=============================================================================
