------------------------------ MODULE CopyStore ------------------------------
(***************************************************************************)
(* What strings and enums promise a program: they are values.  Every name  *)
(* has its own, and a step changes the values of the names it is about and *)
(* no other.  There are no buffers, blocks or pointers here.               *)
(*                                                                         *)
(* In two points they are not as values would be, and this specification   *)
(* says what they are: a temporary is empty when its value has been taken, *)
(* and an object's field or an element that is assigned to itself is lost. *)
(***************************************************************************)
EXTENDS Naturals, Sequences

CONSTANTS Places,      \* the names of variables, fields and elements
          Locals,      \* those that are local variables
          Temporaries, \* the names of what expressions make
          Literals,    \* the texts in the program
          Tags         \* the variants of enums that carry a text

VARIABLES texts,  \* the text of every string in scope
          items,  \* the tag and the text of every enum
          status  \* "running", or "aborted" for want of memory

vars == <<texts, items, status>>

With(f, a, v) == [x \in DOMAIN f \cup {a} |-> IF x = a THEN v ELSE f[x]]
Only(f, A)    == [x \in A |-> f[x]]

EmptyItem == [tag |-> 1, text |-> <<>>]

Strings == DOMAIN texts
Enums   == DOMAIN items
New(A)  == A \ (Strings \cup Enums)

\* The text in an enum can be read as that of a string can.
Readable == {texts[a] : a \in Strings} \cup {items[e].text : e \in {d \in Enums : items[d].tag # 1}}

Values(t, i) == status = "running" /\ texts' = t /\ items' = i /\ UNCHANGED status

Init == texts = << >> /\ items = << >> /\ status = "running"

-----------------------------------------------------------------------------
(* Strings *)

DeclareString(a) == a \in New(Places) /\ Values(With(texts, a, <<>>), items)

MakeString(t, text) == t \in New(Temporaries) /\ Values(With(texts, t, text), items)

CopyString(dst, text) ==
  dst \in Strings \ Temporaries /\ Values(With(texts, dst, text), items)

TakeString(dst, t) ==
  /\ dst \in Strings \ Temporaries /\ t \in Strings \cap Temporaries
  /\ Values(With(With(texts, dst, texts[t]), t, <<>>), items)

LoseString(a) ==
  a \in Strings \ (Temporaries \cup Locals) /\ Values(With(texts, a, <<>>), items)

DestroyString(t) == t \in Strings \cap Temporaries /\ Values(With(texts, t, <<>>), items)

LeaveString(a) == a \in Strings \ Temporaries /\ Values(Only(texts, Strings \ {a}), items)

-----------------------------------------------------------------------------
(* Enums *)

DeclareEnum(a) == a \in New(Places) /\ Values(texts, With(items, a, EmptyItem))

MakeEmpty(t) == t \in New(Temporaries) /\ Values(texts, With(items, t, EmptyItem))

CopyWord(t, tag, text) ==
  t \in New(Temporaries) /\ Values(texts, With(items, t, [tag |-> tag, text |-> text]))

TakeWord(t, tag, s) ==
  /\ t \in New(Temporaries) /\ s \in Strings \cap Temporaries
  /\ Values(With(texts, s, <<>>), With(items, t, [tag |-> tag, text |-> texts[s]]))

CopyEnum(dst, src) ==
  /\ dst \in Enums \ Temporaries /\ src \in Enums \ Temporaries
  /\ Values(texts, With(items, dst, items[src]))

TakeEnum(dst, t) ==
  /\ dst \in Enums \ Temporaries /\ t \in Enums \cap Temporaries
  /\ Values(texts, With(With(items, dst, items[t]), t, EmptyItem))

LoseEnum(a) ==
  a \in Enums \ (Temporaries \cup Locals) /\ Values(texts, With(items, a, EmptyItem))

LeaveEnum(a) == a \in Enums /\ Values(texts, Only(items, Enums \ {a}))

-----------------------------------------------------------------------------
EndStatement == Values(Only(texts, Strings \ Temporaries), Only(items, Enums \ Temporaries))

\* There is no memory for what a step makes, and nothing is left.
Stop == status = "running" /\ status' = "aborted" /\ texts' = << >> /\ items' = << >>

Next ==
  \/ \E a \in Places : DeclareString(a) \/ DeclareEnum(a)
  \/ \E a \in Strings : LoseString(a) \/ DestroyString(a) \/ LeaveString(a)
  \/ \E a \in Enums : LoseEnum(a) \/ LeaveEnum(a)
  \/ \E t \in Temporaries : \/ \E text \in Literals : MakeString(t, text)
                            \/ \E u, v \in Readable : MakeString(t, u \o v)
                            \/ MakeEmpty(t)
  \/ \E t \in Temporaries, tag \in Tags :
        \/ \E text \in Readable : CopyWord(t, tag, text)
        \/ \E s \in Strings : TakeWord(t, tag, s)
  \/ \E dst, t \in Strings : TakeString(dst, t)
  \/ \E dst \in Strings, text \in Readable : CopyString(dst, text)
  \/ \E dst, src \in Enums : CopyEnum(dst, src) \/ TakeEnum(dst, src)
  \/ EndStatement
  \/ Stop

Spec == Init /\ [][Next]_vars
=============================================================================
