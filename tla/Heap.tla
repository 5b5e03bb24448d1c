-------------------------------- MODULE Heap --------------------------------
(***************************************************************************)
(* The memory of compiled code: where its values are, the blocks that      *)
(* enums keep their payloads in, and who owns what.  Ownership executes    *)
(* the statements of methods on it, HeapProgram single steps of any method *)
(* over strings and enums.                                                 *)
(***************************************************************************)
EXTENDS HrdString

VARIABLES mem,  \* the memory
          lost  \* history: blocks a variable had that the last step leaked

TempAddr(n)    == [root |-> "temp", path |-> <<n>>, slot |-> FALSE]
PayloadAddr(b) == [root |-> b, path |-> <<>>, slot |-> FALSE]

NewTemp(m) == TempAddr(m.temps + 1)
Alloca(m)  == [m EXCEPT !.temps = @ + 1]

\* Stack slots and payloads that are gone.
Without(m, A) == [m EXCEPT !.cell = [x \in DOMAIN @ \ A |-> @[x]]]

Drop(m, roots) == Without(m, {x \in DOMAIN m.cell : x.root \in roots})

NoMemory == [cell |-> << >>, block |-> [b \in Blocks |-> "unused"],
             text |-> [b \in Blocks |-> <<>>], temps |-> 0, status |-> "running"]

-----------------------------------------------------------------------------
(* Enums: a tag, and the block of the payload. *)

EmptyEnum == [tag |-> 1, payload |-> Null]

\* The end of a payload, whose parts have been destroyed.
Release(m, b) == Drop(Free(m, b), {b})

EnumMoveAssign(m, dst, src) ==
  Using(m, {src}, Store(Store(m, dst, m.cell[src]), src, EmptyEnum))

-----------------------------------------------------------------------------
(* Properties *)

Pointer(v) == IF "data" \in DOMAIN v THEN v.data
              ELSE IF "payload" \in DOMAIN v THEN v.payload ELSE Null

\* No program frees a block twice, reads a freed one, or follows a pointer that
\* leads nowhere (the copies, moves and destroys of assign.cpp taken together).
NoCorruption == mem.status # "corrupt"

\* Between statements every buffer and every payload block in use has exactly
\* one owner, and every owner's block is live.
SingleOwner ==
  mem.status = "running" =>
    \A a \in DOMAIN mem.cell : Pointer(mem.cell[a]) # Null =>
      /\ mem.block[Pointer(mem.cell[a])] = "live"
      /\ \A b \in DOMAIN mem.cell \ {a} : Pointer(mem.cell[b]) # Pointer(mem.cell[a])

\* What variables and fields own they own until it is freed: only temporaries
\* leak.
OnlyTemporariesLeak == lost = {}
=============================================================================
