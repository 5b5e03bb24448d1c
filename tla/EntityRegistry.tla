--------------------------- MODULE EntityRegistry ---------------------------
(***************************************************************************)
(* What the world promises a program, with no slots, generations or free   *)
(* list: a handle IS the entity it was issued for, forever.                *)
(*                                                                         *)
(* A live entity can be viewed, and destroyed once.  Destroyed entities    *)
(* are carried off one at a time in the order of the requests: each is     *)
(* dying while its onDestroy runs, and is then gone.  A use of a handle    *)
(* whose entity is not live stops the program.                             *)
(***************************************************************************)
EXTENDS Naturals, Sequences

CONSTANT MaxEntities

VARIABLES
  born,       \* entities are numbered in the order they are spawned
  live,       \* those that can be viewed and destroyed
  doomed,     \* destroyed and waiting, in the order of the requests
  dying,      \* the entity being carried off, or 0
  observers,  \* <<o, e>>: the frame viewed handle o and holds entity e
  stopped     \* has the program misused a handle?

vars == <<born, live, doomed, dying, observers, stopped>>

Init ==
  /\ born = 0
  /\ live = {}
  /\ doomed = <<>>
  /\ dying = 0
  /\ observers = {}
  /\ stopped = FALSE

Spawn ==
  /\ born < MaxEntities
  /\ born' = born + 1
  /\ live' = live \cup {born + 1}
  /\ UNCHANGED <<doomed, dying, observers, stopped>>

View(e) ==
  /\ e \in live
  /\ observers' = observers \cup {<<e, e>>}
  /\ UNCHANGED <<born, live, doomed, dying, stopped>>

Destroy(e) ==
  /\ e \in live
  /\ live' = live \ {e}
  /\ doomed' = Append(doomed, e)
  /\ UNCHANGED <<born, dying, observers, stopped>>

\* Handle 0 stands for a handle that was never given a value.
Misuse ==
  /\ \E o \in 0 .. born : o \notin live
  /\ stopped' = TRUE
  /\ UNCHANGED <<born, live, doomed, dying, observers>>

FrameEnd ==
  /\ observers' = {}
  /\ UNCHANGED <<born, live, doomed, dying, stopped>>

\* onDestroy may look at its own entity.
CarryOff ==
  /\ dying = 0
  /\ doomed # <<>>
  /\ dying' = Head(doomed)
  /\ doomed' = Tail(doomed)
  /\ observers' \in {{}, {<<dying', dying'>>}}
  /\ UNCHANGED <<born, live, stopped>>

\* Nobody holds a pointer to an entity that goes away.
Forget ==
  /\ dying # 0
  /\ observers = {}
  /\ dying' = 0
  /\ UNCHANGED <<born, live, doomed, observers, stopped>>

Next ==
  /\ ~stopped
  /\ \/ Spawn
     \/ \E e \in live : View(e) \/ Destroy(e)
     \/ Misuse
     \/ FrameEnd
     \/ CarryOff
     \/ Forget

Spec == Init /\ [][Next]_vars

=============================================================================
