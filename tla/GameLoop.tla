------------------------------ MODULE GameLoop ------------------------------
(***************************************************************************)
(* A compiled HwarangDo program: the entry function that                   *)
(* generateMain.cpp emits, and the methods it runs against HrdWorld.       *)
(*                                                                         *)
(*   create; Main.init; while running { Main.update; flush }; destroy      *)
(*                                                                         *)
(* Everything runs on one thread.  A method executing world operations     *)
(* (Main.init, Main.update with every method it calls, or the onDestroy of *)
(* the entity the flush is retiring) is a frame.  The program may hold any *)
(* handle it was ever given, and a frame holds the observers its views     *)
(* returned: the language only allows them in local variables.             *)
(***************************************************************************)
EXTENDS HrdWorld

CONSTANTS
  OnDestroySpawns,  \* do onDestroy methods contain world.spawn?
  UninitHandles     \* can the program read an uninitialised handle?

ASSUME ProgramAssumption ==
  /\ OnDestroySpawns \in BOOLEAN
  /\ UninitHandles \in BOOLEAN

VARIABLES
  pc,          \* where the entry function is
  observers,   \* <<o, e>>: the running frame viewed the handle issued for
               \* object o (0: an uninitialised one) and holds object e
  entered      \* history: has the loop body been entered?

loopVars == <<pc, observers, entered>>
vars == <<worldVars, loopVars>>

\* "callback" is inside the onDestroy of entities[cur], "retire" just after
\* it.  "panic" is std::abort with a message, "crash" an invalid access.
Frame   == {"init", "update", "callback"}
Aborted == {"panic", "crash"}
Halted  == Aborted \cup {"exited"}
PC      == Frame \cup Halted \cup {"cond", "flush", "retire", "exit"}

\* The handles in the program's reach, named by the object they stand for.
Held == 1 .. born \cup (IF UninitHandles THEN {0} ELSE {})
HandleOf(o) == IF o = 0 THEN ZeroHandle ELSE issued[o]

\* The world and Main's fields exist; the first frame is Main.init (a Main
\* without init runs a frame with no operation).
Init ==
  /\ WorldInit
  /\ pc = "init"
  /\ observers = {}
  /\ entered = FALSE

-----------------------------------------------------------------------------
\* Operations of the running frame.

Stays == UNCHANGED <<pc, entered>>

Halt(how) ==
  /\ pc' = how
  /\ UNCHANGED <<worldVars, observers, entered>>

\* world.spawn: the object is allocated and its init has run (with operations
\* of its own in the same frame) before spawn_raw gives it a slot.
Spawn ==
  /\ pc \in Frame
  /\ pc = "callback" => OnDestroySpawns
  /\ \E hook \in BOOLEAN : SpawnReuse(hook) \/ SpawnGrow(hook)
  /\ UNCHANGED observers
  /\ Stays

View ==
  /\ pc \in Frame
  /\ \E o \in Held :
       /\ Viewable(HandleOf(o))
       /\ observers' = observers \cup {<<o, ViewRaw(HandleOf(o))>>}
  /\ UNCHANGED worldVars
  /\ Stays

ViewPanics ==
  /\ pc \in Frame
  /\ \E o \in Held : ~Viewable(HandleOf(o))
  /\ Halt("panic")

Destroy ==
  /\ pc \in Frame
  /\ \E o \in Held : DestroyEntityRaw(HandleOf(o))
  /\ UNCHANGED observers
  /\ Stays

DestroyPanics ==
  /\ pc \in Frame
  /\ \E o \in Held : InBounds(HandleOf(o)) /\ ~Destroyable(HandleOf(o))
  /\ Halt("panic")

\* Only the zero handle in an empty world is out of bounds, where the slots
\* are at a null pointer.
DestroyCrashes ==
  /\ pc \in Frame
  /\ \E o \in Held : ~InBounds(HandleOf(o))
  /\ Halt("crash")

Quit ==
  /\ pc \in Frame
  /\ WorldQuit
  /\ UNCHANGED observers
  /\ Stays

-----------------------------------------------------------------------------
\* The entry function and the flush it calls.

\* Mutant: quit ends the loop in the middle, before the flush.
FrameEndQuitsAtOnce ==
  /\ pc \in Frame
  /\ pc' = CASE pc = "init"     -> "cond"
             [] pc = "update"   -> IF running THEN "flush" ELSE "exit"
             [] pc = "callback" -> "retire"
  /\ observers' = {}
  /\ UNCHANGED <<worldVars, entered>>

FrameEnd ==
  /\ pc \in Frame
  /\ pc' = CASE pc = "init"     -> "cond"
             [] pc = "update"   -> "flush"
             [] pc = "callback" -> "retire"
  /\ observers' = {}
  /\ UNCHANGED <<worldVars, entered>>

LoopCond ==
  /\ pc = "cond"
  /\ pc' = IF running THEN "update" ELSE "exit"
  /\ entered' = (entered \/ running)
  /\ UNCHANGED <<worldVars, observers>>

FlushStep ==
  /\ pc = "flush"
  /\ FlushTake
  /\ LET e == entities[cur'].ptr
         hooked == cur' # None /\ entities[cur'].hook
     IN  /\ pc' = IF hooked THEN "callback"
                  ELSE IF cur' # None THEN "retire" ELSE "flush"
         /\ observers' = IF hooked THEN {<<e, e>>} ELSE {}
  /\ UNCHANGED entered

RetireStep ==
  /\ pc = "retire"
  /\ Retire \/ RetireLost
  /\ pc' = "flush"
  /\ UNCHANGED <<observers, entered>>

\* Through a stale reference the flush may also find a destroy pointer that
\* the allocator has overwritten.
RetireCrashes ==
  /\ pc = "retire"
  /\ stale
  /\ Halt("crash")

FlushEnd ==
  /\ pc = "flush"
  /\ FlushClear
  /\ pc' = "cond"
  /\ UNCHANGED <<observers, entered>>

\* Main's fields are destroyed and the world deleted.  Live entities are not
\* visited: their objects stay allocated and their onDestroy does not run.
Exit ==
  /\ pc = "exit"
  /\ pc' = "exited"
  /\ UNCHANGED <<worldVars, observers, entered>>

Stopped == pc \in Halted /\ UNCHANGED vars

Next ==
  \/ Spawn \/ View \/ ViewPanics \/ Destroy \/ DestroyPanics
  \/ DestroyCrashes \/ Quit \/ FrameEnd \/ LoopCond \/ FlushStep
  \/ RetireStep \/ RetireCrashes \/ FlushEnd \/ Exit \/ Stopped

Spec == Init /\ [][Next]_vars

\* One thread: whenever the program can take a step it does.  The program's
\* own methods are assumed to return; the bound on spawned objects also ends
\* a flush whose onDestroy methods keep spawning and destroying.
FairSpec == Spec /\ WF_vars(Next)

-----------------------------------------------------------------------------
\* Type invariant: every variable of the runtime and of the entry function
\* keeps the type its declaration gives it.
TypeOK ==
  /\ running \in BOOLEAN
  /\ entities \in [Index -> Slot]
  /\ size \in 0 .. MaxEntities
  /\ capacity \in Nat
  /\ freeSlots \in Seq(Index)
  /\ destroyQueue \in Seq(Index)
  /\ cursor \in 0 .. Len(destroyQueue)
  /\ cur \in Index \cup {None}
  /\ stale \in BOOLEAN
  /\ born \in 0 .. MaxEntities
  /\ life \in [Entity -> Life]
  /\ issued \in [Entity -> Handle]
  /\ tainted \subseteq Index
  /\ pc \in PC
  /\ observers \subseteq (Entity \cup {0}) \X Entity
  /\ entered \in BOOLEAN

Free   == {freeSlots[k] : k \in 1 .. Len(freeSlots)}
Queued == {destroyQueue[k] : k \in cursor + 1 .. Len(destroyQueue)}

\* Every slot that exists is in exactly one place: occupied, being retired,
\* or on the free list once.  (A slot on the free list twice would be handed
\* to two entities; one on neither list would be lost.)
SlotPartition ==
  /\ \A k, l \in 1 .. Len(freeSlots) : freeSlots[k] = freeSlots[l] => k = l
  /\ \A i \in Index :
       /\ entities[i].alive => i < size
       /\ i \in Free => i < size /\ ~entities[i].alive /\ i # cur
       /\ i < size /\ ~entities[i].alive /\ i # cur => i \in Free
  /\ cur # None => cur < size /\ ~entities[cur].alive

\* A slot is pending exactly while it waits in the unprocessed part of the
\* destroy queue, where it stands once, and only a live entity is pending.
QueueDiscipline ==
  /\ \A k, l \in cursor + 1 .. Len(destroyQueue) :
       destroyQueue[k] = destroyQueue[l] => k = l
  /\ \A i \in Index : entities[i].pending <=> i \in Queued
  /\ \A i \in Index : entities[i].pending => entities[i].alive

\* An occupied slot and its entity agree: the slot's pointer is to an object
\* that is allocated, and was given this very slot and generation.
OccupantAgrees ==
  /\ \A i \in Index : entities[i].alive =>
       /\ entities[i].ptr \in 1 .. born
       /\ life[entities[i].ptr] = "live"
       /\ issued[entities[i].ptr] = [idx |-> i, gen |-> entities[i].gen]
  /\ cur # None =>
       /\ entities[cur].ptr \in 1 .. born
       /\ life[entities[cur].ptr] = "dying"
       /\ issued[entities[cur].ptr].idx = cur
  /\ \A e \in Entity :
       /\ life[e] = "unborn" <=> e > born
       /\ life[e] = "live" => /\ entities[issued[e].idx].alive
                              /\ entities[issued[e].idx].ptr = e
       /\ life[e] = "dying" => cur # None /\ entities[cur].ptr = e

\* The runtime's bookkeeping is sound through every interleaving of frames,
\* callbacks and flush steps, a stale slot reference included.
SlotDiscipline == SlotPartition /\ QueueDiscipline /\ OccupantAgrees

\* A view returns the entity its handle was issued for, and never a later
\* occupant of the slot, unless the slot's generation was not advanced (the
\* flush wrote through a stale reference) or has wrapped.
ViewFidelity ==
  \A v \in observers : v[1] = v[2] \/ HandleOf(v[1]).idx \in tainted

\* No frame holds a pointer to an entity whose memory has been freed: an
\* entity destroyed while it is observed outlives the frame.
ObserversAlive == \A v \in observers : life[v[2]] \in {"live", "dying"}

\* A program that leaves through the main loop leaves no destroy unfinished:
\* every entity whose destroy was accepted has had its onDestroy and is
\* freed before the world is deleted.
ExitDrained ==
  pc \in {"exit", "exited"} /\ entered =>
    /\ destroyQueue = <<>>
    /\ \A i \in Index : ~entities[i].pending

\* The documentation's reading of destroy (docs/grammar.md, 8.10): once an
\* entity is removed, every handle to it is invalid.
RemovedHandlesInvalid ==
  \A e \in 1 .. born : life[e] = "freed" => ~Viewable(issued[e])

\* The documentation's reading of onDestroy (docs/grammar.md, 5.4): it is
\* called for every destroyed entity.
OnDestroyAlwaysRuns ==
  pc = "exited" => \A i \in Index : ~(entities[i].pending /\ entities[i].hook)

\* Entity e's destroy has been accepted and not yet carried out.
Doomed(e) == life[e] = "live" /\ entities[issued[e].idx].pending

\* An accepted destroy is carried out, also when it is requested from the
\* onDestroy of another entity or after quit, unless the process dies or
\* Main.init quits so that the loop is never entered.
DestroyCompletes ==
  \A e \in Entity :
    Doomed(e) ~> \/ life[e] = "freed"
                 \/ pc \in Aborted
                 \/ pc = "exited" /\ ~entered

-----------------------------------------------------------------------------
\* The registry this program shows: the waiting entities are those of the
\* unprocessed queue entries, and an abort is a stop.
DoomedSeq == [k \in 1 .. Len(destroyQueue) - cursor |->
                entities[destroyQueue[cursor + k]].ptr]

Registry == INSTANCE EntityRegistry WITH
  live    <- {e \in 1 .. born : life[e] = "live" /\ ~Doomed(e)},
  doomed  <- DoomedSeq,
  dying   <- IF cur = None THEN 0 ELSE entities[cur].ptr,
  stopped <- pc \in Aborted

\* The runtime implements the registry: a handle means one entity for ever,
\* a second destroy or a view after destroy is refused, and destroyed
\* entities are carried off once each, in the order of the requests.
RegistrySpec == Registry!Spec

=============================================================================
