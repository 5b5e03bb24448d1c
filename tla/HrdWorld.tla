------------------------------ MODULE HrdWorld ------------------------------
(***************************************************************************)
(* The entity world of the HwarangDo runtime                               *)
(* (src/runtime/world/hrd_runtime_world.cpp, hrd_runtime.h).               *)
(*                                                                         *)
(* Entities live in a vector of slots.  A handle is a slot index and the   *)
(* generation the slot had when the handle was issued; retiring an entity  *)
(* increments the generation, so that older handles stop matching.  Free   *)
(* slots are reused last-in first-out.  A destroy is only recorded: the    *)
(* flush at the end of a frame retires the recorded slots in order, and    *)
(* runs each entity's onDestroy, which may call back into the world.       *)
(*                                                                         *)
(* This module has the operations; GameLoop says who calls them and when.  *)
(***************************************************************************)
EXTENDS Naturals, Sequences

CONSTANTS
  MaxEntities,   \* bound on the objects a run ever spawns
  GenMod         \* the generation counter counts modulo GenMod (2^32)

ASSUME WorldAssumption ==
  /\ MaxEntities \in Nat \ {0}
  /\ GenMod \in Nat \ {0, 1}

VARIABLES
  running,       \* HrdWorld::running
  entities,      \* HrdWorld::entities, the slots
  size,          \* entities.size(): the slots from size on do not exist yet
  capacity,      \* entities.capacity()
  freeSlots,     \* HrdWorld::freeSlots, the back is the last element
  destroyQueue,  \* HrdWorld::destroyQueue
  cursor,        \* the flush's position in destroyQueue
  cur,           \* the slot the flush is retiring, or None
  stale,         \* has a push_back moved the slots since the flush took
                 \* its reference to entities[cur]?
  born,          \* how many objects have been spawned
  life,          \* what has become of each object's memory
  issued,        \* the handle each object's spawn returned
  tainted        \* history: slots whose generation no longer tells one
                 \* occupant from the next

worldVars == <<running, entities, size, capacity, freeSlots, destroyQueue,
               cursor, cur, stale, born, life, issued, tainted>>

Entity == 1 .. MaxEntities
Index  == 0 .. MaxEntities - 1

Null == 0                 \* a null object pointer
None == MaxEntities       \* no slot

\* A handle is an index and a generation packed into 64 bits; packing and
\* unpacking lose nothing, so it is a record.  Zero-initialised memory read
\* as a handle is ZeroHandle.
Handle     == [idx : Index, gen : 0 .. GenMod - 1]
ZeroHandle == [idx |-> 0, gen |-> 0]

\* Objects are numbered in the order they are spawned.  "live" is allocated,
\* "dying" is taken out of its slot by the flush and not yet freed.
Life == {"unborn", "live", "dying", "freed"}

Slot == [ptr : Entity \cup {Null}, hook : BOOLEAN, alive : BOOLEAN,
         pending : BOOLEAN, gen : 0 .. GenMod - 1]

\* HrdEntitySlot's member initialisers.
BlankSlot == [ptr |-> Null, hook |-> FALSE, alive |-> FALSE,
              pending |-> FALSE, gen |-> 1]

-----------------------------------------------------------------------------

\* hrd_world_create.
WorldInit ==
  /\ running = TRUE
  /\ entities = [i \in Index |-> BlankSlot]
  /\ size = 0
  /\ capacity = 0
  /\ freeSlots = <<>>
  /\ destroyQueue = <<>>
  /\ cursor = 0
  /\ cur = None
  /\ stale = FALSE
  /\ born = 0
  /\ life = [e \in Entity |-> "unborn"]
  /\ issued = [e \in Entity |-> ZeroHandle]
  /\ tainted = {}

-----------------------------------------------------------------------------
\* hrd_world_spawn_raw, called with a freshly allocated and initialised
\* object.  hook says whether the object's class declares onDestroy.

Occupy(i, g, hook) ==
  /\ entities' = [entities EXCEPT ![i] =
        [ptr |-> born + 1, hook |-> hook, alive |-> TRUE,
         pending |-> FALSE, gen |-> g]]
  /\ born' = born + 1
  /\ life' = [life EXCEPT ![born + 1] = "live"]
  /\ issued' = [issued EXCEPT ![born + 1] = [idx |-> i, gen |-> g]]

SpawnReuse(hook) ==
  /\ born < MaxEntities
  /\ freeSlots # <<>>
  /\ LET i == freeSlots[Len(freeSlots)]
     IN  Occupy(i, entities[i].gen, hook)
  /\ freeSlots' = SubSeq(freeSlots, 1, Len(freeSlots) - 1)
  /\ UNCHANGED <<running, size, capacity, destroyQueue, cursor, cur, stale,
                 tainted>>

\* push_back moves the slots when the vector is full; a reference taken
\* before then points into the block that was released.
Reallocates == size = capacity

SpawnGrow(hook) ==
  /\ born < MaxEntities
  /\ freeSlots = <<>>
  /\ Occupy(size, 1, hook)
  /\ size' = size + 1
  /\ capacity' = IF ~Reallocates THEN capacity
                 ELSE IF capacity = 0 THEN 1 ELSE 2 * capacity
  /\ stale' = (stale \/ (Reallocates /\ cur # None))
  /\ UNCHANGED <<running, freeSlots, destroyQueue, cursor, cur, tainted>>

-----------------------------------------------------------------------------
\* hrd_world_view_raw and hrd_world_destroy_entity_raw.

InBounds(h) == h.idx < size

\* Mutant: any generation will do.
MatchesAnyGeneration(h) == entities[h.idx].alive

Matches(h) ==
  /\ entities[h.idx].alive
  /\ entities[h.idx].gen = h.gen

\* The three tests of view_raw; what fails one of them is a panic.
Viewable(h) ==
  /\ InBounds(h)
  /\ Matches(h)
  /\ ~entities[h.idx].pending

ViewRaw(h) == entities[h.idx].ptr

\* Mutant: a pending entity may be destroyed again.
DestroyableTwice(h) == Matches(h)

\* destroy_entity_raw reads the slot without a bounds test.
Destroyable(h) == Matches(h) /\ ~entities[h.idx].pending

DestroyEntityRaw(h) ==
  /\ InBounds(h)
  /\ Destroyable(h)
  /\ entities' = [entities EXCEPT ![h.idx].pending = TRUE]
  /\ destroyQueue' = Append(destroyQueue, h.idx)
  /\ UNCHANGED <<running, size, capacity, freeSlots, cursor, cur, stale,
                 born, life, issued, tainted>>

\* hrd_world_quit.
WorldQuit ==
  /\ running' = FALSE
  /\ UNCHANGED <<entities, size, capacity, freeSlots, destroyQueue, cursor,
                 cur, stale, born, life, issued, tainted>>

-----------------------------------------------------------------------------
\* hrd_world_flush_destroy, cut where it calls the entity's onDestroy.

\* Mutant: the object is freed before its onDestroy runs.
FlushTakeFreesFirst ==
  /\ cursor < Len(destroyQueue)
  /\ cursor' = cursor + 1
  /\ cur' = destroyQueue[cursor + 1]
  /\ entities' = [entities EXCEPT ![cur'].pending = FALSE,
                                  ![cur'].alive = FALSE]
  /\ life' = [life EXCEPT ![entities[cur'].ptr] = "freed"]
  /\ stale' = FALSE
  /\ UNCHANGED <<running, size, capacity, freeSlots, destroyQueue, born,
                 issued, tainted>>

\* The head of the loop: skip an entry that is no longer pending, else take
\* the slot's entity out of the world and keep a reference to the slot.
FlushTake ==
  /\ cursor < Len(destroyQueue)
  /\ cursor' = cursor + 1
  /\ LET i == destroyQueue[cursor + 1]
     IN  IF entities[i].pending
         THEN /\ entities' = [entities EXCEPT ![i].pending = FALSE,
                                              ![i].alive = FALSE]
              /\ life' = [life EXCEPT ![entities[i].ptr] = "dying"]
              /\ cur' = i
         ELSE UNCHANGED <<entities, life, cur>>
  /\ stale' = FALSE
  /\ UNCHANGED <<running, size, capacity, freeSlots, destroyQueue, born,
                 issued, tainted>>

\* ++generation, in an unsigned integer.
Incr(g) == IF g + 1 = GenMod THEN 0 ELSE g + 1

\* Mutant: the slot keeps its generation.
VacatedSameGeneration(slot) == [slot EXCEPT !.ptr = Null, !.hook = FALSE]

\* The slot's object is gone and handles to it are outdated.
Vacated(slot) == [slot EXCEPT !.ptr = Null, !.hook = FALSE, !.gen = Incr(@)]

\* After onDestroy: destroy the fields, free the object, clear the slot,
\* advance its generation and free it for reuse.
Retire ==
  /\ cur # None
  /\ ~stale
  /\ life' = [life EXCEPT ![entities[cur].ptr] = "freed"]
  /\ entities' = [entities EXCEPT ![cur] = Vacated(@)]
  /\ tainted' = IF Incr(entities[cur].gen) = 0
                THEN tainted \cup {cur} ELSE tainted
  /\ freeSlots' = Append(freeSlots, cur)
  /\ cur' = None
  /\ UNCHANGED <<running, size, capacity, destroyQueue, cursor, stale, born,
                 issued>>

\* The same code through a reference into the released block: the object is
\* freed and the index is pushed, and the writes never reach the slot.
RetireLost ==
  /\ cur # None
  /\ stale
  /\ life' = [life EXCEPT ![entities[cur].ptr] = "freed"]
  /\ tainted' = tainted \cup {cur}
  /\ freeSlots' = Append(freeSlots, cur)
  /\ cur' = None
  /\ stale' = FALSE
  /\ UNCHANGED <<running, entities, size, capacity, destroyQueue, cursor,
                 born, issued>>

\* Mutant: the queue is cleared with entries unprocessed.
FlushClearEarly ==
  /\ destroyQueue' = <<>>
  /\ cursor' = 0
  /\ UNCHANGED <<running, entities, size, capacity, freeSlots, cur, stale,
                 born, life, issued, tainted>>

\* Mutant: the next flush starts where this one ended.
FlushClearKeepsCursor ==
  /\ cursor = Len(destroyQueue)
  /\ destroyQueue' = <<>>
  /\ UNCHANGED <<running, entities, size, capacity, freeSlots, cursor, cur,
                 stale, born, life, issued, tainted>>

FlushClear ==
  /\ cursor = Len(destroyQueue)
  /\ destroyQueue' = <<>>
  /\ cursor' = 0
  /\ UNCHANGED <<running, entities, size, capacity, freeSlots, cur, stale,
                 born, life, issued, tainted>>

=============================================================================
