--------------------------- MODULE GameLoopProofs ---------------------------
(***************************************************************************)
(* Theorems about GameLoop, for every bound on the objects, every width of *)
(* the generation counter and every kind of program.                       *)
(*                                                                         *)
(* None of the invariants is inductive alone: the slot reused by a spawn   *)
(* is dead because it is on the free list, the slot taken by the flush has *)
(* an occupant because it is in the queue, and so on.  IInv is the         *)
(* conjunction that is, with the facts about the entry function's position *)
(* (Position) and about the slots and the generations that handles were    *)
(* issued with (HandlesIssued).                                            *)
(*                                                                         *)
(* At the end, the runtime implements EntityRegistry: a handle means its   *)
(* entity for ever and nothing else, as long as the generations do not     *)
(* wrap and no onDestroy spawns.  What IInv leaves open is whether a slot  *)
(* can be tainted.  It cannot: nothing but a spawn moves the slots, so     *)
(* that no reference of the flush goes stale, and a slot cannot have had   *)
(* more generations than there have been spawns.                           *)
(***************************************************************************)
EXTENDS GameLoop, SequenceTheorems, TLAPS

\* The flush holds a slot exactly between its onDestroy and its retirement,
\* only a running frame (or one that was killed) holds observers, which it
\* viewed through handles of spawned objects, and every slot was created by a
\* spawn.
Position ==
  /\ pc \in {"callback", "retire"} => cur # None
  /\ pc \notin {"callback", "retire", "panic", "crash"} => cur = None
  /\ pc \notin Frame \cup Aborted => observers = {}
  /\ \A v \in observers : v[1] \in 0 .. born
  /\ size <= born

\* The destroy queue is empty between two turns of the loop.
LoopDrained ==
  /\ pc = "init" => ~entered
  /\ pc \in {"cond", "exit", "exited"} /\ entered => destroyQueue = <<>>

\* A handle's slot exists, and in a slot whose generations still tell the
\* occupants apart a handle is never newer than the slot, and current only
\* while its own entity is in the slot.
HandlesIssued ==
  /\ \A i \in Index \ tainted :
       /\ entities[i].gen # 0
       /\ i \in Free => entities[i].ptr = Null
  /\ \A e \in 1 .. born :
       LET i == issued[e].idx
       IN  /\ i < size
           /\ i \notin tainted =>
                /\ issued[e].gen # 0
                /\ issued[e].gen <= entities[i].gen
                /\ issued[e].gen = entities[i].gen => entities[i].ptr = e

IInv ==
  /\ TypeOK
  /\ SlotDiscipline
  /\ Position
  /\ LoopDrained
  /\ HandlesIssued
  /\ ViewFidelity
  /\ ObserversAlive

-----------------------------------------------------------------------------

LEMMA InitIInv == Init => IInv
<1> SUFFICES ASSUME Init PROVE IInv
  OBVIOUS
<1> USE WorldAssumption DEF Init, WorldInit
<1>1. TypeOK
  <2>1. BlankSlot \in Slot /\ ZeroHandle \in Handle
    BY DEF BlankSlot, Slot, Null, Entity, ZeroHandle, Handle, Index
  <2>2. entities \in [Index -> Slot] /\ issued \in [Entity -> Handle]
    BY <2>1
  <2>3. life \in [Entity -> Life] /\ pc \in PC
    BY DEF Life, PC, Frame
  <2>4. freeSlots \in Seq(Index) /\ destroyQueue \in Seq(Index) /\ Len(destroyQueue) = 0
    OBVIOUS
  <2>5. size \in 0 .. MaxEntities /\ born \in 0 .. MaxEntities /\ capacity \in Nat
    OBVIOUS
  <2>6. cursor \in 0 .. Len(destroyQueue)
    BY <2>4
  <2>7. tainted \subseteq Index /\ observers \subseteq (Entity \cup {0}) \X Entity
    OBVIOUS
  <2>8. running \in BOOLEAN /\ stale \in BOOLEAN /\ entered \in BOOLEAN
    OBVIOUS
  <2> QED
    BY <2>2, <2>3, <2>4, <2>5, <2>6, <2>7, <2>8 DEF TypeOK
<1>2. SlotPartition
  BY DEF SlotPartition, Free, Index, BlankSlot, None
<1>3. QueueDiscipline
  BY DEF QueueDiscipline, Queued, BlankSlot
<1>4. OccupantAgrees
  BY DEF OccupantAgrees, BlankSlot, Entity, None
<1>5. Position
  BY DEF Position, Frame, Aborted
<1>6. HandlesIssued
  BY DEF HandlesIssued, Free, BlankSlot, Null
<1> QED
  BY <1>1, <1>2, <1>3, <1>4, <1>5, <1>6
     DEF IInv, SlotDiscipline, LoopDrained, ViewFidelity, ObserversAlive

\* A step that leaves the slots, the queue and the objects alone leaves the
\* bookkeeping alone.
LEMMA WorldUnchanged ==
  ASSUME IInv,
         UNCHANGED <<entities, size, freeSlots, destroyQueue, cursor, cur, born,
                     life, issued, tainted>>
  PROVE  SlotDiscipline' /\ HandlesIssued'
<1> USE DEF IInv
<1>1. SlotPartition'
  BY DEF SlotDiscipline, SlotPartition, Free
<1>2. QueueDiscipline'
  BY DEF SlotDiscipline, QueueDiscipline, Queued
<1>3. OccupantAgrees'
  BY DEF SlotDiscipline, OccupantAgrees
<1>4. HandlesIssued'
  BY DEF HandlesIssued, Free
<1> QED
  BY <1>1, <1>2, <1>3, <1>4 DEF SlotDiscipline

-----------------------------------------------------------------------------
(***************************************************************************)
(* Spawning.                                                               *)
(***************************************************************************)

\* What pop_back leaves of a sequence.
LEMMA PopBack ==
  ASSUME NEW S, NEW s \in Seq(S), s # <<>>
  PROVE  LET f == SubSeq(s, 1, Len(s) - 1)
         IN  /\ Len(s) \in Nat \ {0}
             /\ s[Len(s)] \in S
             /\ f \in Seq(S)
             /\ Len(f) = Len(s) - 1
             /\ \A k \in 1 .. Len(s) - 1 : f[k] = s[k]
<1>1. Len(s) \in Nat \ {0}
  OBVIOUS
<1>2. s[Len(s)] \in S
  BY <1>1
<1>3. \A k \in 1 .. Len(s) - 1 : s[k] \in S
  BY <1>1
<1> DEFINE m == Len(s) - 1
           f == SubSeq(s, 1, m)
<1>4. m \in Nat /\ \A k \in 1 .. m : s[k] \in S
  BY <1>1, <1>3
<1> HIDE DEF m
<1>5. f \in Seq(S)
  BY <1>4, SubSeqProperties
<1>6. Len(f) = m
  BY <1>4
<1>7. \A k \in 1 .. m : f[k] = s[k]
  BY <1>4
<1> QED
  BY <1>1, <1>2, <1>5, <1>6, <1>7 DEF m

\* What push_back makes of a sequence.
LEMMA PushBack ==
  ASSUME NEW S, NEW s \in Seq(S), NEW x \in S
  PROVE  LET a == Append(s, x)
         IN  /\ Len(s) \in Nat
             /\ a \in Seq(S)
             /\ Len(a) = Len(s) + 1
             /\ a[Len(s) + 1] = x
             /\ \A k \in 1 .. Len(s) : a[k] = s[k]
OBVIOUS

LEMMA SpawnReuseFacts ==
  ASSUME IInv, NEW hook \in BOOLEAN, SpawnReuse(hook)
  PROVE  \E i \in Index :
           /\ i \in Free /\ i < size /\ ~entities[i].alive /\ i # cur
           /\ Occupy(i, entities[i].gen, hook)
           /\ entities[i].gen \in 0 .. GenMod - 1
           /\ freeSlots' \in Seq(Index)
           /\ Free' = Free \ {i}
           /\ \A k, l \in 1 .. Len(freeSlots') :
                freeSlots'[k] = freeSlots'[l] => k = l
<1> DEFINE n == Len(freeSlots)
           i == freeSlots[n]
<1>1. freeSlots \in Seq(Index) /\ freeSlots # <<>>
  BY DEF IInv, TypeOK, SpawnReuse
<1>2. /\ n \in Nat \ {0}
      /\ i \in Index
      /\ freeSlots' \in Seq(Index)
      /\ Len(freeSlots') = n - 1
      /\ \A k \in 1 .. n - 1 : freeSlots'[k] = freeSlots[k]
  BY <1>1, PopBack DEF SpawnReuse
<1>3. i \in Free
  BY <1>2 DEF Free
<1>4. i < size /\ ~entities[i].alive /\ i # cur
  BY <1>2, <1>3 DEF IInv, SlotDiscipline, SlotPartition
<1>5. \A k, l \in 1 .. n : freeSlots[k] = freeSlots[l] => k = l
  BY DEF IInv, SlotDiscipline, SlotPartition
<1>6. \A k, l \in 1 .. Len(freeSlots') : freeSlots'[k] = freeSlots'[l] => k = l
  BY <1>2, <1>5
<1>7. Free' = Free \ {i}
  BY <1>2, <1>5 DEF Free
<1>8. Occupy(i, entities[i].gen, hook) /\ entities[i].gen \in 0 .. GenMod - 1
  BY <1>2 DEF SpawnReuse, IInv, TypeOK, Slot
<1> QED
  BY <1>2, <1>3, <1>4, <1>6, <1>7, <1>8

\* Both ways of spawning keep the invariant: what they have in common is that
\* the slot is vacant, not held by the flush, and of a generation that no
\* handle into it has.
LEMMA OccupyIInv ==
  ASSUME IInv, pc \in Frame, UNCHANGED loopVars,
         NEW i \in Index, NEW g \in 0 .. GenMod - 1, NEW hook \in BOOLEAN,
         born < MaxEntities, Occupy(i, g, hook),
         ~entities[i].alive, i # cur, i < size',
         size' \in 0 .. MaxEntities, size' <= born', capacity' \in Nat,
         size <= size', \A j \in Index : j < size' => j < size \/ j = i,
         freeSlots' \in Seq(Index), Free' = Free \ {i},
         \A k, l \in 1 .. Len(freeSlots') :
           freeSlots'[k] = freeSlots'[l] => k = l,
         stale' \in BOOLEAN,
         UNCHANGED <<running, destroyQueue, cursor, cur, tainted>>,
         i \notin tainted =>
           /\ g # 0
           /\ \A e \in 1 .. born : issued[e].idx = i => issued[e].gen < g
  PROVE  IInv'
<1> USE WorldAssumption DEF IInv
<1> DEFINE e0 == born + 1
<1> DEFINE occupant == [ptr |-> e0, hook |-> hook, alive |-> TRUE,
                        pending |-> FALSE, gen |-> g]
           handle == [idx |-> i, gen |-> g]
<1>0. TypeOK /\ e0 \in Entity
  BY DEF TypeOK, Entity
<1>1. /\ e0 \in Entity
      /\ entities' \in [Index -> Slot]
      /\ life' \in [Entity -> Life]
      /\ issued' \in [Entity -> Handle]
      /\ born' \in 0 .. MaxEntities
  <2>1. occupant \in Slot /\ handle \in Handle
    BY <1>0 DEF Slot, Handle
  <2>2. "live" \in Life
    BY DEF Life
  <2> QED
    BY <1>0, <2>1, <2>2 DEF TypeOK, Occupy
<1>2. /\ entities'[i] = occupant
      /\ \A j \in Index \ {i} : entities'[j] = entities[j]
  BY <1>0 DEF TypeOK, Occupy
<1>3. /\ life'[e0] = "live"
      /\ \A e \in Entity \ {e0} : life'[e] = life[e]
      /\ issued'[e0] = handle
      /\ \A e \in Entity \ {e0} : issued'[e] = issued[e]
  BY <1>0 DEF TypeOK, Occupy
<1>4. /\ born \in Nat /\ born' = e0 /\ 1 .. born \subseteq Entity
      /\ 1 .. born' = 1 .. born \cup {e0}
      /\ e0 \notin 1 .. born
  BY DEF TypeOK, Occupy, Entity
<1>5. TypeOK'
  <2>1. cursor' \in 0 .. Len(destroyQueue') /\ destroyQueue' \in Seq(Index)
    BY DEF TypeOK
  <2>2. pc' \in PC /\ observers' \subseteq (Entity \cup {0}) \X Entity
        /\ entered' \in BOOLEAN
    BY DEF TypeOK, loopVars
  <2>3. cur' \in Index \cup {None} /\ tainted' \subseteq Index
        /\ running' \in BOOLEAN
    BY DEF TypeOK
  <2> QED
    BY <1>1, <2>1, <2>2, <2>3 DEF TypeOK
<1>6. SlotPartition'
  <2>1. \A j \in Index : entities'[j].alive => j < size'
    BY <1>2 DEF SlotDiscipline, SlotPartition, TypeOK, Index
  <2>2. \A j \in Index : j \in Free' => j < size' /\ ~entities'[j].alive /\ j # cur'
    BY <1>2 DEF SlotDiscipline, SlotPartition, TypeOK, Index
  <2>3. \A j \in Index : j < size' /\ ~entities'[j].alive /\ j # cur' => j \in Free'
    BY <1>2 DEF SlotDiscipline, SlotPartition
  <2>4. ASSUME cur' # None
        PROVE  cur' < size' /\ ~entities'[cur'].alive
    <3>1. cur' = cur /\ cur \in Index \ {i} /\ cur < size /\ ~entities[cur].alive
      BY <2>4 DEF TypeOK, SlotDiscipline, SlotPartition
    <3> QED
      BY <1>2, <3>1 DEF TypeOK, Index
  <2> QED
    BY <2>1, <2>2, <2>3, <2>4 DEF SlotPartition
<1>7. QueueDiscipline'
  <2>1. ~entities[i].pending
    BY DEF SlotDiscipline, QueueDiscipline
  <2>2. Queued' = Queued
    BY DEF Queued
  <2>3. \A j \in Index : entities'[j].pending <=> entities[j].pending
    BY <1>2, <2>1
  <2>4. \A j \in Index : entities'[j].pending => entities'[j].alive
    BY <1>2, <2>3 DEF SlotDiscipline, QueueDiscipline
  <2> QED
    BY <2>2, <2>3, <2>4 DEF SlotDiscipline, QueueDiscipline
<1>8. OccupantAgrees'
  <2>1. ASSUME NEW j \in Index, entities'[j].alive
        PROVE  /\ entities'[j].ptr \in 1 .. born'
               /\ life'[entities'[j].ptr] = "live"
               /\ issued'[entities'[j].ptr] = [idx |-> j, gen |-> entities'[j].gen]
    <3>1. CASE j = i
      BY <1>2, <1>3, <1>4, <3>1
    <3>2. CASE j # i
      <4>1. entities'[j] = entities[j] /\ entities[j].alive
        BY <1>2, <2>1, <3>2
      <4>2. /\ entities[j].ptr \in 1 .. born
            /\ life[entities[j].ptr] = "live"
            /\ issued[entities[j].ptr] = [idx |-> j, gen |-> entities[j].gen]
        BY <4>1 DEF SlotDiscipline, OccupantAgrees
      <4>3. entities[j].ptr \in Entity \ {e0}
        BY <1>4, <4>2
      <4> QED
        BY <1>3, <1>4, <4>1, <4>2, <4>3
    <3> QED
      BY <3>1, <3>2
  <2>2. ASSUME cur' # None
        PROVE  /\ entities'[cur'].ptr \in 1 .. born'
               /\ life'[entities'[cur'].ptr] = "dying"
               /\ issued'[entities'[cur'].ptr].idx = cur'
    <3>1. cur' = cur /\ cur \in Index \ {i}
      BY <2>2 DEF TypeOK
    <3>2. /\ entities[cur].ptr \in 1 .. born
          /\ life[entities[cur].ptr] = "dying"
          /\ issued[entities[cur].ptr].idx = cur
      BY <2>2, <3>1 DEF SlotDiscipline, OccupantAgrees
    <3>3. entities'[cur'] = entities[cur] /\ entities[cur].ptr \in Entity \ {e0}
      BY <1>2, <1>4, <3>1, <3>2
    <3> QED
      BY <1>3, <1>4, <3>1, <3>2, <3>3
  <2>3. ASSUME NEW e \in Entity
        PROVE  /\ life'[e] = "unborn" <=> e > born'
               /\ life'[e] = "live" => /\ entities'[issued'[e].idx].alive
                                       /\ entities'[issued'[e].idx].ptr = e
               /\ life'[e] = "dying" => cur' # None /\ entities'[cur'].ptr = e
    <3>1. CASE e = e0
      BY <1>2, <1>3, <1>4, <3>1
    <3>2. CASE e # e0
      <4>1. life'[e] = life[e] /\ issued'[e] = issued[e]
        BY <1>3, <3>2
      <4>2. /\ life[e] = "unborn" <=> e > born
            /\ life[e] = "live" => /\ entities[issued[e].idx].alive
                                   /\ entities[issued[e].idx].ptr = e
            /\ life[e] = "dying" => cur # None /\ entities[cur].ptr = e
        BY DEF SlotDiscipline, OccupantAgrees
      <4>3. e > born <=> e > born'
        BY <1>4, <3>2 DEF Entity
      <4>4. issued[e].idx \in Index
        BY DEF TypeOK, Handle
      <4>5. cur # None => cur \in Index \ {i}
        BY DEF TypeOK
      <4> QED
        BY <1>2, <4>1, <4>2, <4>3, <4>4, <4>5
    <3> QED
      BY <3>1, <3>2
  <2> QED
    BY <2>1, <2>2, <2>3 DEF OccupantAgrees
<1>9. Position'
  <2>1. \A v \in observers : v[1] \in 0 .. born'
    BY <1>4 DEF Position
  <2> QED
    BY <2>1 DEF Position, loopVars
<1>10. LoopDrained'
  BY DEF LoopDrained, loopVars
<1>11. HandlesIssued'
  <2>1. ASSUME NEW j \in Index \ tainted'
        PROVE  /\ entities'[j].gen # 0
               /\ j \in Free' => entities'[j].ptr = Null
    <3>1. CASE j = i
      BY <1>2, <2>1, <3>1
    <3>2. CASE j # i
      <4>1. entities[j].gen # 0 /\ (j \in Free => entities[j].ptr = Null)
        BY <2>1 DEF HandlesIssued
      <4> QED
        BY <1>2, <2>1, <3>2, <4>1
    <3> QED
      BY <3>1, <3>2
  <2>2. ASSUME NEW e \in 1 .. born'
        PROVE  LET j == issued'[e].idx
               IN  /\ j < size'
                   /\ j \notin tainted' =>
                        /\ issued'[e].gen # 0
                        /\ issued'[e].gen <= entities'[j].gen
                        /\ issued'[e].gen = entities'[j].gen
                             => entities'[j].ptr = e
    <3>1. CASE e = e0
      BY <1>2, <1>3, <3>1
    <3>2. CASE e # e0
      <4> DEFINE j == issued[e].idx
      <4>1. e \in 1 .. born /\ e \in Entity /\ issued'[e] = issued[e]
        BY <1>3, <1>4, <3>2
      <4>2. j \in Index /\ issued[e].gen \in Nat /\ entities[j].gen \in Nat
        BY <4>1 DEF TypeOK, Handle, Slot
      <4>3. /\ j < size
            /\ j \notin tainted =>
                 /\ issued[e].gen # 0
                 /\ issued[e].gen <= entities[j].gen
                 /\ issued[e].gen = entities[j].gen => entities[j].ptr = e
        BY <4>1 DEF HandlesIssued
      <4>4. j < size'
        BY <4>2, <4>3 DEF TypeOK, Index
      <4>5. CASE j = i
        BY <1>2, <4>1, <4>2, <4>3, <4>4, <4>5
      <4>6. CASE j # i
        BY <1>2, <4>1, <4>2, <4>3, <4>4, <4>6
      <4> QED
        BY <4>5, <4>6
    <3> QED
      BY <3>1, <3>2
  <2> QED
    BY <2>1, <2>2 DEF HandlesIssued
<1>12. ViewFidelity'
  <2> SUFFICES ASSUME NEW v \in observers'
               PROVE  v[1] = v[2] \/ HandleOf(v[1])'.idx \in tainted'
    BY DEF ViewFidelity
  <2>1. v \in observers /\ v[1] \in 0 .. born
    BY DEF Position, loopVars
  <2>2. v[1] = v[2] \/ HandleOf(v[1]).idx \in tainted
    BY <2>1 DEF ViewFidelity
  <2>3. HandleOf(v[1])' = HandleOf(v[1])
    <3>1. CASE v[1] = 0
      BY <3>1 DEF HandleOf
    <3>2. CASE v[1] # 0
      <4>1. v[1] \in Entity \ {e0}
        BY <1>4, <2>1, <3>2
      <4> QED
        BY <1>3, <3>2, <4>1 DEF HandleOf
    <3> QED
      BY <3>1, <3>2
  <2> QED
    BY <2>2, <2>3
<1>13. ObserversAlive'
  <2> SUFFICES ASSUME NEW v \in observers'
               PROVE  life'[v[2]] \in {"live", "dying"}
    BY DEF ObserversAlive
  <2>1. v \in observers /\ v[2] \in Entity
    BY DEF TypeOK, loopVars
  <2>2. life[v[2]] \in {"live", "dying"}
    BY <2>1 DEF ObserversAlive
  <2> QED
    BY <1>3, <2>1, <2>2
<1> QED
  BY <1>5, <1>6, <1>7, <1>8, <1>9, <1>10, <1>11, <1>12, <1>13
     DEF SlotDiscipline

LEMMA SpawnIInv ==
  ASSUME IInv, Spawn
  PROVE  IInv'
<1> USE WorldAssumption
<1>0. pc \in Frame /\ UNCHANGED loopVars
  BY DEF Spawn, Stays, loopVars
<1>1. PICK hook \in BOOLEAN : SpawnReuse(hook) \/ SpawnGrow(hook)
  BY DEF Spawn
<1>2. /\ size \in 0 .. MaxEntities /\ born \in 0 .. MaxEntities
      /\ size <= born /\ stale \in BOOLEAN /\ capacity \in Nat
      /\ 1 .. born \subseteq Entity
  BY DEF IInv, TypeOK, Position, Entity
<1>3. CASE SpawnReuse(hook)
  <2>1. PICK i \in Index :
           /\ i \in Free /\ i < size /\ ~entities[i].alive /\ i # cur
           /\ Occupy(i, entities[i].gen, hook)
           /\ entities[i].gen \in 0 .. GenMod - 1
           /\ freeSlots' \in Seq(Index)
           /\ Free' = Free \ {i}
           /\ \A k, l \in 1 .. Len(freeSlots') :
                freeSlots'[k] = freeSlots'[l] => k = l
    BY <1>3, SpawnReuseFacts
  <2>2. /\ born < MaxEntities /\ size' = size /\ capacity' = capacity
        /\ stale' = stale
        /\ UNCHANGED <<running, destroyQueue, cursor, cur, tainted>>
    BY <1>3 DEF SpawnReuse
  <2>3. born' = born + 1
    BY <2>1 DEF Occupy
  <2>4. ASSUME i \notin tainted
        PROVE  /\ entities[i].gen # 0
               /\ \A e \in 1 .. born :
                    issued[e].idx = i => issued[e].gen < entities[i].gen
    <3>1. entities[i].gen # 0 /\ entities[i].ptr = Null
      BY <2>1, <2>4 DEF IInv, HandlesIssued
    <3>2. ASSUME NEW e \in 1 .. born, issued[e].idx = i
          PROVE  issued[e].gen < entities[i].gen
      <4>1. /\ issued[e].gen <= entities[i].gen
            /\ issued[e].gen = entities[i].gen => entities[i].ptr = e
        BY <2>4, <3>2 DEF IInv, HandlesIssued
      <4>2. issued[e].gen \in Nat /\ entities[i].gen \in Nat
        BY <1>2, <2>1 DEF IInv, TypeOK, Handle
      <4> QED
        BY <3>1, <4>1, <4>2 DEF Null
    <3> QED
      BY <3>1, <3>2
  <2>5. \A j \in Index : j < size' => j < size \/ j = i
    BY <2>2
  <2>6. /\ i < size' /\ size' \in 0 .. MaxEntities /\ size' <= born'
        /\ size <= size' /\ capacity' \in Nat /\ stale' \in BOOLEAN
    BY <1>2, <2>1, <2>2, <2>3
  <2> QED
    BY <1>0, <2>1, <2>2, <2>4, <2>5, <2>6, OccupyIInv
<1>4. CASE SpawnGrow(hook)
  <2>1. /\ born < MaxEntities /\ Occupy(size, 1, hook) /\ size' = size + 1
        /\ freeSlots = <<>> /\ freeSlots' = freeSlots
        /\ UNCHANGED <<running, destroyQueue, cursor, cur, tainted>>
    BY <1>4 DEF SpawnGrow
  <2>2. size \in Index /\ 1 \in 0 .. GenMod - 1
    BY <1>2, <2>1 DEF Index
  <2>3. ~entities[size].alive
    BY <1>2, <2>2 DEF IInv, SlotDiscipline, SlotPartition
  <2>4. size # cur
    BY <1>2, <2>2 DEF IInv, SlotDiscipline, SlotPartition, None, Index
  <2>5. capacity' \in Nat /\ stale' \in BOOLEAN
    <3>1. capacity' \in Nat
      BY <1>2, <1>4 DEF SpawnGrow
    <3>2. stale' \in BOOLEAN
      BY <1>2, <1>4 DEF SpawnGrow
    <3> QED
      BY <3>1, <3>2
  <2>6. \A j \in Index : j < size' => j < size \/ j = size
    BY <1>2, <2>1 DEF Index
  <2>7. freeSlots' \in Seq(Index) /\ Free' = Free \ {size}
        /\ \A k, l \in 1 .. Len(freeSlots') :
             freeSlots'[k] = freeSlots'[l] => k = l
    <3>1. Len(freeSlots) = 0 /\ freeSlots \in Seq(Index)
      BY <2>1 DEF IInv, TypeOK
    <3> QED
      BY <2>1, <3>1 DEF Free
  <2>8. \A e \in 1 .. born : issued[e].idx # size
    <3> TAKE e \in 1 .. born
    <3>1. issued[e].idx < size
      BY DEF IInv, HandlesIssued
    <3>2. issued[e].idx \in Nat
      BY <1>2 DEF IInv, TypeOK, Handle, Index
    <3> QED
      BY <1>2, <3>1, <3>2
  <2>9. /\ size < size' /\ size' \in 0 .. MaxEntities /\ size' <= born'
        /\ size <= size'
    BY <1>2, <2>1 DEF Occupy
  <2>10. size \notin tainted =>
           /\ 1 # 0
           /\ \A e \in 1 .. born : issued[e].idx = size => issued[e].gen < 1
    BY <2>8
  <2> QED
    BY <1>0, <2>1, <2>2, <2>3, <2>4, <2>5, <2>6, <2>7, <2>9, <2>10, OccupyIInv
<1> QED
  BY <1>1, <1>3, <1>4

-----------------------------------------------------------------------------
(***************************************************************************)
(* The other operations of a frame.                                        *)
(***************************************************************************)

LEMMA ViewIInv ==
  ASSUME IInv, View
  PROVE  IInv'
<1> USE DEF IInv
<1>1. pc \in Frame /\ UNCHANGED <<worldVars, pc, entered>>
  BY DEF View, Stays
<1>2. PICK o \in Held :
        /\ Viewable(HandleOf(o))
        /\ observers' = observers \cup {<<o, ViewRaw(HandleOf(o))>>}
  BY DEF View
<1> DEFINE i == HandleOf(o).idx
           p == ViewRaw(HandleOf(o))
<1>3. /\ o \in 0 .. born /\ 1 .. born \subseteq Entity
      /\ born \in 0 .. MaxEntities
  <2>1. born \in 0 .. MaxEntities
    BY DEF TypeOK
  <2>2. 1 .. born \subseteq Entity
    BY <2>1, WorldAssumption DEF Entity
  <2>3. o \in 1 .. born \/ o = 0
    BY DEF Held
  <2> QED
    BY <2>1, <2>2, <2>3
<1>4. HandleOf(o) \in Handle
  BY <1>3, WorldAssumption DEF HandleOf, ZeroHandle, Handle, Index, TypeOK
<1>5. /\ i \in Index /\ entities[i].alive /\ p = entities[i].ptr
      /\ entities[i].gen = HandleOf(o).gen
  BY <1>2, <1>4 DEF Handle, Viewable, Matches, ViewRaw
<1> HIDE DEF i, p
<1>6. p \in 1 .. born /\ p \in Entity /\ life[p] = "live"
  <2>1. entities[i].ptr \in 1 .. born /\ life[entities[i].ptr] = "live"
    BY <1>5 DEF SlotDiscipline, OccupantAgrees
  <2> QED
    BY <1>3, <1>5, <2>1
<1> USE DEF i, p
<1>7. o = p \/ i \in tainted
  <2>1. CASE o = 0
    BY <1>5, <2>1 DEF HandlesIssued, HandleOf, ZeroHandle
  <2>2. CASE o # 0
    <3>1. o \in 1 .. born /\ HandleOf(o) = issued[o]
      BY <1>3, <2>2 DEF HandleOf
    <3> QED
      BY <1>5, <3>1 DEF HandlesIssued
  <2> QED
    BY <2>1, <2>2
<1>8. TypeOK'
  <2>1. <<o, p>> \in (Entity \cup {0}) \X Entity
    BY <1>3, <1>6
  <2>2. observers' \subseteq (Entity \cup {0}) \X Entity
    BY <1>2, <2>1 DEF TypeOK
  <2> QED
    BY <1>1, <2>2 DEF TypeOK, worldVars
<1>9. SlotDiscipline' /\ HandlesIssued'
  BY <1>1, WorldUnchanged DEF worldVars
<1>10. Position' /\ LoopDrained'
  <2>1. \A v \in observers' : v[1] \in 0 .. born'
    BY <1>1, <1>2, <1>3 DEF Position, worldVars
  <2> QED
    BY <1>1, <2>1 DEF Position, LoopDrained, worldVars, Frame
<1>11. ViewFidelity'
  <2> SUFFICES ASSUME NEW v \in observers'
               PROVE  v[1] = v[2] \/ HandleOf(v[1])'.idx \in tainted'
    BY DEF ViewFidelity
  <2>1. v[1] = v[2] \/ HandleOf(v[1]).idx \in tainted
    BY <1>2, <1>7 DEF ViewFidelity
  <2> QED
    BY <1>1, <2>1 DEF HandleOf, worldVars
<1>12. ObserversAlive'
  <2> SUFFICES ASSUME NEW v \in observers'
               PROVE  life'[v[2]] \in {"live", "dying"}
    BY DEF ObserversAlive
  <2> QED
    BY <1>1, <1>2, <1>6 DEF ObserversAlive, worldVars
<1> QED
  BY <1>8, <1>9, <1>10, <1>11, <1>12

LEMMA DestroyIInv ==
  ASSUME IInv, Destroy
  PROVE  IInv'
<1> USE WorldAssumption DEF IInv
<1>1. PICK o \in Held : DestroyEntityRaw(HandleOf(o))
  BY DEF Destroy
<1> DEFINE i == HandleOf(o).idx
           n == Len(destroyQueue)
<1>2. HandleOf(o) \in Handle
  <2>1. o = 0 \/ o \in Entity
    BY DEF Held, TypeOK, Entity
  <2> QED
    BY <2>1 DEF HandleOf, ZeroHandle, Handle, Index, TypeOK
<1>3. /\ i \in Index
      /\ entities[i] \in Slot /\ entities[i].alive /\ ~entities[i].pending
  BY <1>1, <1>2 DEF Handle, DestroyEntityRaw, Destroyable, Matches, TypeOK
<1>4. /\ UNCHANGED <<running, size, capacity, freeSlots, cursor, cur, stale,
                     born, life, issued, tainted, pc, observers, entered>>
      /\ pc \in Frame
      /\ destroyQueue' = Append(destroyQueue, i)
      /\ entities' = [entities EXCEPT ![i].pending = TRUE]
  BY <1>1 DEF Destroy, DestroyEntityRaw, Stays
<1> HIDE DEF i
<1>5. /\ n \in Nat /\ destroyQueue' \in Seq(Index)
      /\ Len(destroyQueue') = n + 1 /\ destroyQueue'[n + 1] = i
      /\ \A k \in 1 .. n : destroyQueue'[k] = destroyQueue[k]
      /\ cursor \in 0 .. n
  BY <1>3, <1>4, PushBack DEF TypeOK
<1>6. /\ entities'[i] = [entities[i] EXCEPT !.pending = TRUE]
      /\ \A j \in Index \ {i} : entities'[j] = entities[j]
  BY <1>3, <1>4 DEF TypeOK
<1>7. /\ entities'[i] \in Slot
      /\ entities'[i].ptr = entities[i].ptr
      /\ entities'[i].gen = entities[i].gen
      /\ entities'[i].alive = entities[i].alive
      /\ entities'[i].pending = TRUE
  BY <1>3, <1>6 DEF Slot
<1>8. \A j \in Index : /\ entities'[j].ptr = entities[j].ptr
                       /\ entities'[j].gen = entities[j].gen
                       /\ entities'[j].alive = entities[j].alive
  BY <1>6, <1>7
<1>9. TypeOK'
  <2>1. entities' \in [Index -> Slot]
    BY <1>3, <1>4, <1>6, <1>7 DEF TypeOK
  <2>2. destroyQueue' \in Seq(Index) /\ cursor' \in 0 .. Len(destroyQueue')
    BY <1>4, <1>5
  <2> QED
    BY <1>4, <2>1, <2>2 DEF TypeOK
<1>10. SlotPartition'
  <2>1. Free' = Free
    BY <1>4 DEF Free
  <2>2. cur # None => cur \in Index
    BY DEF TypeOK
  <2> QED
    BY <1>4, <1>8, <2>1, <2>2 DEF SlotDiscipline, SlotPartition
<1>11. QueueDiscipline'
  <2>1. i \notin Queued
    BY <1>3 DEF SlotDiscipline, QueueDiscipline
  <2>2. Queued' = Queued \cup {i}
    BY <1>4, <1>5 DEF Queued
  <2>3. ASSUME NEW k \in cursor' + 1 .. Len(destroyQueue'),
               NEW l \in cursor' + 1 .. Len(destroyQueue'),
               destroyQueue'[k] = destroyQueue'[l]
        PROVE  k = l
    <3>1. \A m \in cursor + 1 .. n : destroyQueue'[m] = destroyQueue[m]
                                      /\ destroyQueue[m] # i
      BY <1>5, <2>1 DEF Queued
    <3>2. k \in cursor + 1 .. n \/ k = n + 1
      BY <1>4, <1>5, <2>3
    <3>3. l \in cursor + 1 .. n \/ l = n + 1
      BY <1>4, <1>5, <2>3
    <3> QED
      BY <1>5, <2>3, <3>1, <3>2, <3>3 DEF SlotDiscipline, QueueDiscipline
  <2>4. \A j \in Index : entities'[j].pending <=> j \in Queued'
    <3> TAKE j \in Index
    <3>1. CASE j = i
      BY <1>7, <2>2, <3>1
    <3>2. CASE j # i
      BY <1>6, <2>2, <3>2 DEF SlotDiscipline, QueueDiscipline
    <3> QED
      BY <3>1, <3>2
  <2>5. \A j \in Index : entities'[j].pending => entities'[j].alive
    <3> TAKE j \in Index
    <3>1. CASE j = i
      BY <1>3, <1>7, <3>1
    <3>2. CASE j # i
      BY <1>6, <3>2 DEF SlotDiscipline, QueueDiscipline
    <3> QED
      BY <3>1, <3>2
  <2> QED
    BY <2>3, <2>4, <2>5 DEF QueueDiscipline
<1>12. OccupantAgrees'
  <2>1. cur # None => cur \in Index
    BY DEF TypeOK
  <2>2. \A e \in Entity : issued[e].idx \in Index
    BY DEF TypeOK, Handle
  <2> QED
    BY <1>4, <1>8, <2>1, <2>2 DEF SlotDiscipline, OccupantAgrees
<1>13. Position' /\ LoopDrained'
  BY <1>4 DEF Position, LoopDrained, Frame
<1>14. HandlesIssued'
  <2>1. \A e \in 1 .. born : issued[e].idx \in Index
    BY DEF TypeOK, Handle, Entity
  <2>2. Free' = Free
    BY <1>4 DEF Free
  <2> QED
    BY <1>4, <1>8, <2>1, <2>2 DEF HandlesIssued
<1>15. ViewFidelity' /\ ObserversAlive'
  BY <1>4 DEF ViewFidelity, ObserversAlive, HandleOf
<1> QED
  BY <1>9, <1>10, <1>11, <1>12, <1>13, <1>14, <1>15 DEF SlotDiscipline

\* The steps that change nothing but the position in the entry function, and
\* drop the observers of a frame that ends.
Walk == \/ ViewPanics \/ DestroyPanics \/ DestroyCrashes \/ Quit \/ FrameEnd
        \/ LoopCond \/ RetireCrashes \/ Exit

LEMMA WalkIInv ==
  ASSUME IInv, Walk
  PROVE  IInv'
<1> USE DEF IInv
<1> DEFINE same == UNCHANGED <<entities, size, capacity, freeSlots,
                       destroyQueue, cursor, cur, stale, born, life, issued,
                       tainted>>
           halts == pc' \in Aborted /\ UNCHANGED <<observers, entered>>
           quits == /\ pc \in Frame /\ UNCHANGED loopVars
                    /\ running' = FALSE
           ends == /\ observers' = {} /\ entered' = entered
                   /\ \/ pc = "init" /\ pc' = "cond"
                      \/ pc = "update" /\ pc' = "flush"
                      \/ pc = "callback" /\ pc' = "retire"
           turns == /\ pc = "cond" /\ observers' = observers
                    /\ \/ pc' = "update"
                       \/ pc' = "exit" /\ entered' = entered
           leaves == pc = "exit" /\ pc' = "exited"
                     /\ UNCHANGED <<observers, entered>>
<1>1. same /\ (quits \/ running' = running)
  <2>1. CASE Quit
    BY <2>1 DEF Quit, WorldQuit, Stays, loopVars
  <2>2. CASE ~Quit
    BY <2>2 DEF Walk, ViewPanics, DestroyPanics, DestroyCrashes, FrameEnd,
                LoopCond, RetireCrashes, Exit, Halt, worldVars
  <2> QED
    BY <2>1, <2>2
<1>2. halts \/ quits \/ ends \/ turns \/ leaves
  <2>1. CASE ViewPanics \/ DestroyPanics \/ DestroyCrashes \/ RetireCrashes
    BY <2>1 DEF ViewPanics, DestroyPanics, DestroyCrashes, RetireCrashes, Halt,
                Aborted
  <2>2. CASE Quit
    BY <2>2 DEF Quit, WorldQuit, Stays, loopVars
  <2>3. CASE FrameEnd
    BY <2>3 DEF FrameEnd, Frame
  <2>4. CASE LoopCond
    BY <2>4 DEF LoopCond, TypeOK
  <2>5. CASE Exit
    BY <2>5 DEF Exit
  <2> QED
    BY <2>1, <2>2, <2>3, <2>4, <2>5 DEF Walk
<1>3. TypeOK'
  <2>1. pc' \in PC /\ observers' \subseteq (Entity \cup {0}) \X Entity
    BY <1>2 DEF TypeOK, PC, Frame, Halted, Aborted, loopVars
  <2>2. entered' \in BOOLEAN
    BY DEF Walk, ViewPanics, DestroyPanics, DestroyCrashes, Quit, FrameEnd,
           LoopCond, RetireCrashes, Exit, Halt, Stays, TypeOK
  <2>3. running' \in BOOLEAN
    BY <1>1 DEF TypeOK
  <2> QED
    BY <1>1, <2>1, <2>2, <2>3 DEF TypeOK
<1>4. SlotDiscipline' /\ HandlesIssued'
  BY <1>1, WorldUnchanged
<1>5. Position'
  BY <1>1, <1>2 DEF Position, Frame, Aborted, loopVars
<1>6. LoopDrained'
  BY <1>1, <1>2 DEF LoopDrained, Aborted, Frame, loopVars
<1>7. observers' \subseteq observers
  BY <1>2 DEF loopVars
<1>8. ViewFidelity' /\ ObserversAlive'
  BY <1>1, <1>7 DEF ViewFidelity, ObserversAlive, HandleOf
<1> QED
  BY <1>3, <1>4, <1>5, <1>6, <1>8

-----------------------------------------------------------------------------
(***************************************************************************)
(* The flush.                                                              *)
(***************************************************************************)

LEMMA FlushStepIInv ==
  ASSUME IInv, FlushStep
  PROVE  IInv'
<1> USE WorldAssumption DEF IInv
<1> DEFINE n == Len(destroyQueue)
           i == destroyQueue[cursor + 1]
           e0 == entities[i].ptr
<1>1. /\ pc = "flush" /\ cur = None /\ observers = {}
      /\ cursor < n /\ cursor' = cursor + 1 /\ stale' = FALSE
      /\ UNCHANGED <<running, size, capacity, freeSlots, destroyQueue, born,
                     issued, tainted, entered>>
  BY DEF FlushStep, FlushTake, Position, Frame, Aborted
<1>2. /\ n \in Nat /\ cursor \in 0 .. n /\ cursor + 1 \in 1 .. n
      /\ i \in Index
  BY <1>1 DEF TypeOK
<1>3. i \in Queued
  BY <1>1, <1>2 DEF Queued
<1>4. entities[i].pending /\ entities[i].alive
  BY <1>2, <1>3 DEF SlotDiscipline, QueueDiscipline
<1>5. /\ entities' = [entities EXCEPT ![i].pending = FALSE, ![i].alive = FALSE]
      /\ life' = [life EXCEPT ![e0] = "dying"]
      /\ cur' = i
  BY <1>4 DEF FlushStep, FlushTake
<1> HIDE DEF i
<1>6. /\ e0 \in 1 .. born /\ e0 \in Entity /\ life[e0] = "live"
      /\ issued[e0] = [idx |-> i, gen |-> entities[i].gen]
      /\ 1 .. born \subseteq Entity
  <2>1. 1 .. born \subseteq Entity
    BY DEF TypeOK, Entity
  <2>2. /\ e0 \in 1 .. born /\ life[e0] = "live"
        /\ issued[e0] = [idx |-> i, gen |-> entities[i].gen]
    BY <1>2, <1>4 DEF SlotDiscipline, OccupantAgrees
  <2> QED
    BY <2>1, <2>2
<1> HIDE DEF e0
<1>7. /\ entities'[i] = [entities[i] EXCEPT !.pending = FALSE, !.alive = FALSE]
      /\ \A j \in Index \ {i} : entities'[j] = entities[j]
      /\ entities[i] \in Slot
  BY <1>2, <1>5 DEF TypeOK
<1>8. /\ entities'[i] \in Slot
      /\ entities'[i].ptr = e0 /\ entities'[i].gen = entities[i].gen
      /\ entities'[i].alive = FALSE /\ entities'[i].pending = FALSE
  BY <1>7 DEF Slot, e0
<1>9. /\ life'[e0] = "dying"
      /\ \A e \in Entity \ {e0} : life'[e] = life[e]
  BY <1>5, <1>6 DEF TypeOK
<1>10. \A j \in Index : /\ entities'[j].ptr = entities[j].ptr
                        /\ entities'[j].gen = entities[j].gen
  BY <1>7, <1>8 DEF e0
<1>11. i # None
  BY <1>2 DEF Index, None
<1>12. /\ pc' \in {"callback", "retire"}
       /\ observers' \subseteq {<<e0, e0>>}
       /\ pc' = "retire" => observers' = {}
  <2>1. entities[cur'].ptr = e0
    BY <1>5 DEF e0
  <2> QED
    BY <1>5, <1>11, <2>1 DEF FlushStep
<1>13. TypeOK'
  <2>1. entities' \in [Index -> Slot]
    BY <1>2, <1>5, <1>7, <1>8 DEF TypeOK
  <2>2. life' \in [Entity -> Life]
    BY <1>5, <1>6 DEF TypeOK, Life
  <2>3. cursor' \in 0 .. Len(destroyQueue') /\ cur' \in Index \cup {None}
    BY <1>1, <1>2, <1>5
  <2>4. pc' \in PC /\ observers' \subseteq (Entity \cup {0}) \X Entity
    BY <1>6, <1>12 DEF PC, Frame
  <2>5. stale' \in BOOLEAN
    BY <1>1
  <2> QED
    BY <1>1, <2>1, <2>2, <2>3, <2>4, <2>5 DEF TypeOK
<1>14. SlotPartition'
  <2>1. Free' = Free /\ i \notin Free /\ i < size
    BY <1>1, <1>2, <1>4 DEF Free, SlotDiscipline, SlotPartition
  <2>2. \A j \in Index : entities'[j].alive <=> entities[j].alive /\ j # i
    <3> TAKE j \in Index
    <3>1. CASE j = i
      BY <1>8, <3>1
    <3>2. CASE j # i
      BY <1>7, <3>2
    <3> QED
      BY <3>1, <3>2
  <2>3. \A j \in Index : j # cur
    BY <1>1 DEF Index, None
  <2> QED
    BY <1>1, <1>2, <1>5, <2>1, <2>2, <2>3 DEF SlotDiscipline, SlotPartition
<1>15. QueueDiscipline'
  <2>1. \A k, l \in cursor + 1 .. n :
          destroyQueue[k] = destroyQueue[l] => k = l
    BY DEF SlotDiscipline, QueueDiscipline
  <2>2. Queued' = Queued \ {i}
    <3>1. \A k \in cursor + 2 .. n : destroyQueue[k] # i
      BY <1>2, <2>1 DEF i
    <3>2. cursor + 1 .. n = {cursor + 1} \cup (cursor + 2 .. n)
      BY <1>2
    <3>3. Queued' = {destroyQueue[k] : k \in cursor + 2 .. n}
      BY <1>1, <1>2 DEF Queued
    <3> QED
      BY <3>1, <3>2, <3>3 DEF Queued, i
  <2>3. \A j \in Index : entities'[j].pending <=> j \in Queued'
    <3> TAKE j \in Index
    <3>1. CASE j = i
      BY <1>8, <2>2, <3>1
    <3>2. CASE j # i
      BY <1>7, <2>2, <3>2 DEF SlotDiscipline, QueueDiscipline
    <3> QED
      BY <3>1, <3>2
  <2>4. \A j \in Index : entities'[j].pending => entities'[j].alive
    <3> TAKE j \in Index
    <3>1. CASE j = i
      BY <1>8, <3>1
    <3>2. CASE j # i
      BY <1>7, <3>2 DEF SlotDiscipline, QueueDiscipline
    <3> QED
      BY <3>1, <3>2
  <2>5. \A k, l \in cursor' + 1 .. Len(destroyQueue') :
          destroyQueue'[k] = destroyQueue'[l] => k = l
    BY <1>1, <1>2, <2>1
  <2> QED
    BY <2>3, <2>4, <2>5 DEF QueueDiscipline
<1>16. OccupantAgrees'
  <2>1. ASSUME NEW j \in Index, entities'[j].alive
        PROVE  /\ entities'[j].ptr \in 1 .. born'
               /\ life'[entities'[j].ptr] = "live"
               /\ issued'[entities'[j].ptr] = [idx |-> j, gen |-> entities'[j].gen]
    <3>1. j # i /\ entities'[j] = entities[j] /\ entities[j].alive
      BY <1>7, <1>8, <2>1
    <3>2. /\ entities[j].ptr \in 1 .. born
          /\ life[entities[j].ptr] = "live"
          /\ issued[entities[j].ptr] = [idx |-> j, gen |-> entities[j].gen]
      BY <3>1 DEF SlotDiscipline, OccupantAgrees
    <3>3. entities[j].ptr \in Entity \ {e0}
      BY <1>6, <3>1, <3>2
    <3> QED
      BY <1>1, <1>9, <3>1, <3>2, <3>3
  <2>2. /\ entities'[cur'].ptr \in 1 .. born'
        /\ life'[entities'[cur'].ptr] = "dying"
        /\ issued'[entities'[cur'].ptr].idx = cur'
    BY <1>1, <1>5, <1>6, <1>8, <1>9
  <2>3. ASSUME NEW e \in Entity
        PROVE  /\ life'[e] = "unborn" <=> e > born'
               /\ life'[e] = "live" => /\ entities'[issued'[e].idx].alive
                                       /\ entities'[issued'[e].idx].ptr = e
               /\ life'[e] = "dying" => cur' # None /\ entities'[cur'].ptr = e
    <3>1. CASE e = e0
      <4>1. ~(e > born)
        BY <1>6, <3>1 DEF TypeOK
      <4> QED
        BY <1>1, <1>5, <1>8, <1>9, <1>11, <3>1, <4>1
    <3>2. CASE e # e0
      <4>1. life'[e] = life[e]
        BY <1>9, <3>2
      <4>2. /\ life[e] = "unborn" <=> e > born
            /\ life[e] = "live" => /\ entities[issued[e].idx].alive
                                   /\ entities[issued[e].idx].ptr = e
            /\ life[e] # "dying"
        BY <1>1 DEF SlotDiscipline, OccupantAgrees
      <4>3. issued[e].idx \in Index
        BY DEF TypeOK, Handle
      <4>4. life[e] = "live" => issued[e].idx # i
        BY <3>2, <4>2 DEF e0
      <4> QED
        BY <1>1, <1>7, <4>1, <4>2, <4>3, <4>4
    <3> QED
      BY <3>1, <3>2
  <2> QED
    BY <2>1, <2>2, <2>3 DEF OccupantAgrees
<1>17. Position'
  BY <1>1, <1>5, <1>6, <1>11, <1>12 DEF Position, Frame, Aborted
<1>18. LoopDrained'
  BY <1>12 DEF LoopDrained
<1>19. HandlesIssued'
  <2>1. \A e \in 1 .. born : issued[e].idx \in Index
    BY <1>6 DEF TypeOK, Handle
  <2>2. Free' = Free
    BY <1>1 DEF Free
  <2> QED
    BY <1>1, <1>10, <2>1, <2>2 DEF HandlesIssued
<1>20. ViewFidelity'
  BY <1>12 DEF ViewFidelity
<1>21. ObserversAlive'
  BY <1>9, <1>12 DEF ObserversAlive
<1> QED
  BY <1>13, <1>14, <1>15, <1>16, <1>17, <1>18, <1>19, <1>20, <1>21
     DEF SlotDiscipline

\* Both ways of retiring an entity: the reference is good and the slot is
\* cleared and gets a new generation, or it is stale and the slot is tainted.
LEMMA RetireStepIInv ==
  ASSUME IInv, RetireStep
  PROVE  IInv'
<1> USE WorldAssumption DEF IInv
<1> DEFINE i == cur
           n == Len(freeSlots)
           e0 == entities[i].ptr
<1>1. /\ pc = "retire" /\ pc' = "flush" /\ cur # None /\ cur \in Index
      /\ observers = {} /\ observers' = {} /\ entered' = entered
      /\ UNCHANGED <<running, size, capacity, destroyQueue, cursor, born, issued>>
      /\ life' = [life EXCEPT ![e0] = "freed"]
      /\ freeSlots' = Append(freeSlots, i)
      /\ cur' = None /\ stale' \in BOOLEAN
      /\ tainted \subseteq tainted' /\ tainted' \subseteq Index
  <2>1. pc = "retire" /\ pc' = "flush" /\ UNCHANGED <<observers, entered>>
    BY DEF RetireStep
  <2>2. cur # None /\ cur \in Index /\ observers = {}
    BY <2>1 DEF RetireStep, Retire, RetireLost, Position, Frame, Aborted, TypeOK
  <2>3. CASE Retire
    BY <2>1, <2>2, <2>3 DEF Retire, TypeOK
  <2>4. CASE RetireLost
    BY <2>1, <2>2, <2>4 DEF RetireLost, TypeOK
  <2> QED
    BY <2>3, <2>4 DEF RetireStep
<1>2. i \notin tainted' =>
        /\ entities' = [entities EXCEPT ![i] = Vacated(@)]
        /\ Incr(entities[i].gen) # 0
  BY <1>1 DEF RetireStep, Retire, RetireLost
<1>3. \/ entities' = entities
      \/ entities' = [entities EXCEPT ![i] = Vacated(@)]
  BY <1>1 DEF RetireStep, Retire, RetireLost
<1>4. /\ entities[i] \in Slot /\ entities[i].gen \in 0 .. GenMod - 1
      /\ Incr(entities[i].gen) \in 0 .. GenMod - 1
      /\ Incr(entities[i].gen) # 0 => Incr(entities[i].gen) = entities[i].gen + 1
  <2>1. entities[i] \in Slot
    BY <1>1 DEF TypeOK
  <2>2. entities[i].gen \in 0 .. GenMod - 1
    BY <2>1 DEF Slot
  <2> QED
    BY <2>1, <2>2 DEF Incr
<1>5. /\ entities'[i] \in Slot /\ entities' \in [Index -> Slot]
      /\ entities'[i].alive = entities[i].alive
      /\ entities'[i].pending = entities[i].pending
      /\ \A j \in Index \ {i} : entities'[j] = entities[j]
  <2>1. CASE entities' = entities
    BY <1>1, <1>4, <2>1 DEF TypeOK
  <2>2. CASE entities' = [entities EXCEPT ![i] = Vacated(@)]
    <3> DEFINE s == Vacated(entities[i])
    <3>1. /\ s \in Slot /\ s.alive = entities[i].alive
          /\ s.pending = entities[i].pending
      BY <1>4 DEF Slot, Vacated
    <3>2. /\ entities'[i] = s
          /\ \A j \in Index \ {i} : entities'[j] = entities[j]
          /\ entities' = [entities EXCEPT ![i] = s]
      BY <1>1, <2>2 DEF TypeOK
    <3> HIDE DEF s
    <3>3. entities' \in [Index -> Slot]
      BY <1>1, <3>1, <3>2 DEF TypeOK
    <3> QED
      BY <3>1, <3>2, <3>3
  <2> QED
    BY <1>3, <2>1, <2>2
<1>6. /\ e0 \in 1 .. born /\ e0 \in Entity /\ life[e0] = "dying"
      /\ 1 .. born \subseteq Entity
      /\ ~entities[i].alive /\ ~entities[i].pending /\ i < size
  <2>1. 1 .. born \subseteq Entity
    BY DEF TypeOK, Entity
  <2>2. e0 \in 1 .. born /\ life[e0] = "dying"
    BY <1>1 DEF SlotDiscipline, OccupantAgrees
  <2>3. ~entities[i].alive /\ i < size
    BY <1>1 DEF SlotDiscipline, SlotPartition
  <2>4. ~entities[i].pending
    BY <1>1, <2>3 DEF SlotDiscipline, QueueDiscipline
  <2> QED
    BY <2>1, <2>2, <2>3, <2>4
<1> HIDE DEF e0
<1>7. /\ life'[e0] = "freed"
      /\ \A e \in Entity \ {e0} : life'[e] = life[e]
      /\ life' \in [Entity -> Life]
  BY <1>1, <1>6 DEF TypeOK, Life
<1>8. /\ n \in Nat /\ freeSlots' \in Seq(Index)
      /\ Len(freeSlots') = n + 1 /\ freeSlots'[n + 1] = i
      /\ \A k \in 1 .. n : freeSlots'[k] = freeSlots[k]
  BY <1>1, PushBack DEF TypeOK
<1>9. Free' = Free \cup {i} /\ i \notin Free
  <2>1. i \notin Free
    BY <1>1 DEF SlotDiscipline, SlotPartition
  <2> QED
    BY <1>8, <2>1 DEF Free
<1>10. \A j \in Index : /\ entities'[j].alive = entities[j].alive
                        /\ entities'[j].pending = entities[j].pending
  BY <1>5
<1>11. TypeOK'
  <2>1. cursor' \in 0 .. Len(destroyQueue')
    BY <1>1 DEF TypeOK
  <2>2. pc' \in PC
    BY <1>1 DEF PC
  <2> QED
    BY <1>1, <1>5, <1>7, <1>8, <2>1, <2>2 DEF TypeOK
<1>12. SlotPartition'
  <2>1. \A k, l \in 1 .. Len(freeSlots') : freeSlots'[k] = freeSlots'[l] => k = l
    <3>1. \A k \in 1 .. n : freeSlots[k] # i
      BY <1>9 DEF Free
    <3>2. \A k, l \in 1 .. n : freeSlots[k] = freeSlots[l] => k = l
      BY DEF SlotDiscipline, SlotPartition
    <3> QED
      BY <1>8, <3>1, <3>2
  <2>2. \A j \in Index : j # cur'
    BY <1>1 DEF Index, None
  <2> QED
    BY <1>1, <1>6, <1>9, <1>10, <2>1, <2>2 DEF SlotDiscipline, SlotPartition
<1>13. QueueDiscipline'
  <2>1. Queued' = Queued
    BY <1>1 DEF Queued
  <2> QED
    BY <1>1, <1>10, <2>1 DEF SlotDiscipline, QueueDiscipline
<1>14. OccupantAgrees'
  <2>1. ASSUME NEW j \in Index, entities'[j].alive
        PROVE  /\ entities'[j].ptr \in 1 .. born'
               /\ life'[entities'[j].ptr] = "live"
               /\ issued'[entities'[j].ptr] = [idx |-> j, gen |-> entities'[j].gen]
    <3>1. j # i /\ entities'[j] = entities[j] /\ entities[j].alive
      BY <1>5, <1>6, <1>10, <2>1
    <3>2. /\ entities[j].ptr \in 1 .. born
          /\ life[entities[j].ptr] = "live"
          /\ issued[entities[j].ptr] = [idx |-> j, gen |-> entities[j].gen]
      BY <3>1 DEF SlotDiscipline, OccupantAgrees
    <3>3. entities[j].ptr \in Entity \ {e0}
      BY <1>6, <3>2
    <3> QED
      BY <1>1, <1>7, <3>1, <3>2, <3>3
  <2>2. ASSUME NEW e \in Entity
        PROVE  /\ life'[e] = "unborn" <=> e > born'
               /\ life'[e] = "live" => /\ entities'[issued'[e].idx].alive
                                       /\ entities'[issued'[e].idx].ptr = e
               /\ life'[e] = "dying" => cur' # None /\ entities'[cur'].ptr = e
    <3>1. CASE e = e0
      <4>1. ~(e > born)
        BY <1>6, <3>1 DEF TypeOK
      <4> QED
        BY <1>1, <1>7, <3>1, <4>1
    <3>2. CASE e # e0
      <4>1. life'[e] = life[e]
        BY <1>7, <3>2
      <4>2. /\ life[e] = "unborn" <=> e > born
            /\ life[e] = "live" => /\ entities[issued[e].idx].alive
                                   /\ entities[issued[e].idx].ptr = e
            /\ life[e] # "dying"
        BY <3>2 DEF SlotDiscipline, OccupantAgrees, e0
      <4>3. issued[e].idx \in Index
        BY DEF TypeOK, Handle
      <4>4. life[e] = "live" => issued[e].idx # i
        BY <1>6, <4>2
      <4> QED
        BY <1>1, <1>5, <4>1, <4>2, <4>3, <4>4
    <3> QED
      BY <3>1, <3>2
  <2> QED
    BY <1>1, <2>1, <2>2 DEF OccupantAgrees
<1>15. Position' /\ LoopDrained'
  BY <1>1 DEF Position, LoopDrained, Frame, Aborted
<1>16. HandlesIssued'
  <2>1. ASSUME i \notin tainted'
        PROVE  /\ entities'[i].gen = entities[i].gen + 1
               /\ entities'[i].gen # 0
               /\ entities'[i].ptr = Null
    <3>1. entities'[i] = Vacated(entities[i])
      BY <1>1, <1>2, <2>1 DEF TypeOK
    <3>2. entities'[i].gen = Incr(entities[i].gen) /\ entities'[i].ptr = Null
      BY <1>4, <3>1 DEF Slot, Vacated
    <3> QED
      BY <1>2, <1>4, <2>1, <3>2
  <2>2. ASSUME NEW j \in Index \ tainted'
        PROVE  entities'[j].gen # 0 /\ (j \in Free' => entities'[j].ptr = Null)
    <3>1. CASE j = i
      BY <2>1, <2>2, <3>1
    <3>2. CASE j # i
      BY <1>1, <1>5, <1>9, <2>2, <3>2 DEF HandlesIssued
    <3> QED
      BY <3>1, <3>2
  <2>3. ASSUME NEW e \in 1 .. born
        PROVE  LET j == issued[e].idx
               IN  /\ j < size
                   /\ j \notin tainted' =>
                        /\ issued[e].gen # 0
                        /\ issued[e].gen <= entities'[j].gen
                        /\ issued[e].gen = entities'[j].gen
                             => entities'[j].ptr = e
    <3> DEFINE j == issued[e].idx
    <3>1. j \in Index /\ issued[e].gen \in Nat /\ entities[j].gen \in Nat
      BY <1>6 DEF TypeOK, Handle, Slot
    <3>2. /\ j < size
          /\ j \notin tainted =>
               /\ issued[e].gen # 0
               /\ issued[e].gen <= entities[j].gen
               /\ issued[e].gen = entities[j].gen => entities[j].ptr = e
      BY DEF HandlesIssued
    <3>3. CASE j = i
      BY <1>1, <2>1, <3>1, <3>2, <3>3
    <3>4. CASE j # i
      BY <1>1, <1>5, <3>1, <3>2, <3>4
    <3> QED
      BY <3>3, <3>4
  <2> QED
    BY <1>1, <2>2, <2>3 DEF HandlesIssued
<1>17. ViewFidelity' /\ ObserversAlive'
  BY <1>1 DEF ViewFidelity, ObserversAlive
<1> QED
  BY <1>11, <1>12, <1>13, <1>14, <1>15, <1>16, <1>17 DEF SlotDiscipline

LEMMA FlushEndIInv ==
  ASSUME IInv, FlushEnd
  PROVE  IInv'
<1> USE DEF IInv
<1>1. /\ pc = "flush" /\ pc' = "cond" /\ cursor = Len(destroyQueue)
      /\ destroyQueue' = <<>> /\ cursor' = 0
      /\ UNCHANGED <<running, entities, size, capacity, freeSlots, cur, stale,
                     born, life, issued, tainted, observers, entered>>
  BY DEF FlushEnd, FlushClear
<1>2. Queued = {} /\ Queued' = {}
  BY <1>1 DEF Queued, TypeOK
<1>3. TypeOK'
  <2>1. destroyQueue' \in Seq(Index) /\ cursor' \in 0 .. Len(destroyQueue')
    BY <1>1
  <2>2. pc' \in PC
    BY <1>1 DEF PC
  <2> QED
    BY <1>1, <2>1, <2>2 DEF TypeOK
<1>4. SlotPartition'
  BY <1>1 DEF SlotDiscipline, SlotPartition, Free
<1>5. QueueDiscipline'
  BY <1>1, <1>2 DEF SlotDiscipline, QueueDiscipline
<1>6. OccupantAgrees'
  BY <1>1 DEF SlotDiscipline, OccupantAgrees
<1>7. Position' /\ LoopDrained'
  BY <1>1 DEF Position, LoopDrained, Frame, Aborted
<1>8. HandlesIssued'
  BY <1>1 DEF HandlesIssued, Free
<1>9. ViewFidelity' /\ ObserversAlive'
  BY <1>1 DEF ViewFidelity, ObserversAlive, HandleOf
<1> QED
  BY <1>3, <1>4, <1>5, <1>6, <1>7, <1>8, <1>9 DEF SlotDiscipline

-----------------------------------------------------------------------------
(***************************************************************************)
(* The theorems.                                                           *)
(***************************************************************************)

LEMMA StepIInv == IInv /\ [Next]_vars => IInv'
<1> SUFFICES ASSUME IInv, [Next]_vars
             PROVE  IInv'
  OBVIOUS
<1>1. CASE Spawn
  BY <1>1, SpawnIInv
<1>2. CASE View
  BY <1>2, ViewIInv
<1>3. CASE Destroy
  BY <1>3, DestroyIInv
<1>4. CASE \/ ViewPanics \/ DestroyPanics \/ DestroyCrashes \/ Quit
           \/ FrameEnd \/ LoopCond \/ RetireCrashes \/ Exit
  BY <1>4, WalkIInv DEF Walk
<1>5. CASE FlushStep
  BY <1>5, FlushStepIInv
<1>6. CASE RetireStep
  BY <1>6, RetireStepIInv
<1>7. CASE FlushEnd
  BY <1>7, FlushEndIInv
<1>8. CASE UNCHANGED vars
  <2>1. UNCHANGED worldVars /\ UNCHANGED loopVars
    BY <1>8 DEF vars
  <2>2. SlotDiscipline' /\ HandlesIssued'
    BY <2>1, WorldUnchanged DEF worldVars
  <2>3. TypeOK'
    BY <2>1 DEF IInv, TypeOK, worldVars, loopVars
  <2>4. Position' /\ LoopDrained'
    BY <2>1 DEF IInv, Position, LoopDrained, worldVars, loopVars
  <2>5. ViewFidelity' /\ ObserversAlive'
    BY <2>1 DEF IInv, ViewFidelity, ObserversAlive, HandleOf, worldVars, loopVars
  <2> QED
    BY <2>2, <2>3, <2>4, <2>5 DEF IInv
<1>9. CASE Stopped
  BY <1>8, <1>9 DEF Stopped
<1> QED
  BY <1>1, <1>2, <1>3, <1>4, <1>5, <1>6, <1>7, <1>8, <1>9 DEF Next

\* The inductive invariant holds in every reachable state of every program.
THEOREM Inductive == Spec => []IInv
BY InitIInv, StepIInv, PTL DEF Spec

\* Every variable keeps its declared type, the 32-bit generation included.
THEOREM TypeCorrect == Spec => []TypeOK
<1>1. IInv => TypeOK
  BY DEF IInv
<1> QED
  BY <1>1, Inductive, PTL

\* hrd_runtime_world.cpp's bookkeeping is sound whatever the frames and the
\* onDestroy callbacks do: no slot is ever handed out twice or lost, the
\* queue and the pending flags agree, and every occupant has its slot.
THEOREM SlotsSound == Spec => []SlotDiscipline
<1>1. IInv => SlotDiscipline
  BY DEF IInv
<1> QED
  BY <1>1, Inductive, PTL

\* view_raw never shows a program another entity than the handle's own,
\* except in a slot the flush failed to give a new generation.
THEOREM ViewsFaithful == Spec => []ViewFidelity
<1>1. IInv => ViewFidelity
  BY DEF IInv
<1> QED
  BY <1>1, Inductive, PTL

\* An entity destroyed in a frame that observes it is freed only after the
\* frame: no observer is ever a pointer to freed memory.
THEOREM ObserversSafe == Spec => []ObserversAlive
<1>1. IInv => ObserversAlive
  BY DEF IInv
<1> QED
  BY <1>1, Inductive, PTL

\* A program that leaves its main loop has carried out every destroy.
THEOREM DrainedAtExit == Spec => []ExitDrained
<1>1. IInv => ExitDrained
  <2> SUFFICES ASSUME IInv, pc \in {"exit", "exited"}, entered
               PROVE  destroyQueue = <<>> /\ \A i \in Index : ~entities[i].pending
    BY DEF ExitDrained
  <2>1. destroyQueue = <<>>
    BY DEF IInv, LoopDrained
  <2>2. Queued = {}
    BY <2>1 DEF IInv, TypeOK, Queued
  <2> QED
    BY <2>1, <2>2 DEF IInv, SlotDiscipline, QueueDiscipline
<1> QED
  BY <1>1, Inductive, PTL

\* An exit through the main loop forgets no onDestroy, which docs/grammar.md
\* (5.4) promises in every case: the run init_quit shows the other exit.
THEOREM OnDestroyRunsOnceEntered == Spec => [](entered => OnDestroyAlwaysRuns)
<1>1. ExitDrained => (entered => OnDestroyAlwaysRuns)
  BY DEF ExitDrained, OnDestroyAlwaysRuns
<1> QED
  BY <1>1, DrainedAtExit, PTL

-----------------------------------------------------------------------------
(* The refinement *)

\* The conditions of the refinement.
Wide == GenMod > MaxEntities + 1 /\ ~OnDestroySpawns

\* A vacant slot has had at most as many occupants as there were spawns, and
\* one that is in use is one generation behind that.
Unwrapped ==
  /\ ~stale /\ tainted = {}
  /\ \A i \in Index : entities[i].gen <= born + 1
  /\ \A i \in Index : entities[i].alive \/ i = cur => entities[i].gen <= born

RInv == IInv /\ Unwrapped

-----------------------------------------------------------------------------
(* Generations *)

LEMMA InitUnwrapped == Init => Unwrapped
BY WorldAssumption DEF Init, WorldInit, Unwrapped, BlankSlot, None, Index

\* What the steps that change the world do, in terms of slots and objects.

LEMMA SpawnFacts ==
  ASSUME Wide, RInv, Spawn
  PROVE  \E i \in Index :
           /\ pc \in Frame /\ cur = None /\ ~entities[i].alive
           /\ born + 1 \in Entity /\ born' = born + 1
           /\ entities'[i].ptr = born + 1 /\ entities'[i].alive /\ ~entities'[i].pending
           /\ entities'[i].gen <= born + 1
           /\ \A j \in Index \ {i} : entities'[j] = entities[j]
           /\ life'[born + 1] = "live" /\ issued'[born + 1].idx = i
           /\ \A e \in Entity \ {born + 1} : life'[e] = life[e] /\ issued'[e] = issued[e]
           /\ UNCHANGED <<destroyQueue, cursor, cur, stale, tainted, pc, observers>>
<1> USE WorldAssumption DEF RInv, Unwrapped
<1>1. pc \in Frame /\ pc # "callback" /\ cur = None /\ UNCHANGED <<pc, observers>>
  BY DEF Spawn, Stays, Wide, IInv, Position, Frame, Aborted
<1>2. PICK hook \in BOOLEAN : SpawnReuse(hook) \/ SpawnGrow(hook)
  BY DEF Spawn
<1>3. born \in Nat /\ size \in Nat /\ size <= born /\ 1 .. born \subseteq Entity
  BY DEF IInv, TypeOK, Position, Entity
<1>4. PICK i \in Index, g \in Nat :
        /\ ~entities[i].alive /\ g <= born + 1
        /\ Occupy(i, g, hook)
        /\ born < MaxEntities
        /\ UNCHANGED <<destroyQueue, cursor, cur, stale, tainted>>
  <2>1. CASE SpawnReuse(hook)
    <3>1. PICK i \in Index : /\ ~entities[i].alive
                             /\ Occupy(i, entities[i].gen, hook)
                             /\ entities[i].gen \in 0 .. GenMod - 1
      BY <2>1, SpawnReuseFacts
    <3>2. entities[i].gen \in Nat /\ entities[i].gen <= born + 1
      BY <3>1
    <3> QED
      BY <2>1, <3>1, <3>2 DEF SpawnReuse
  <2>2. CASE SpawnGrow(hook)
    <3>1. size \in Index /\ ~entities[size].alive
      BY <1>3, <2>2 DEF SpawnGrow, Index, IInv, SlotDiscipline, SlotPartition
    <3>2. stale' = stale
      BY <1>1, <2>2 DEF SpawnGrow, IInv, TypeOK
    <3>3. born < MaxEntities /\ Occupy(size, 1, hook) /\ UNCHANGED <<destroyQueue, cursor, cur, tainted>>
      BY <2>2 DEF SpawnGrow
    <3>4. 1 \in Nat /\ 1 <= born + 1
      BY <1>3
    <3> QED
      BY <3>1, <3>2, <3>3, <3>4
  <2> QED
    BY <1>2, <2>1, <2>2
<1>5. born + 1 \in Entity /\ born' = born + 1
  BY <1>3, <1>4 DEF Entity, Occupy
<1>6. /\ entities'[i] = [ptr |-> born + 1, hook |-> hook, alive |-> TRUE, pending |-> FALSE, gen |-> g]
      /\ \A j \in Index \ {i} : entities'[j] = entities[j]
  BY <1>4 DEF Occupy, IInv, TypeOK
<1>7. /\ life'[born + 1] = "live" /\ \A e \in Entity \ {born + 1} : life'[e] = life[e]
  BY <1>4, <1>5 DEF Occupy, IInv, TypeOK
<1>8. /\ issued'[born + 1] = [idx |-> i, gen |-> g]
      /\ \A e \in Entity \ {born + 1} : issued'[e] = issued[e]
  BY <1>4, <1>5 DEF Occupy, IInv, TypeOK
<1> QED
  BY <1>1, <1>4, <1>5, <1>6, <1>7, <1>8

\* A handle that matches its slot is that of the entity in it.
LEMMA HandleMeansItsEntity ==
  ASSUME RInv, NEW o \in Held, Matches(HandleOf(o))
  PROVE  LET i == HandleOf(o).idx
         IN /\ o \in 1 .. born /\ HandleOf(o) = issued[o] /\ i \in Index
            /\ entities[i].ptr = o /\ entities[i].alive /\ life[o] = "live"
<1> USE WorldAssumption DEF RInv, Unwrapped
<1>1. o # 0
  <2> SUFFICES ASSUME o = 0 PROVE FALSE
    OBVIOUS
  <2>1. entities[0].gen = 0 /\ 0 \in Index
    BY DEF HandleOf, ZeroHandle, Matches, Index
  <2> QED
    BY <2>1 DEF IInv, HandlesIssued
<1>2. o \in 1 .. born /\ o \in Entity /\ HandleOf(o) = issued[o]
  BY <1>1 DEF Held, HandleOf, IInv, TypeOK, Entity
<1>3. issued[o].idx \in Index
  BY <1>2 DEF IInv, TypeOK, Handle
<1>4. entities[issued[o].idx].ptr = o /\ entities[issued[o].idx].alive
  BY <1>2, <1>3 DEF Matches, IInv, HandlesIssued
<1>5. \A i \in Index : entities[i].alive => life[entities[i].ptr] = "live"
  BY DEF IInv, SlotDiscipline, OccupantAgrees
<1>6. life[o] = "live"
  BY <1>3, <1>4, <1>5
<1> QED
  BY <1>2, <1>3, <1>4, <1>6

LEMMA DestroyFacts ==
  ASSUME RInv, Destroy
  PROVE  \E o \in 1 .. born :
           LET i == issued[o].idx
           IN /\ i \in Index /\ life[o] = "live"
              /\ entities[i].ptr = o /\ ~entities[i].pending
              /\ entities' = [entities EXCEPT ![i].pending = TRUE]
              /\ \A j \in Index \ {i} : entities'[j] = entities[j]
              /\ entities'[i].ptr = entities[i].ptr /\ entities'[i].gen = entities[i].gen
              /\ entities'[i].alive = entities[i].alive /\ entities'[i].pending
              /\ destroyQueue' = Append(destroyQueue, i)
              /\ pc \in Frame
              /\ UNCHANGED <<cursor, cur, stale, born, life, issued, tainted, pc, observers>>
<1> USE WorldAssumption
<1>1. PICK o \in Held : DestroyEntityRaw(HandleOf(o))
  BY DEF Destroy
<1>2. /\ o \in 1 .. born /\ HandleOf(o) = issued[o] /\ issued[o].idx \in Index
      /\ entities[issued[o].idx].ptr = o /\ life[o] = "live"
  BY <1>1, HandleMeansItsEntity DEF DestroyEntityRaw, Destroyable
<1> DEFINE i == issued[o].idx
<1>3. /\ ~entities[i].pending
      /\ entities' = [entities EXCEPT ![i].pending = TRUE]
      /\ destroyQueue' = Append(destroyQueue, i)
      /\ pc \in Frame
      /\ UNCHANGED <<cursor, cur, stale, born, life, issued, tainted, pc, observers>>
  BY <1>1, <1>2 DEF Destroy, DestroyEntityRaw, Destroyable, Stays
<1>4. entities \in [Index -> Slot] /\ entities[i] \in Slot /\ i \in Index
  BY <1>2 DEF RInv, IInv, TypeOK
<1> HIDE DEF i
<1>5. /\ entities'[i] = [entities[i] EXCEPT !.pending = TRUE]
      /\ \A j \in Index \ {i} : entities'[j] = entities[j]
  BY <1>3, <1>4
<1>6. /\ entities'[i].ptr = entities[i].ptr /\ entities'[i].gen = entities[i].gen
      /\ entities'[i].alive = entities[i].alive /\ entities'[i].pending
  BY <1>4, <1>5 DEF Slot
<1> QED
  BY <1>2, <1>3, <1>4, <1>5, <1>6 DEF i

LEMMA FlushFacts ==
  ASSUME RInv, FlushStep
  PROVE  LET i == destroyQueue[cursor + 1]
             e == entities[i].ptr
         IN /\ pc = "flush" /\ cur = None /\ observers = {}
            /\ cursor < Len(destroyQueue) /\ cursor' = cursor + 1
            /\ i \in Index /\ entities[i].alive /\ entities[i].pending
            /\ e \in 1 .. born /\ life[e] = "live" /\ issued[e].idx = i
            /\ cur' = i /\ i # None /\ entities'[i].gen = entities[i].gen
            /\ \A j \in Index : entities'[j].ptr = entities[j].ptr
            /\ ~entities'[i].alive /\ ~entities'[i].pending
            /\ \A j \in Index \ {i} : entities'[j] = entities[j]
            /\ life' = [life EXCEPT ![e] = "dying"]
            /\ pc' \in {"callback", "retire"} /\ observers' \in {{}, {<<e, e>>}}
            /\ ~stale' /\ UNCHANGED <<destroyQueue, born, issued, tainted>>
<1> DEFINE i == destroyQueue[cursor + 1]
           e == entities[i].ptr
<1> USE WorldAssumption DEF RInv, IInv
<1>1. /\ pc = "flush" /\ cur = None /\ observers = {}
      /\ cursor < Len(destroyQueue) /\ cursor' = cursor + 1 /\ ~stale'
      /\ UNCHANGED <<destroyQueue, born, issued, tainted>>
  BY DEF FlushStep, FlushTake, Position, Frame, Aborted
<1>2. i \in Index /\ i \in Queued
  BY <1>1 DEF TypeOK, Queued
<1>3. entities[i].pending /\ entities[i].alive
  BY <1>2 DEF SlotDiscipline, QueueDiscipline
<1>4. /\ entities' = [entities EXCEPT ![i].pending = FALSE, ![i].alive = FALSE]
      /\ life' = [life EXCEPT ![e] = "dying"] /\ cur' = i
  BY <1>3 DEF FlushStep, FlushTake
<1>5. e \in 1 .. born /\ life[e] = "live" /\ issued[e].idx = i
  <2>1. \A j \in Index : entities[j].alive =>
          /\ entities[j].ptr \in 1 .. born /\ life[entities[j].ptr] = "live"
          /\ issued[entities[j].ptr].idx = j
    <3> TAKE j \in Index
    <3> HAVE entities[j].alive
    <3>1. /\ entities[j].ptr \in 1 .. born /\ life[entities[j].ptr] = "live"
          /\ issued[entities[j].ptr] = [idx |-> j, gen |-> entities[j].gen]
      BY DEF SlotDiscipline, OccupantAgrees
    <3> QED
      BY <3>1
  <2> QED
    BY <1>2, <1>3, <2>1
<1>6. i # None
  BY <1>2 DEF Index, None
<1>7. entities[i] \in Slot /\ entities \in [Index -> Slot]
  BY <1>2 DEF TypeOK
<1> HIDE DEF i
<1>8. /\ entities'[i] = [entities[i] EXCEPT !.pending = FALSE, !.alive = FALSE]
      /\ \A j \in Index \ {i} : entities'[j] = entities[j]
  BY <1>2, <1>4, <1>7
<1>9. /\ entities'[i].ptr = e /\ entities'[i].gen = entities[i].gen
      /\ ~entities'[i].alive /\ ~entities'[i].pending
  BY <1>7, <1>8 DEF Slot
<1>10. pc' \in {"callback", "retire"} /\ observers' \in {{}, {<<e, e>>}}
  BY <1>4, <1>6 DEF FlushStep
<1> QED
  BY <1>1, <1>2, <1>3, <1>4, <1>5, <1>6, <1>8, <1>9, <1>10 DEF i

LEMMA RetireFacts ==
  ASSUME Wide, RInv, RetireStep
  PROVE  LET e == entities[cur].ptr
         IN /\ pc = "retire" /\ pc' = "flush" /\ observers = {} /\ observers' = {}
            /\ cur \in Index /\ cur # None /\ cur' = None /\ ~entities[cur].alive
            /\ e \in 1 .. born /\ e # 0
            /\ life[e] = "dying" /\ life' = [life EXCEPT ![e] = "freed"]
            /\ \A j \in Index \ {cur} : entities'[j] = entities[j]
            /\ entities'[cur].gen = entities[cur].gen + 1
            /\ entities'[cur].alive = entities[cur].alive
            /\ entities'[cur].pending = entities[cur].pending
            /\ ~stale' /\ tainted' = {}
            /\ UNCHANGED <<destroyQueue, cursor, born, issued>>
<1> DEFINE e == entities[cur].ptr
<1> USE WorldAssumption DEF RInv, Unwrapped, IInv
<1>1. /\ pc = "retire" /\ pc' = "flush" /\ observers' = observers /\ observers = {}
      /\ Retire /\ cur # None /\ cur \in Index
  BY DEF RetireStep, RetireLost, Position, Frame, Aborted, TypeOK
<1>2. /\ e \in 1 .. born /\ life[e] = "dying" /\ ~entities[cur].alive
  BY <1>1 DEF SlotDiscipline, OccupantAgrees, SlotPartition
<1>3. /\ entities[cur] \in Slot /\ entities[cur].gen \in 0 .. GenMod - 1
      /\ entities \in [Index -> Slot] /\ born \in 0 .. MaxEntities
  BY <1>1 DEF TypeOK, Slot
<1>4. Incr(entities[cur].gen) = entities[cur].gen + 1
  BY <1>1, <1>3 DEF Incr, Wide
<1>5. /\ entities'[cur] = Vacated(entities[cur])
      /\ \A j \in Index \ {cur} : entities'[j] = entities[j]
  BY <1>1, <1>3 DEF Retire
<1>6. /\ entities'[cur].gen = entities[cur].gen + 1
      /\ entities'[cur].alive = entities[cur].alive
      /\ entities'[cur].pending = entities[cur].pending
  BY <1>3, <1>4, <1>5 DEF Vacated, Slot
<1>7. tainted' = {} /\ ~stale' /\ cur' = None
      /\ UNCHANGED <<destroyQueue, cursor, born, issued>>
      /\ life' = [life EXCEPT ![e] = "freed"]
  BY <1>1, <1>3, <1>4 DEF Retire
<1> QED
  BY <1>1, <1>2, <1>3, <1>5, <1>6, <1>7

\* All other steps change neither slots nor objects.
LEMMA IdleFacts ==
  ASSUME [Next]_vars
  PROVE  \/ Spawn \/ Destroy \/ FlushStep \/ RetireStep
         \/ UNCHANGED <<entities, born, cur, stale, life, issued, tainted>>
BY DEF Next, View, ViewPanics, DestroyPanics, DestroyCrashes, Quit, WorldQuit, Halt, FrameEnd,
       LoopCond, RetireCrashes, FlushEnd, FlushClear, Exit, Stopped, vars, worldVars

\* No generation wraps: each one of a slot was used up by a spawn of its own.
LEMMA StepUnwrapped ==
  ASSUME Wide, RInv, IInv', [Next]_vars
  PROVE  Unwrapped'
<1> USE WorldAssumption DEF RInv, Unwrapped
<1>1. /\ born \in Nat /\ \A i \in Index : entities[i].gen \in Nat
  BY DEF IInv, TypeOK, Slot
<1>2. CASE Spawn
  <2>1. PICK i \in Index :
          /\ cur = None /\ born' = born + 1 /\ entities'[i].gen <= born + 1
          /\ \A j \in Index \ {i} : entities'[j] = entities[j]
          /\ UNCHANGED <<cur, stale, tainted>>
    BY <1>2, SpawnFacts
  <2>2. ASSUME NEW j \in Index PROVE entities'[j].gen <= born' /\ entities'[j].gen <= born' + 1
    <3>0. entities'[j].gen \in Nat /\ born' \in Nat
      BY DEF IInv, TypeOK, Slot
    <3>1. CASE j = i
      BY <1>1, <2>1, <3>0, <3>1
    <3>2. CASE j # i
      BY <1>1, <2>1, <3>0, <3>2
    <3> QED
      BY <3>1, <3>2
  <2> QED
    BY <1>1, <2>1, <2>2
<1>3. CASE Destroy
  <2>1. PICK i \in Index :
          /\ entities'[i].gen = entities[i].gen /\ entities'[i].alive = entities[i].alive
          /\ \A j \in Index \ {i} : entities'[j] = entities[j]
          /\ UNCHANGED <<born, cur, stale, tainted>>
    BY <1>3, DestroyFacts
  <2> QED
    BY <1>1, <2>1
<1>4. CASE FlushStep
  <2> DEFINE i == destroyQueue[cursor + 1]
  <2>1. /\ i \in Index /\ cur' = i /\ entities[i].alive /\ entities'[i].gen = entities[i].gen
        /\ \A j \in Index \ {i} : entities'[j] = entities[j]
        /\ ~stale' /\ UNCHANGED <<born, tainted>>
    BY <1>4, FlushFacts
  <2> HIDE DEF i
  <2> QED
    BY <1>1, <2>1
<1>5. CASE RetireStep
  <2>1. /\ cur \in Index /\ cur' = None /\ ~entities[cur].alive
        /\ entities'[cur].gen = entities[cur].gen + 1 /\ entities'[cur].alive = entities[cur].alive
        /\ \A j \in Index \ {cur} : entities'[j] = entities[j]
        /\ ~stale' /\ tainted' = {} /\ born' = born
    BY <1>5, RetireFacts
  <2>2. cur' \notin Index
    BY <2>1 DEF Index, None
  <2> QED
    BY <1>1, <2>1, <2>2
<1>6. CASE UNCHANGED <<entities, born, cur, stale, life, issued, tainted>>
  BY <1>6
<1> QED
  BY <1>2, <1>3, <1>4, <1>5, <1>6, IdleFacts

-----------------------------------------------------------------------------
(* The registry *)

Live  == {e \in 1 .. born : life[e] = "live" /\ ~Doomed(e)}
Dying == IF cur = None THEN 0 ELSE entities[cur].ptr

\* The slots in the queue have not been processed.
LEMMA QueuedSlots ==
  ASSUME IInv
  PROVE  /\ Len(destroyQueue) \in Nat /\ cursor \in Nat /\ cursor <= Len(destroyQueue)
         /\ \A k \in 1 .. Len(destroyQueue) - cursor :
              /\ destroyQueue[cursor + k] \in Index
              /\ entities[destroyQueue[cursor + k]].alive
              /\ entities[destroyQueue[cursor + k]].pending
<1> USE DEF IInv
<1>1. /\ Len(destroyQueue) \in Nat /\ cursor \in Nat /\ cursor <= Len(destroyQueue)
      /\ \A k \in 1 .. Len(destroyQueue) : destroyQueue[k] \in Index
  BY DEF TypeOK
<1>2. ASSUME NEW k \in 1 .. Len(destroyQueue) - cursor
      PROVE  /\ destroyQueue[cursor + k] \in Index
             /\ entities[destroyQueue[cursor + k]].alive
             /\ entities[destroyQueue[cursor + k]].pending
  <2>1. cursor + k \in cursor + 1 .. Len(destroyQueue) /\ destroyQueue[cursor + k] \in Index
    BY <1>1
  <2>2. destroyQueue[cursor + k] \in Queued
    BY <2>1 DEF Queued
  <2> QED
    BY <2>1, <2>2 DEF SlotDiscipline, QueueDiscipline
<1> QED
  BY <1>1, <1>2

\* Where an entity that is alive is.
LEMMA LiveEntities ==
  ASSUME RInv, NEW e \in 1 .. born, life[e] = "live"
  PROVE  /\ e \in Entity /\ issued[e].idx \in Index /\ issued[e].idx < size
         /\ entities[issued[e].idx].alive /\ entities[issued[e].idx].ptr = e
         /\ entities[issued[e].idx].gen = issued[e].gen
<1> USE DEF RInv, IInv
<1>1. e \in Entity
  BY WorldAssumption DEF TypeOK, Entity
<1>2. issued[e].idx \in Index
  BY <1>1 DEF TypeOK, Handle
<1>3. entities[issued[e].idx].alive /\ entities[issued[e].idx].ptr = e /\ issued[e].idx < size
  BY <1>1 DEF SlotDiscipline, OccupantAgrees, HandlesIssued
<1>4. issued[entities[issued[e].idx].ptr] = [idx |-> issued[e].idx, gen |-> entities[issued[e].idx].gen]
  BY <1>2, <1>3 DEF SlotDiscipline, OccupantAgrees
<1> QED
  BY <1>1, <1>2, <1>3, <1>4

\* What is refused is a misuse in the registry's sense.
LEMMA RefusedIsMisuse ==
  ASSUME RInv, NEW o \in Held, InBounds(HandleOf(o)) => ~Destroyable(HandleOf(o))
  PROVE  o \in 0 .. born /\ o \notin Live
<1>1. born \in Nat /\ o \in 0 .. born
  BY DEF Held, RInv, IInv, TypeOK
<1>2. ASSUME o \in Live PROVE FALSE
  <2>1. o \in 1 .. born /\ life[o] = "live" /\ ~entities[issued[o].idx].pending /\ HandleOf(o) = issued[o]
    BY <1>1, <1>2 DEF Live, Doomed, HandleOf
  <2>2. InBounds(issued[o]) /\ Destroyable(issued[o])
    BY <2>1, LiveEntities DEF InBounds, Destroyable, Matches
  <2> QED
    BY <2>1, <2>2
<1> QED
  BY <1>1, <1>2

LEMMA SpawnRefines ==
  ASSUME Wide, RInv, Spawn
  PROVE  Registry!Spawn /\ pc \notin Aborted /\ pc' = pc
<1> USE DEF RInv
<1>1. PICK i \in Index :
           /\ pc \in Frame /\ cur = None /\ ~entities[i].alive
           /\ born + 1 \in Entity /\ born' = born + 1
           /\ entities'[i].ptr = born + 1 /\ entities'[i].alive /\ ~entities'[i].pending
           /\ \A j \in Index \ {i} : entities'[j] = entities[j]
           /\ life'[born + 1] = "live" /\ issued'[born + 1].idx = i
           /\ \A e \in Entity \ {born + 1} : life'[e] = life[e] /\ issued'[e] = issued[e]
           /\ UNCHANGED <<destroyQueue, cursor, cur, pc, observers>>
  BY SpawnFacts
<1>2. born \in Nat /\ born < MaxEntities
  BY <1>1, WorldAssumption DEF Entity, IInv, TypeOK
<1>3. Live' = Live \cup {born + 1}
  <2>1. ASSUME NEW e \in 1 .. born
        PROVE  life'[e] = life[e] /\ (life[e] = "live" => (Doomed(e)' <=> Doomed(e)))
    <3>1. e \in Entity \ {born + 1}
      BY <1>2, <2>1, WorldAssumption DEF Entity
    <3>2. life'[e] = life[e] /\ issued'[e] = issued[e]
      BY <1>1, <3>1
    <3>3. ASSUME life[e] = "live"
          PROVE  entities'[issued[e].idx] = entities[issued[e].idx]
      BY <1>1, <3>3, LiveEntities
    <3> QED
      BY <3>2, <3>3 DEF Doomed
  <2>2. life'[born + 1] = "live" /\ ~entities'[issued'[born + 1].idx].pending
    BY <1>1
  <2>3. 1 .. born' = (1 .. born) \cup {born + 1}
    BY <1>1, <1>2
  <2> QED
    BY <1>2, <2>1, <2>2, <2>3 DEF Live, Doomed
<1>4. DoomedSeq' = DoomedSeq
  <2>1. \A k \in 1 .. Len(destroyQueue) - cursor :
          entities'[destroyQueue[cursor + k]].ptr = entities[destroyQueue[cursor + k]].ptr
    BY <1>1, QueuedSlots
  <2> QED
    BY <1>1, <2>1 DEF DoomedSeq
<1>5. Dying' = Dying /\ pc \notin Aborted
  BY <1>1 DEF Dying, Frame, Aborted
<1> QED
  BY <1>1, <1>2, <1>3, <1>4, <1>5 DEF Registry!Spawn, Live, Dying

\* A function on an initial segment is a sequence.
LEMMA WaitingIsSeq ==
  ASSUME NEW queue, NEW slots, NEW c, NEW n \in Nat,
         \A k \in 1 .. n : slots[queue[c + k]].ptr \in Nat
  PROVE  LET s == [k \in 1 .. n |-> slots[queue[c + k]].ptr]
         IN s \in Seq(Nat) /\ Len(s) = n
OBVIOUS

LEMMA DestroyRefines ==
  ASSUME RInv, Destroy
  PROVE  (\E e \in Live : Registry!Destroy(e)) /\ pc \notin Aborted /\ pc' = pc
<1> USE DEF RInv
<1>1. PICK o \in 1 .. born :
           LET i == issued[o].idx
           IN /\ i \in Index /\ life[o] = "live"
              /\ entities[i].ptr = o /\ ~entities[i].pending
              /\ \A j \in Index \ {i} : entities'[j] = entities[j]
              /\ entities'[i].ptr = entities[i].ptr /\ entities'[i].pending
              /\ destroyQueue' = Append(destroyQueue, i)
              /\ pc \in Frame
              /\ UNCHANGED <<cursor, cur, born, life, issued, pc, observers>>
  BY DestroyFacts
<1> DEFINE i == issued[o].idx
           n == Len(destroyQueue) - cursor
<1>2. o \in Live
  BY <1>1 DEF Live, Doomed
<1>3. Live' = Live \ {o}
  <2>1. ASSUME NEW e \in 1 .. born, e # o, life[e] = "live" PROVE Doomed(e)' <=> Doomed(e)
    <3>1. issued[e].idx \in Index \ {i}
      BY <1>1, <2>1, LiveEntities
    <3> QED
      BY <1>1, <3>1 DEF Doomed
  <2>2. Doomed(o)'
    BY <1>1 DEF Doomed
  <2> QED
    BY <1>1, <2>1, <2>2 DEF Live
<1>4. DoomedSeq' = Append(DoomedSeq, o)
  <2>1. /\ n \in Nat /\ i \in Index /\ destroyQueue \in Seq(Index) /\ cursor \in Nat
        /\ Len(destroyQueue') = Len(destroyQueue) + 1
        /\ destroyQueue'[Len(destroyQueue) + 1] = i
        /\ \A k \in 1 .. Len(destroyQueue) : destroyQueue'[k] = destroyQueue[k]
    BY <1>1, PushBack, QueuedSlots DEF IInv, TypeOK
  <2>2. \A k \in 1 .. n : /\ destroyQueue'[cursor + k] = destroyQueue[cursor + k]
                          /\ entities[destroyQueue[cursor + k]].ptr \in Nat
                          /\ entities'[destroyQueue[cursor + k]].ptr
                               = entities[destroyQueue[cursor + k]].ptr
    <3> TAKE k \in 1 .. n
    <3>1. destroyQueue[cursor + k] \in Index /\ cursor + k \in 1 .. Len(destroyQueue)
      BY <2>1, QueuedSlots
    <3>2. entities[destroyQueue[cursor + k]].ptr \in Nat
      BY <3>1, WorldAssumption DEF IInv, TypeOK, Slot, Entity, Null
    <3> QED
      BY <1>1, <2>1, <3>1, <3>2
  <2>3. destroyQueue'[cursor + (n + 1)] = i
    BY <2>1
  <2> HIDE DEF n, i
  <2>4. Len(destroyQueue') - cursor' = n + 1
    BY <1>1, <2>1 DEF n
  <2> DEFINE s == [k \in 1 .. n |-> entities[destroyQueue[cursor + k]].ptr]
             t == [k \in 1 .. n + 1 |-> entities'[destroyQueue'[cursor + k]].ptr]
  <2>5. DoomedSeq = s /\ DoomedSeq' = t
    BY <1>1, <2>4 DEF DoomedSeq, n
  <2>6. s \in Seq(Nat) /\ Len(s) = n
    BY <2>1, <2>2, WaitingIsSeq
  <2>7. entities'[i].ptr = o /\ o \in Nat
    BY <1>1 DEF i
  <2>8. t[n + 1] = o /\ \A k \in 1 .. n : t[k] = s[k]
    <3>1. n + 1 \in 1 .. n + 1 /\ 1 .. n \subseteq 1 .. n + 1
      BY <2>1
    <3>2. t[n + 1] = entities'[destroyQueue'[cursor + (n + 1)]].ptr
      BY <3>1
    <3>3. \A k \in 1 .. n : /\ t[k] = entities'[destroyQueue'[cursor + k]].ptr
                            /\ s[k] = entities[destroyQueue[cursor + k]].ptr
      BY <3>1
    <3> HIDE DEF s, t
    <3> QED
      BY <2>2, <2>3, <2>7, <3>2, <3>3
  <2>9. n + 1 \in Nat /\ \A k \in 1 .. n + 1 : entities'[destroyQueue'[cursor + k]].ptr \in Nat
    <3>1. ASSUME NEW k \in 1 .. n + 1 PROVE entities'[destroyQueue'[cursor + k]].ptr \in Nat
      <4>1. CASE k = n + 1
        BY <2>3, <2>7, <4>1
      <4>2. CASE k # n + 1
        <5>1. k \in 1 .. n
          BY <2>1, <4>2
        <5> QED
          BY <2>2, <5>1
      <4> QED
        BY <4>1, <4>2
    <3> QED
      BY <2>1, <3>1
  <2>10. t \in Seq(Nat) /\ Len(t) = n + 1
    BY <2>9, WaitingIsSeq
  <2> HIDE DEF s, t
  <2>11. /\ Append(s, o) \in Seq(Nat) /\ Len(Append(s, o)) = n + 1 /\ Append(s, o)[n + 1] = o
         /\ \A k \in 1 .. n : Append(s, o)[k] = s[k]
    BY <2>6, <2>7, PushBack
  <2>12. \A k \in 1 .. n + 1 : t[k] = Append(s, o)[k]
    BY <2>1, <2>8, <2>11
  <2> QED
    BY <2>5, <2>10, <2>11, <2>12, SeqEqual
<1>5. Dying' = Dying
  <2>1. cur # None => cur \in Index
    BY DEF IInv, TypeOK
  <2> QED
    BY <1>1, <2>1 DEF Dying
<1>6. Registry!Destroy(o)
  BY <1>1, <1>2, <1>3, <1>4, <1>5 DEF Registry!Destroy, Live, Dying, Frame, Aborted
<1> QED
  BY <1>1, <1>2, <1>6 DEF Frame, Aborted

LEMMA FlushRefines ==
  ASSUME RInv, FlushStep
  PROVE  Registry!CarryOff /\ pc \notin Aborted /\ pc' \notin Aborted
<1> USE DEF RInv
<1> DEFINE i == destroyQueue[cursor + 1]
           e == entities[i].ptr
           n == Len(destroyQueue) - cursor
<1>1. /\ pc = "flush" /\ cur = None /\ observers = {}
      /\ cursor < Len(destroyQueue) /\ cursor' = cursor + 1
      /\ i \in Index /\ entities[i].pending
      /\ e \in 1 .. born /\ life[e] = "live" /\ issued[e].idx = i
      /\ cur' = i /\ i # None
      /\ \A j \in Index : entities'[j].ptr = entities[j].ptr
      /\ \A j \in Index \ {i} : entities'[j] = entities[j]
      /\ life' = [life EXCEPT ![e] = "dying"]
      /\ pc' \in {"callback", "retire"} /\ observers' \in {{}, {<<e, e>>}}
      /\ UNCHANGED <<destroyQueue, born, issued>>
  BY FlushFacts
<1>2. Dying = 0 /\ Dying' = e
  BY <1>1 DEF Dying
<1>3. Live' = Live
  <2>1. life'[e] = "dying" /\ \A d \in Entity \ {e} : life'[d] = life[d]
    <3>1. e \in Entity
      BY <1>1, WorldAssumption DEF IInv, TypeOK, Entity
    <3> QED
      BY <1>1, <3>1 DEF IInv, TypeOK
  <2> HIDE DEF e
  <2>2. ASSUME NEW d \in 1 .. born, d # e
        PROVE  life'[d] = life[d] /\ (life[d] = "live" => (Doomed(d)' <=> Doomed(d)))
    <3>1. d \in Entity
      BY WorldAssumption DEF IInv, TypeOK, Entity
    <3>2. life'[d] = life[d] /\ issued'[d] = issued[d]
      BY <1>1, <2>1, <2>2, <3>1
    <3>3. ASSUME life[d] = "live" PROVE entities'[issued[d].idx] = entities[issued[d].idx]
      BY <1>1, <2>2, <3>3, LiveEntities DEF e
    <3> QED
      BY <3>2, <3>3 DEF Doomed
  <2>3. e \notin Live /\ e \notin Live'
    BY <1>1, <2>1 DEF Live, Doomed
  <2> QED
    BY <1>1, <2>2, <2>3 DEF Live
<1>4. DoomedSeq # <<>> /\ e = Head(DoomedSeq) /\ DoomedSeq' = Tail(DoomedSeq)
  <2>1. n \in Nat /\ n # 0 /\ n - 1 \in Nat /\ cursor \in Nat
    BY <1>1, QueuedSlots
  <2>2. \A k \in 1 .. n : /\ entities[destroyQueue[cursor + k]].ptr \in Nat
                          /\ entities'[destroyQueue[cursor + k]].ptr
                               = entities[destroyQueue[cursor + k]].ptr
    <3> TAKE k \in 1 .. n
    <3>1. destroyQueue[cursor + k] \in Index
      BY QueuedSlots
    <3>2. entities[destroyQueue[cursor + k]].ptr \in Nat
      BY <3>1, WorldAssumption DEF IInv, TypeOK, Slot, Entity, Null
    <3> QED
      BY <1>1, <3>1, <3>2
  <2> HIDE DEF n
  <2>3. Len(destroyQueue') - cursor' = n - 1
    BY <1>1, <2>1 DEF n
  <2> DEFINE s == [k \in 1 .. n |-> entities[destroyQueue[cursor + k]].ptr]
             t == [k \in 1 .. n - 1 |-> entities'[destroyQueue'[cursor' + k]].ptr]
  <2>4. DoomedSeq = s /\ DoomedSeq' = t
    BY <2>3 DEF DoomedSeq, n
  <2>5. s \in Seq(Nat) /\ Len(s) = n
    BY <2>1, <2>2, WaitingIsSeq
  <2>6. s[1] = e
    BY <2>1
  <2>7. \A k \in 1 .. n - 1 : /\ entities'[destroyQueue'[cursor' + k]].ptr = s[k + 1]
                              /\ s[k + 1] \in Nat
    <3> TAKE k \in 1 .. n - 1
    <3>1. k + 1 \in 1 .. n /\ cursor' + k = cursor + (k + 1)
      BY <1>1, <2>1
    <3>2. s[k + 1] = entities[destroyQueue[cursor + (k + 1)]].ptr
      BY <3>1
    <3> HIDE DEF s
    <3> QED
      BY <1>1, <2>2, <3>1, <3>2
  <2>8. t \in Seq(Nat) /\ Len(t) = n - 1
    <3>1. \A k \in 1 .. n - 1 : entities'[destroyQueue'[cursor' + k]].ptr \in Nat
      BY <2>7
    <3> QED
      BY <2>1, <3>1, WaitingIsSeq
  <2>9. \A k \in 1 .. n - 1 : t[k] = s[k + 1]
    BY <2>7
  <2> HIDE DEF s, t
  <2>10. s # <<>>
    BY <2>1, <2>5
  <2>11. /\ Tail(s) \in Seq(Nat) /\ Len(Tail(s)) = n - 1 /\ Head(s) = s[1]
         /\ \A k \in 1 .. n - 1 : Tail(s)[k] = s[k + 1]
    BY <2>5, <2>10, HeadTailProperties
  <2>12. t = Tail(s)
    BY <2>8, <2>9, <2>11, SeqEqual
  <2> QED
    BY <2>4, <2>6, <2>10, <2>11, <2>12
<1> HIDE DEF i, e
<1>5. pc \notin Aborted /\ pc' \notin Aborted
  BY <1>1 DEF Aborted
<1> QED
  BY <1>1, <1>2, <1>3, <1>4, <1>5 DEF Registry!CarryOff, Live, Dying

LEMMA RetireRefines ==
  ASSUME Wide, RInv, RetireStep
  PROVE  Registry!Forget /\ pc \notin Aborted /\ pc' \notin Aborted
<1> USE DEF RInv
<1> DEFINE e == entities[cur].ptr
<1>1. /\ pc = "retire" /\ pc' = "flush" /\ observers = {} /\ observers' = {}
      /\ cur \in Index /\ cur # None /\ cur' = None /\ ~entities[cur].alive
      /\ e \in 1 .. born /\ e # 0
      /\ life[e] = "dying" /\ life' = [life EXCEPT ![e] = "freed"]
      /\ \A j \in Index \ {cur} : entities'[j] = entities[j]
      /\ UNCHANGED <<destroyQueue, cursor, born, issued>>
  BY RetireFacts
<1>2. Dying = e /\ Dying' = 0
  BY <1>1 DEF Dying
<1>3. Live' = Live
  <2>1. life'[e] = "freed" /\ \A d \in Entity \ {e} : life'[d] = life[d]
    <3>1. e \in Entity
      BY <1>1, WorldAssumption DEF IInv, TypeOK, Entity
    <3> QED
      BY <1>1, <3>1 DEF IInv, TypeOK
  <2> HIDE DEF e
  <2>2. ASSUME NEW d \in 1 .. born, d # e
        PROVE  life'[d] = life[d] /\ (life[d] = "live" => (Doomed(d)' <=> Doomed(d)))
    <3>1. d \in Entity
      BY WorldAssumption DEF IInv, TypeOK, Entity
    <3>2. life'[d] = life[d] /\ issued'[d] = issued[d]
      BY <1>1, <2>1, <2>2, <3>1
    <3>3. ASSUME life[d] = "live" PROVE entities'[issued[d].idx] = entities[issued[d].idx]
      BY <1>1, <3>3, LiveEntities
    <3> QED
      BY <3>2, <3>3 DEF Doomed
  <2>3. e \notin Live /\ e \notin Live'
    BY <1>1, <2>1 DEF Live
  <2> QED
    BY <1>1, <2>2, <2>3 DEF Live
<1>4. DoomedSeq' = DoomedSeq
  <2>1. \A k \in 1 .. Len(destroyQueue) - cursor :
          entities'[destroyQueue[cursor + k]].ptr = entities[destroyQueue[cursor + k]].ptr
    BY <1>1, QueuedSlots
  <2> QED
    BY <1>1, <2>1 DEF DoomedSeq
<1> HIDE DEF e
<1>5. pc \notin Aborted /\ pc' \notin Aborted
  BY <1>1 DEF Aborted
<1> QED
  BY <1>1, <1>2, <1>3, <1>4, <1>5 DEF Registry!Forget, Live, Dying

\* What the registry shows of a world that does not change.
LEMMA SameWorld ==
  ASSUME UNCHANGED <<entities, destroyQueue, cursor, cur, born, life, issued>>
  PROVE  Live' = Live /\ DoomedSeq' = DoomedSeq /\ Dying' = Dying /\ born' = born
BY DEF Live, Doomed, DoomedSeq, Dying

LEMMA ViewRefines ==
  ASSUME RInv, View
  PROVE  (\E e \in Live : Registry!View(e)) /\ pc \notin Aborted /\ pc' = pc
<1>1. PICK o \in Held : /\ Viewable(HandleOf(o))
                        /\ observers' = observers \cup {<<o, ViewRaw(HandleOf(o))>>}
  BY DEF View
<1>2. /\ o \in 1 .. born /\ HandleOf(o) = issued[o] /\ entities[HandleOf(o).idx].ptr = o
      /\ life[o] = "live"
  BY <1>1, HandleMeansItsEntity DEF Viewable
<1>3. o \in Live /\ ViewRaw(HandleOf(o)) = o
  BY <1>1, <1>2 DEF Live, Doomed, Viewable, ViewRaw
<1>4. pc \notin Aborted /\ pc' = pc
  BY DEF View, Stays, Frame, Aborted
<1>5. Live' = Live /\ DoomedSeq' = DoomedSeq /\ Dying' = Dying /\ born' = born
  BY SameWorld DEF View, worldVars
<1>6. Registry!View(o)
  BY <1>1, <1>3, <1>4, <1>5 DEF Registry!View, Live, Dying
<1> QED
  BY <1>3, <1>4, <1>6

LEMMA MisuseRefines ==
  ASSUME RInv, ViewPanics \/ DestroyPanics \/ DestroyCrashes
  PROVE  Registry!Misuse /\ pc \notin Aborted
<1>1. PICK o \in Held : InBounds(HandleOf(o)) => ~Destroyable(HandleOf(o))
  BY DEF ViewPanics, DestroyPanics, DestroyCrashes, Viewable, Destroyable
<1>2. o \in 0 .. born /\ o \notin Live
  BY <1>1, RefusedIsMisuse
<1>3. pc \notin Aborted /\ pc' \in Aborted /\ UNCHANGED <<worldVars, observers>>
  BY DEF ViewPanics, DestroyPanics, DestroyCrashes, Halt, Frame, Aborted
<1>4. Live' = Live /\ DoomedSeq' = DoomedSeq /\ Dying' = Dying /\ born' = born
  BY <1>3, SameWorld DEF worldVars
<1> QED
  BY <1>2, <1>3, <1>4 DEF Registry!Misuse, Live, Dying

LEMMA FrameEndRefines ==
  ASSUME FrameEnd
  PROVE  Registry!FrameEnd /\ pc \notin Aborted
<1>1. pc \notin Aborted /\ pc' \notin Aborted /\ observers' = {} /\ UNCHANGED worldVars
  BY DEF FrameEnd, Frame, Aborted
<1>2. Live' = Live /\ DoomedSeq' = DoomedSeq /\ Dying' = Dying /\ born' = born
  BY <1>1, SameWorld DEF worldVars
<1> QED
  BY <1>1, <1>2 DEF Registry!FrameEnd, Live, Dying

\* The entry function's own steps, and quit, are not seen.
LEMMA UnseenRefines ==
  ASSUME RInv, \/ Quit \/ LoopCond \/ FlushEnd \/ Exit \/ Stopped \/ UNCHANGED vars
  PROVE  UNCHANGED Registry!vars
<1>1. (pc' \in Aborted) = (pc \in Aborted)
  BY DEF Quit, Stays, LoopCond, FlushEnd, Exit, Stopped, vars, loopVars, Aborted
<1>2. CASE FlushEnd
  <2>1. /\ UNCHANGED <<entities, cur, born, life, issued, observers>>
        /\ cursor = Len(destroyQueue) /\ cursor' = 0 /\ destroyQueue' = <<>>
    BY <1>2 DEF FlushEnd, FlushClear
  <2>2. Live' = Live /\ Dying' = Dying
    BY <2>1 DEF Live, Doomed, Dying
  <2>3. Len(destroyQueue) - cursor = 0 /\ Len(destroyQueue') - cursor' = 0
    BY <2>1, QueuedSlots DEF RInv
  <2>4. DoomedSeq' = DoomedSeq
    BY <2>3 DEF DoomedSeq
  <2> QED
    BY <1>1, <2>1, <2>2, <2>4 DEF Registry!vars, Live, Dying
<1>3. CASE Quit \/ LoopCond \/ Exit \/ Stopped \/ UNCHANGED vars
  <2>1. UNCHANGED <<entities, destroyQueue, cursor, cur, born, life, issued, observers>>
    BY <1>3 DEF Quit, WorldQuit, LoopCond, Exit, Stopped, vars, worldVars, loopVars
  <2>2. Live' = Live /\ DoomedSeq' = DoomedSeq /\ Dying' = Dying
    BY <2>1, SameWorld
  <2> QED
    BY <1>1, <2>1, <2>2 DEF Registry!vars, Live, Dying
<1> QED
  BY <1>2, <1>3

LEMMA InitRefines == Init => Registry!Init
<1> SUFFICES ASSUME Init PROVE Registry!Init
  OBVIOUS
<1>1. /\ born = 0 /\ cursor = 0 /\ destroyQueue = <<>> /\ cur = None
      /\ observers = {} /\ pc \notin Aborted
  BY DEF Init, WorldInit, Aborted
<1>2. Live = {} /\ Dying = 0 /\ DoomedSeq = <<>>
  BY <1>1 DEF Live, Dying, DoomedSeq
<1> QED
  BY <1>1, <1>2 DEF Registry!Init, Live, Dying

LEMMA StepRefines ==
  ASSUME Wide, RInv, [Next]_vars
  PROVE  [Registry!Next]_(Registry!vars)
<1>1. CASE Spawn
  BY <1>1, SpawnRefines DEF Registry!Next
<1>2. CASE View
  BY <1>2, ViewRefines DEF Registry!Next, Live
<1>3. CASE Destroy
  BY <1>3, DestroyRefines DEF Registry!Next, Live
<1>4. CASE ViewPanics \/ DestroyPanics \/ DestroyCrashes
  BY <1>4, MisuseRefines DEF Registry!Next
<1>5. CASE FrameEnd
  BY <1>5, FrameEndRefines DEF Registry!Next
<1>6. CASE FlushStep
  BY <1>6, FlushRefines DEF Registry!Next
<1>7. CASE RetireStep
  BY <1>7, RetireRefines DEF Registry!Next
<1>8. CASE \/ Quit \/ LoopCond \/ FlushEnd \/ Exit \/ Stopped \/ UNCHANGED vars
  BY <1>8, UnseenRefines
<1>9. ~RetireCrashes
  BY DEF RInv, Unwrapped, RetireCrashes
<1> QED
  BY <1>1, <1>2, <1>3, <1>4, <1>5, <1>6, <1>7, <1>8, <1>9 DEF Next

-----------------------------------------------------------------------------
(* The theorems. *)

\* No slot is ever tainted: where handles lead astray in the code as it is, an
\* onDestroy has spawned or a generation has wrapped.
THEOREM NeverTainted ==
  ASSUME Wide
  PROVE  Spec => [](tainted = {})
<1>1. Init => RInv
  BY InitIInv, InitUnwrapped DEF RInv
<1>2. RInv /\ [Next]_vars => RInv'
  BY StepIInv, StepUnwrapped DEF RInv
<1>3. RInv => tainted = {}
  BY DEF RInv, Unwrapped
<1> QED
  BY <1>1, <1>2, <1>3, PTL DEF Spec

\* The slots, generations, free list and queue of hrd_runtime_world.cpp
\* implement the registry: a handle means one entity for ever, an entity that
\* was destroyed can be neither viewed nor destroyed again, and destroyed
\* entities are carried off once each in the order of the requests.
THEOREM ImplementsRegistry ==
  ASSUME Wide
  PROVE  Spec => RegistrySpec
<1>1. Init => RInv
  BY InitIInv, InitUnwrapped DEF RInv
<1>2. RInv /\ [Next]_vars => RInv'
  BY StepIInv, StepUnwrapped DEF RInv
<1>3. RInv /\ [Next]_vars => [Registry!Next]_(Registry!vars)
  BY StepRefines
<1>4. Init => Registry!Init
  BY InitRefines
<1> QED
  BY <1>1, <1>2, <1>3, <1>4, PTL DEF Spec, RegistrySpec, Registry!Spec

\* A handle to an entity that was removed can be neither viewed nor destroyed
\* again, as docs/grammar.md (8.10) says of it: what the run stale_reference
\* refutes needs an onDestroy that spawns, or a generation that wraps.
THEOREM HandlesInvalidOnceRemoved ==
  ASSUME Wide
  PROVE  Spec => []RemovedHandlesInvalid
<1>1. Init => RInv
  BY InitIInv, InitUnwrapped DEF RInv
<1>2. RInv /\ [Next]_vars => RInv'
  BY StepIInv, StepUnwrapped DEF RInv
<1>3. ASSUME RInv PROVE RemovedHandlesInvalid
  <2> SUFFICES ASSUME NEW e \in 1 .. born, life[e] = "freed", Viewable(issued[e])
               PROVE  FALSE
    BY DEF RemovedHandlesInvalid
  <2>1. e \in Held /\ HandleOf(e) = issued[e]
    BY DEF Held, HandleOf
  <2>2. Matches(HandleOf(e))
    BY <2>1 DEF Viewable
  <2>3. life[e] = "live"
    BY <1>3, <2>1, <2>2, HandleMeansItsEntity
  <2> QED
    BY <2>3
<1> QED
  BY <1>1, <1>2, <1>3, PTL DEF Spec
=============================================================================
