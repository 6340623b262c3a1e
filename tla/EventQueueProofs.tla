--------------------------- MODULE EventQueueProofs ---------------------------
(***************************************************************************)
(* Proofs about EventQueue for every queue size, set of screens and bound: *)
(* type correctness, the stability of the slot being read, and the         *)
(* refinement of OrderedDelivery.                                          *)
(***************************************************************************)
EXTENDS EventQueue, TLAPS

(* A consumer step's frame, and what the producer may not touch. *)
USE QueueAssumption

IsKey(i) == Live(i) /\ events[i].type = "key"

(* The slot before the tail, which mieqEnqueue may overwrite, holds a       *)
(* motion event whenever lastMotion says so.                                *)
NewestIsMotion == lastMotion /\ head # tail => events[PrevSlot(tail)].type = "motion"

(* Key events stand in the ring in the order of their serials ... *)
KeysInOrder ==
  \A i, j \in Slots : IsKey(i) /\ IsKey(j) /\ Dist(i) < Dist(j) => events[i].n < events[j].n

(* ... and are younger than what has left or is being delivered. *)
KeysAreYoung ==
  /\ serial <= MaxSerial /\ seen.key <= serial
  /\ \A i \in Slots : IsKey(i) => seen.key < events[i].n /\ events[i].n <= serial
  /\ pc = "call" /\ xe.type = "key" =>
       /\ seen.key < xe.n /\ xe.n <= serial
       /\ \A i \in Slots : IsKey(i) => xe.n < events[i].n

QueueInv == TypeOK /\ HeadIsStable /\ NewestIsMotion /\ KeysInOrder /\ KeysAreYoung

-----------------------------------------------------------------------------
(* The positions used by the code stay inside the ring. *)
LEMMA SlotsClosed ==
  ASSUME NEW i \in Slots
  PROVE  NextSlot(i) \in Slots /\ PrevSlot(i) \in Slots
BY DEF Slots, NextSlot, PrevSlot

LEMMA HeadStaysInRing ==
  ASSUME head \in Slots, AdvanceHead
  PROVE  head' \in Slots /\ head' = NextSlot(head)
BY DEF Slots, AdvanceHead, NextSlot

LEMMA TypeInit == Init => TypeOK
<1> SUFFICES ASSUME Init PROVE TypeOK
  OBVIOUS
<1>1. [type |-> "key", n |-> 0, time |-> 0, scr |-> Screen0] \in Event
  BY DEF Event, Types
<1>2. 0 \in Slots
  BY DEF Slots
<1> QED BY <1>1, <1>2 DEF Init, TypeOK, PCs

LEMMA TypeStep == TypeOK /\ [Next]_vars => TypeOK'
<1> SUFFICES ASSUME TypeOK, [Next]_vars PROVE TypeOK'
  OBVIOUS
<1> USE DEF TypeOK, Event, Types, PCs
<1>0. ASSUME NEW type \in Types, NEW t \in Nat, NEW s \in Screens, mieqEnqueue(type, t, s)
      PROVE  /\ head' \in Slots /\ tail' \in Slots /\ lastMotion' \in BOOLEAN
             /\ lastEventTime' \in Nat /\ events' \in [Slots -> Event] /\ serial' \in Nat
             /\ seen' \in [key : Nat, lost : BOOLEAN, motion : Nat]
  <2>1. serial' \in Nat /\ AdjustedTime(t) \in Nat
    BY <1>0 DEF mieqEnqueue, AdjustedTime
  <2>2. ASSUME NEW slot \in Slots, StoreEvent(slot, type, t, s)
        PROVE  lastMotion' \in BOOLEAN /\ events' \in [Slots -> Event]
    BY <2>1, <2>2 DEF StoreEvent
  <2> QED BY <1>0, <2>1, <2>2, SlotsClosed DEF mieqEnqueue
<1>1. CASE \E t \in 0 .. now : KeyOrButton(t)
  <2>1. PICK t \in 0 .. now : KeyOrButton(t)
    BY <1>1
  <2> QED BY <2>1, <1>0 DEF KeyOrButton, DriverTime
<1>2. CASE \E t \in 0 .. now, s \in Screens : miPointerAbsoluteCursor(s, t)
  <2>1. PICK t \in 0 .. now, s \in Screens : miPointerAbsoluteCursor(s, t)
    BY <1>2
  <2> QED BY <2>1, <1>0 DEF miPointerAbsoluteCursor, DriverTime
<1>3. CASE \E s \in Screens, gen \in BOOLEAN : miPointerWarpCursor(s, gen)
  <2>1. PICK s \in Screens, gen \in BOOLEAN : miPointerWarpCursor(s, gen)
    BY <1>3
  <2>2. CASE gen
    BY <2>1, <2>2, <1>0 DEF miPointerWarpCursor
  <2>3. CASE ~gen
    BY <2>1, <2>3 DEF miPointerWarpCursor, qvars
  <2> QED BY <2>2, <2>3
<1>4. CASE mieqProcessInputEvents
  <2> USE DEF Goto, queueUnread, queueBehindHead, AdvanceHead
  <2>1. CASE Enter  BY <2>1 DEF Enter
  <2>2. CASE Test  BY <2>2 DEF Test
  <2>3. CASE Look  BY <2>3 DEF Look
  <2>4. CASE Switch  BY <2>4 DEF Switch
  <2>5. CASE ReadPosition  BY <2>5 DEF ReadPosition
  <2>6. CASE Drop
    <3>1. head' \in Slots
      <4>1. AdvanceHead
        BY ONLY <2>6 DEF Drop
      <4> QED BY <4>1, HeadStaysInRing
    <3>2. seen' \in [key : Nat, lost : BOOLEAN, motion : Nat]
      BY <2>6 DEF Drop
    <3> QED BY <2>6, <3>1, <3>2 DEF Drop
  <2>7. CASE NewCurrentScreen  BY <2>7 DEF NewCurrentScreen
  <2>8. CASE CopyFirstHalf  BY <2>8 DEF CopyFirstHalf
  <2>9. CASE CopySecondHalf  BY <2>9 DEF CopySecondHalf
  <2>10. CASE Remove  BY <2>10 DEF Remove, Slots
  <2>11. CASE processInputProc  BY <2>11 DEF processInputProc
  <2> QED
    BY <1>4, <2>1, <2>2, <2>3, <2>4, <2>5, <2>6, <2>7, <2>8, <2>9, <2>10, <2>11
    DEF mieqProcessInputEvents
<1>5. CASE SaveScreens
  BY <1>5 DEF SaveScreens, queueUnread, queueBehindHead
<1>6. CASE Tick
  BY <1>6 DEF Tick, qvars
<1>7. CASE UNCHANGED vars
  BY <1>7 DEF vars, qvars
<1> QED BY <1>1, <1>2, <1>3, <1>4, <1>5, <1>6, <1>7 DEF Next

(* Every variable stays in its type: no index leaves the ring and every     *)
(* slot always holds an event for an existing screen (mi/mieq.c).           *)
THEOREM TypeCorrect == Spec => []TypeOK
BY TypeInit, TypeStep, PTL DEF Spec

-----------------------------------------------------------------------------
(* What an enqueue does to the ring.  Removing an event shifts every other   *)
(* live slot one place towards the head.                                     *)
LEMMA AppendMakesTailLive ==
  ASSUME TypeOK, ~Full, tail' = NextSlot(tail), head' = head, NEW i \in Slots
  PROVE  /\ Live(i)' <=> (Live(i) \/ i = tail)
         /\ ~Live(tail)
         /\ Dist(i)' = Dist(i)
         /\ Live(i) => Dist(i) < Dist(tail)
         /\ head' # tail' /\ PrevSlot(tail') = tail
BY DEF TypeOK, Full, NextSlot, PrevSlot, Live, Dist, Slots

LEMMA ReplacedSlotIsLive ==
  ASSUME TypeOK, head # tail
  PROVE  PrevSlot(tail) \in Slots /\ Live(PrevSlot(tail))
BY DEF TypeOK, PrevSlot, Live, Slots

LEMMA RemoveMakesHeadDead ==
  ASSUME TypeOK, Live(head), AdvanceHead, tail' = tail, NEW i \in Slots
  PROVE  /\ Live(i)' <=> (Live(i) /\ i # head)
         /\ i # head => Dist(i) > 0 /\ Dist(i)' = Dist(i) - 1
         /\ Dist(head) = 0
BY DEF TypeOK, AdvanceHead, Live, Dist, Slots

(* An enqueue either leaves every live key slot alone, or adds one more      *)
(* event behind them all.                                                    *)
EnqueueEffect(type) ==
  \/ /\ type = "motion" /\ head # tail
     /\ events[PrevSlot(tail)].type = "motion"
     /\ events'[PrevSlot(tail)].type = "motion"
     /\ tail' = tail /\ lastMotion' = TRUE
     /\ \A i \in Slots : i # PrevSlot(tail) => events'[i] = events[i]
  \/ /\ UNCHANGED <<tail, lastMotion, events>>
  \/ /\ ~Full /\ tail' = NextSlot(tail)
     /\ events'[tail].type = type /\ events'[tail].n = serial'
     /\ lastMotion' = (type = "motion")
     /\ \A i \in Slots : i # tail => events'[i] = events[i]

LEMMA EnqueueHasEffect ==
  ASSUME QueueInv, NEW type \in Types, NEW t, NEW s, mieqEnqueue(type, t, s)
  PROVE  /\ EnqueueEffect(type)
         /\ head' = head /\ serial' = serial + 1 /\ seen' = seen
<1> USE DEF QueueInv, TypeOK
<1>0. /\ head' = head /\ serial' = serial + 1 /\ seen' = seen
  BY DEF mieqEnqueue
<1>1. ASSUME NEW slot \in Slots, StoreEvent(slot, type, t, s)
      PROVE  /\ events'[slot].type = type /\ events'[slot].n = serial'
             /\ lastMotion' = (type = "motion")
             /\ \A i \in Slots : i # slot => events'[i] = events[i]
  BY <1>1 DEF StoreEvent
<1>2. CASE ReplacesMotion(type) /\ StoreEvent(PrevSlot(tail), type, t, s) /\ UNCHANGED tail
  <2>1. PrevSlot(tail) \in Slots
    BY SlotsClosed
  <2> QED BY <1>0, <1>1, <1>2, <2>1 DEF ReplacesMotion, NewestIsMotion, EnqueueEffect
<1>3. CASE UNCHANGED <<tail, lastMotion, events>>
  BY <1>0, <1>3 DEF EnqueueEffect
<1>4. CASE ~Full /\ tail' = NextSlot(tail) /\ StoreEvent(tail, type, t, s)
  BY <1>0, <1>1, <1>4 DEF EnqueueEffect
<1> QED BY <1>2, <1>3, <1>4 DEF mieqEnqueue

(* If no key slot is touched, the two invariants about keys are kept. *)
LEMMA KeysUntouched ==
  ASSUME TypeOK, TypeOK', KeysInOrder, KeysAreYoung,
         \A i \in Slots : (IsKey(i)' <=> IsKey(i)) /\ (IsKey(i) => events'[i] = events[i]),
         \A i \in Slots : Dist(i)' = Dist(i),
         seen'.key = seen.key, serial' >= serial, serial' <= MaxSerial,
         pc' = "call" /\ xe'.type = "key" => pc = "call" /\ xe' = xe
  PROVE  KeysInOrder' /\ KeysAreYoung'
<1>1. KeysInOrder'
  BY DEF KeysInOrder
<1>2. KeysAreYoung'
  <2>1. ASSUME NEW i \in Slots, IsKey(i)'
        PROVE  seen'.key < events'[i].n /\ events'[i].n <= serial'
    BY <2>1 DEF KeysAreYoung, TypeOK, Event
  <2>2. serial' <= MaxSerial /\ seen'.key <= serial'
    BY DEF KeysAreYoung, TypeOK
  <2>3. ASSUME pc' = "call", xe'.type = "key"
        PROVE  /\ seen'.key < xe'.n /\ xe'.n <= serial'
               /\ \A i \in Slots : IsKey(i)' => xe'.n < events'[i].n
    BY <2>3 DEF KeysAreYoung, TypeOK, Event
  <2> QED BY <2>1, <2>2, <2>3 DEF KeysAreYoung
<1> QED BY <1>1, <1>2

LEMMA EnqueueKeepsInv ==
  ASSUME QueueInv, TypeOK', NEW type \in Types, EnqueueEffect(type),
         head' = head, serial' = serial + 1, seen'.key = seen.key, serial < MaxSerial,
         UNCHANGED <<pc, xe>>
  PROVE  QueueInv'
<1> USE DEF QueueInv
<1>1. CASE /\ type = "motion" /\ head # tail
           /\ events[PrevSlot(tail)].type = "motion"
           /\ events'[PrevSlot(tail)].type = "motion"
           /\ tail' = tail /\ lastMotion' = TRUE
           /\ \A i \in Slots : i # PrevSlot(tail) => events'[i] = events[i]
  <2>1. /\ PrevSlot(tail) \in Slots /\ PrevSlot(tail)' = PrevSlot(tail)
        /\ \A i \in Slots : (Live(i)' <=> Live(i)) /\ Dist(i)' = Dist(i)
    BY <1>1, ReplacedSlotIsLive DEF Live, Dist, PrevSlot
  <2>2. \A i \in Slots : (IsKey(i)' <=> IsKey(i)) /\ (IsKey(i) => events'[i] = events[i])
    BY <1>1, <2>1 DEF IsKey
  <2>3. HeadIsStable'
    <3>1. head \in Slots /\ (Live(head)' <=> Live(head))
      BY <2>1 DEF TypeOK
    <3>2. events'[head].type = events[head].type
      BY <1>1, <3>1
    <3>3. events[head].type = "key" => events'[head] = events[head]
      BY <1>1, <3>1
    <3>4. pc' = pc /\ xe' = xe
      OBVIOUS
    <3> QED BY <3>1, <3>2, <3>3, <3>4 DEF HeadIsStable, Live
  <2>4. NewestIsMotion'
    BY <1>1, <2>1 DEF NewestIsMotion
  <2>5. KeysInOrder' /\ KeysAreYoung'
    <3>1. serial' >= serial /\ serial' <= MaxSerial
      BY DEF TypeOK
    <3> QED BY <2>1, <2>2, <3>1, KeysUntouched
  <2> QED BY <2>3, <2>4, <2>5
<1>2. CASE UNCHANGED <<tail, lastMotion, events>>
  <2>1. \A i \in Slots : (IsKey(i)' <=> IsKey(i)) /\ Dist(i)' = Dist(i)
    BY <1>2 DEF IsKey, Live, Dist
  <2>2. HeadIsStable' /\ NewestIsMotion'
    BY <1>2 DEF HeadIsStable, NewestIsMotion, Live, PrevSlot
  <2>3. KeysInOrder' /\ KeysAreYoung'
    <3>1. serial' >= serial /\ serial' <= MaxSerial
      BY DEF TypeOK
    <3> QED BY <1>2, <2>1, <3>1, KeysUntouched
  <2> QED BY <2>2, <2>3
<1>3. CASE /\ ~Full /\ tail' = NextSlot(tail)
           /\ events'[tail].type = type /\ events'[tail].n = serial'
           /\ lastMotion' = (type = "motion")
           /\ \A i \in Slots : i # tail => events'[i] = events[i]
  <2>0. tail \in Slots /\ head \in Slots /\ head' = head
    BY DEF TypeOK
  <2>1. \A i \in Slots : /\ Live(i)' <=> (Live(i) \/ i = tail)
                         /\ Dist(i)' = Dist(i)
                         /\ Live(i) => Dist(i) < Dist(tail)
    BY <1>3, AppendMakesTailLive
  <2>2. ~Live(tail) /\ head' # tail' /\ PrevSlot(tail)' = tail
    BY <1>3, <2>0, AppendMakesTailLive DEF PrevSlot
  <2>3. \A i \in Slots : /\ IsKey(i) => IsKey(i)' /\ events'[i] = events[i]
                         /\ IsKey(i)' /\ i # tail => IsKey(i)
    BY <1>3, <2>1, <2>2 DEF IsKey
  <2>4. HeadIsStable'
    <3>1. Live(head) => Live(head)' /\ events'[head] = events[head]
      BY <1>3, <2>0, <2>1, <2>2
    <3>2. (pc' = pc) /\ (xe' = xe) /\ (Live(head') <=> Live(head))
      BY <2>0
    <3>3. Live(head)' <=> (Live(head') \/ Live(head)')
      BY <2>0, <2>1
    <3> QED BY <2>0, <3>1, <3>2, <3>3 DEF HeadIsStable
  <2>5. NewestIsMotion'
    BY <1>3, <2>2 DEF NewestIsMotion
  <2>6. KeysInOrder'
    <3> SUFFICES ASSUME NEW i \in Slots, NEW j \in Slots,
                        IsKey(i)', IsKey(j)', Dist(i)' < Dist(j)'
                 PROVE  events'[i].n < events'[j].n
      BY DEF KeysInOrder
    <3>1. i # tail
      BY <2>0, <2>1, <2>2 DEF IsKey, Dist, Slots
    <3>2. IsKey(i) /\ events'[i] = events[i]
      BY <2>3, <3>1
    <3>3. CASE j = tail
      BY <1>3, <3>2, <3>3 DEF KeysAreYoung, TypeOK, Event
    <3>4. CASE j # tail
      BY <2>1, <2>3, <3>2, <3>4 DEF KeysInOrder
    <3> QED BY <3>3, <3>4
  <2>7. KeysAreYoung'
    <3>1. serial' <= MaxSerial /\ (seen.key)' <= serial'
      BY DEF KeysAreYoung, TypeOK
    <3>2. ASSUME NEW i \in Slots, IsKey(i)'
          PROVE  seen'.key < events'[i].n /\ events'[i].n <= serial'
      BY <1>3, <2>3, <3>2 DEF KeysAreYoung, TypeOK, Event
    <3>3. ASSUME pc' = "call", xe'.type = "key"
          PROVE  /\ seen'.key < xe'.n /\ xe'.n <= serial'
                 /\ \A i \in Slots : IsKey(i)' => xe'.n < events'[i].n
      BY <1>3, <2>3, <3>3 DEF KeysAreYoung, TypeOK, Event
    <3> QED BY <3>1, <3>2, <3>3 DEF KeysAreYoung
  <2> QED BY <2>4, <2>5, <2>6, <2>7
<1> QED BY <1>1, <1>2, <1>3 DEF EnqueueEffect

-----------------------------------------------------------------------------
(* Removing the head event, which was copied to xe, keeps the invariant      *)
(* provided a key event is from then on accounted for: in hand, or counted   *)
(* as the last one to have left.                                             *)
LEMMA RemoveKeepsKeys ==
  ASSUME QueueInv, TypeOK', Live(head), AdvanceHead,
         UNCHANGED <<tail, lastMotion, events, serial, xe>>,
         xe.type = events[head].type, xe.type = "key" => xe = events[head],
         pc # "call",
         \/ pc' = "call" /\ seen'.key = seen.key
         \/ pc' # "call" /\ seen'.key = IF xe.type = "key" THEN xe.n ELSE seen.key
  PROVE  NewestIsMotion' /\ KeysInOrder' /\ KeysAreYoung'
<1> USE DEF QueueInv
<1>0. head \in Slots
  BY DEF TypeOK
<1>1. \A i \in Slots : /\ Live(i)' <=> (Live(i) /\ i # head)
                       /\ i # head => Dist(i) > 0 /\ Dist(i)' = Dist(i) - 1
                       /\ Dist(head) = 0
  BY RemoveMakesHeadDead
<1>2. \A i \in Slots : IsKey(i)' <=> (IsKey(i) /\ i # head)
  BY <1>1 DEF IsKey
<1>3. NewestIsMotion'
  <2>1. head # tail
    BY DEF Live, TypeOK, Slots
  <2> QED BY <2>1 DEF NewestIsMotion, PrevSlot
<1>4. KeysInOrder'
  <2> SUFFICES ASSUME NEW i \in Slots, NEW j \in Slots,
                      IsKey(i)', IsKey(j)', Dist(i)' < Dist(j)'
               PROVE  events'[i].n < events'[j].n
    BY DEF KeysInOrder
  <2>1. IsKey(i) /\ IsKey(j) /\ Dist(i)' = Dist(i) - 1 /\ Dist(j)' = Dist(j) - 1
    BY <1>1, <1>2
  <2>2. Dist(i) \in Int /\ Dist(j) \in Int
    BY <1>0 DEF Dist, Slots
  <2> QED BY <2>1, <2>2 DEF KeysInOrder
<1>5. ASSUME events[head].type = "key", NEW i \in Slots, IsKey(i)'
      PROVE  events[head].n < events[i].n
  BY <1>0, <1>1, <1>2, <1>5 DEF KeysInOrder, IsKey
<1>6. events[head].type = "key" => seen.key < events[head].n /\ events[head].n <= serial
  BY <1>0 DEF KeysAreYoung, IsKey
<1>7. KeysAreYoung'
  <2>1. serial' <= MaxSerial /\ seen'.key <= serial'
    BY <1>6 DEF KeysAreYoung, TypeOK
  <2>2. ASSUME NEW i \in Slots, IsKey(i)'
        PROVE  seen'.key < events'[i].n /\ events'[i].n <= serial'
    BY <1>2, <1>5, <1>6, <2>2 DEF KeysAreYoung, TypeOK, Event
  <2>3. ASSUME pc' = "call", xe'.type = "key"
        PROVE  /\ seen'.key < xe'.n /\ xe'.n <= serial'
               /\ \A i \in Slots : IsKey(i)' => xe'.n < events'[i].n
    BY <1>5, <1>6, <2>3
  <2> QED BY <2>1, <2>2, <2>3 DEF KeysAreYoung
<1> QED BY <1>3, <1>4, <1>7

(* A step that leaves the queue alone keeps the invariant if it keeps the    *)
(* reader's bookkeeping (HeadIsStable).                                      *)
LEMMA ReadKeepsInv ==
  ASSUME QueueInv, TypeOK', UNCHANGED <<head, tail, lastMotion, events, serial>>,
         seen'.key = seen.key, HeadIsStable',
         pc' = "call" /\ xe'.type = "key" => pc = "call" /\ xe' = xe
  PROVE  QueueInv'
<1> USE DEF QueueInv
<1>1. \A i \in Slots : (IsKey(i)' <=> IsKey(i)) /\ Dist(i)' = Dist(i)
  BY DEF IsKey, Live, Dist
<1>2. serial' >= serial /\ serial' <= MaxSerial
  BY DEF KeysAreYoung, TypeOK
<1>3. KeysInOrder' /\ KeysAreYoung'
  BY <1>1, <1>2, KeysUntouched
<1>4. NewestIsMotion'
  BY DEF NewestIsMotion, PrevSlot
<1> QED BY <1>3, <1>4

LEMMA InvStep == QueueInv /\ [Next]_vars => QueueInv'
<1> SUFFICES ASSUME QueueInv, [Next]_vars PROVE QueueInv'
  OBVIOUS
<1>0. TypeOK' /\ TypeOK
  BY TypeStep DEF QueueInv
<1>1. CASE \E t \in 0 .. now : KeyOrButton(t)
  BY <1>0, <1>1, EnqueueHasEffect, EnqueueKeepsInv DEF KeyOrButton, Types
<1>2. CASE \E t \in 0 .. now, s \in Screens : miPointerAbsoluteCursor(s, t)
  BY <1>0, <1>2, EnqueueHasEffect, EnqueueKeepsInv DEF miPointerAbsoluteCursor, Types
<1>3. CASE \E s \in Screens, gen \in BOOLEAN : miPointerWarpCursor(s, gen)
  <2>1. PICK s \in Screens, gen \in BOOLEAN : miPointerWarpCursor(s, gen)
    BY <1>3
  <2>2. CASE gen
    BY <1>0, <2>1, <2>2, EnqueueHasEffect, EnqueueKeepsInv DEF miPointerWarpCursor, Types
  <2>3. CASE ~gen
    <3>1. UNCHANGED <<head, tail, lastMotion, events, serial, seen, pc, xe>>
      BY <2>1, <2>3 DEF miPointerWarpCursor, qvars
    <3>2. HeadIsStable'
      BY <3>1 DEF QueueInv, HeadIsStable, Live
    <3> QED BY <1>0, <3>1, <3>2, ReadKeepsInv
  <2> QED BY <2>2, <2>3
<1>4. CASE mieqProcessInputEvents
  <2> USE DEF Goto, queueUnread, queueBehindHead
  <2>1. CASE Enter
    <3>1. HeadIsStable'
      BY <2>1 DEF Enter, HeadIsStable
    <3> QED BY <1>0, <2>1, <3>1, ReadKeepsInv DEF Enter
  <2>2. CASE Test
    <3>1. HeadIsStable'
      BY <1>0, <2>2 DEF Test, HeadIsStable, Live, TypeOK, Slots
    <3> QED BY <1>0, <2>2, <3>1, ReadKeepsInv DEF Test
  <2>3. CASE Look
    <3>1. HeadIsStable'
      BY <2>3 DEF Look, QueueInv, HeadIsStable, Live
    <3> QED BY <1>0, <2>3, <3>1, ReadKeepsInv DEF Look
  <2>4. CASE Switch
    <3>1. HeadIsStable'
      BY <2>4 DEF Switch, QueueInv, HeadIsStable, Live
    <3> QED BY <1>0, <2>4, <3>1, ReadKeepsInv DEF Switch
  <2>5. CASE ReadPosition
    <3>1. HeadIsStable'
      BY <2>5 DEF ReadPosition, QueueInv, HeadIsStable, Live
    <3> QED BY <1>0, <2>5, <3>1, ReadKeepsInv DEF ReadPosition
  <2>6. CASE Drop
    <3>1. /\ Live(head) /\ AdvanceHead
          /\ xe.type = events[head].type /\ (xe.type = "key" => xe = events[head])
      BY <2>6 DEF Drop, QueueInv, HeadIsStable
    <3>2. pc' # "call" /\ seen'.key = IF xe.type = "key" THEN xe.n ELSE seen.key
      BY <1>0, <2>6 DEF Drop, TypeOK, Event, Types
    <3>3. HeadIsStable'
      BY <2>6 DEF Drop, HeadIsStable
    <3> QED BY <1>0, <2>6, <3>1, <3>2, <3>3, RemoveKeepsKeys DEF Drop, QueueInv
  <2>7. CASE NewCurrentScreen
    <3>1. HeadIsStable'
      BY <2>7 DEF NewCurrentScreen, HeadIsStable
    <3> QED BY <1>0, <2>7, <3>1, ReadKeepsInv DEF NewCurrentScreen
  <2>8. CASE CopyFirstHalf
    <3>1. HeadIsStable'
      BY <2>8 DEF CopyFirstHalf, QueueInv, HeadIsStable, Live
    <3> QED BY <1>0, <2>8, <3>1, ReadKeepsInv DEF CopyFirstHalf
  <2>9. CASE CopySecondHalf
    <3>1. HeadIsStable'
      <4>1. pc = "copy2" /\ pc' = "remove" /\ UNCHANGED <<head, tail, events>>
        BY <2>9 DEF CopySecondHalf
      <4>2. Live(head)'
        BY <4>1 DEF QueueInv, HeadIsStable, Live
      <4>3. xe' = [xe EXCEPT !.time = events[head].time]
        BY <2>9 DEF CopySecondHalf
      <4>4. xe'.type = xe.type /\ (xe = events[head] => xe' = xe)
        BY <1>0, <4>3 DEF TypeOK, Event
      <4> QED BY <4>1, <4>2, <4>4 DEF QueueInv, HeadIsStable
    <3> QED BY <1>0, <2>9, <3>1, ReadKeepsInv DEF CopySecondHalf
  <2>10. CASE Remove
    <3>1. /\ Live(head) /\ AdvanceHead
          /\ xe.type = events[head].type /\ (xe.type = "key" => xe = events[head])
      BY <2>10 DEF Remove, QueueInv, HeadIsStable
    <3>2. HeadIsStable'
      BY <2>10 DEF Remove, HeadIsStable
    <3> QED BY <1>0, <2>10, <3>1, <3>2, RemoveKeepsKeys DEF Remove, QueueInv
  <2>11. CASE processInputProc
    <3>1. UNCHANGED <<head, tail, lastMotion, events, serial, xe>> /\ pc' = "test"
      BY <2>11 DEF processInputProc
    <3>2. seen'.key = IF xe.type = "key" THEN xe.n ELSE seen.key
      BY <1>0, <2>11 DEF processInputProc, TypeOK, Event, Types
    <3>3. \A i \in Slots : (IsKey(i)' <=> IsKey(i)) /\ Dist(i)' = Dist(i)
      BY <3>1 DEF IsKey, Live, Dist
    <3>4. KeysAreYoung'
      BY <1>0, <2>11, <3>1, <3>2, <3>3 DEF processInputProc, QueueInv, KeysAreYoung, TypeOK
    <3>5. HeadIsStable' /\ NewestIsMotion' /\ KeysInOrder'
      BY <3>1, <3>3 DEF QueueInv, HeadIsStable, NewestIsMotion, KeysInOrder, PrevSlot
    <3> QED BY <1>0, <3>4, <3>5 DEF QueueInv
  <2> QED
    BY <1>4, <2>1, <2>2, <2>3, <2>4, <2>5, <2>6, <2>7, <2>8, <2>9, <2>10, <2>11
    DEF mieqProcessInputEvents
<1>5. CASE SaveScreens \/ Tick \/ UNCHANGED vars
  <2>1. UNCHANGED <<head, tail, lastMotion, events, serial, seen, pc, xe>>
    BY <1>5 DEF SaveScreens, Tick, vars, qvars, queueUnread, queueBehindHead
  <2>2. HeadIsStable'
    BY <2>1 DEF QueueInv, HeadIsStable, Live
  <2> QED BY <1>0, <2>1, <2>2, ReadKeepsInv
<1> QED BY <1>1, <1>2, <1>3, <1>4, <1>5 DEF Next

LEMMA InvInit == Init => QueueInv
<1> SUFFICES ASSUME Init PROVE QueueInv
  OBVIOUS
<1>1. \A i \in Slots : ~Live(i)
  BY DEF Init, Live, Slots
<1> QED
  BY <1>1, TypeInit
  DEF Init, QueueInv, HeadIsStable, NewestIsMotion, KeysInOrder, KeysAreYoung, IsKey

(* The slot mieqProcessInputEvents is reading stays live, and no key or      *)
(* button event in it changes, wherever the driver's signal strikes.         *)
THEOREM HeadStability == Spec => []HeadIsStable
<1>1. QueueInv => HeadIsStable
  BY DEF QueueInv
<1> QED BY <1>1, InvInit, InvStep, PTL DEF Spec

-----------------------------------------------------------------------------
(* Refinement of OrderedDelivery.                                            *)
USE DEF Delivery!dvars

(* When the consumer has looked at a key event it is decided whether it is a *)
(* switch, and nothing changes that before it is removed: no warp can come   *)
(* in between, and the driver's signal leaves the slot alone.                *)
KeyIsDecided ==
  IsKey(head) =>
    /\ pc = "switch" => events[head].scr # pDequeueScreen
    /\ pc \in {"leave", "drop", "copy", "copy2", "remove"} => events[head].scr = pDequeueScreen

LEMMA DecidedStep == QueueInv /\ QueueInv' /\ KeyIsDecided /\ [Next]_vars => KeyIsDecided'
<1> SUFFICES ASSUME QueueInv, QueueInv', KeyIsDecided, [Next]_vars PROVE KeyIsDecided'
  OBVIOUS
<1>0. TypeOK /\ head \in Slots
  BY DEF QueueInv, TypeOK
<1>1. ASSUME NEW type \in Types, NEW t, NEW s, mieqEnqueue(type, t, s), pc' = pc,
             pDequeueScreen' = pDequeueScreen \/ pc \in {"main", "call", "newscreen"}
      PROVE  KeyIsDecided'
  <2>1. EnqueueEffect(type) /\ head' = head
    BY <1>1, EnqueueHasEffect
  <2>2. pc \notin {"main", "test", "call", "newscreen"} => Live(head)
    BY <1>0 DEF QueueInv, HeadIsStable, TypeOK, PCs
  <2>3. ASSUME Live(head), IsKey(head)'
        PROVE  events'[head] = events[head] /\ IsKey(head)
    <3>1. events'[head].type = "key"
      BY <2>1, <2>3 DEF IsKey
    <3>2. head # tail
      BY <1>0, <2>3 DEF Live, Slots
    <3> QED BY <1>0, <2>1, <2>3, <3>1, <3>2 DEF EnqueueEffect, IsKey
  <2>4. CASE pc \in {"main", "test", "call", "newscreen"}
    BY <1>1, <2>4 DEF KeyIsDecided
  <2>5. CASE pc \notin {"main", "test", "call", "newscreen"}
    BY <1>1, <2>1, <2>2, <2>3, <2>5 DEF KeyIsDecided
  <2> QED BY <2>4, <2>5
<1>2. CASE \E t \in 0 .. now : KeyOrButton(t)
  BY <1>1, <1>2 DEF KeyOrButton, Types
<1>3. CASE \E t \in 0 .. now, s \in Screens : miPointerAbsoluteCursor(s, t)
  BY <1>1, <1>3 DEF miPointerAbsoluteCursor, Types
<1>4. CASE \E s \in Screens, gen \in BOOLEAN : miPointerWarpCursor(s, gen)
  <2>1. pc' = pc /\ pc \in {"main", "call", "newscreen"}
    BY <1>4 DEF miPointerWarpCursor
  <2> QED BY <2>1 DEF KeyIsDecided
<1>5. CASE mieqProcessInputEvents
  <2> USE DEF Goto, queueUnread, queueBehindHead
  <2>1. CASE Enter \/ Test \/ Drop \/ NewCurrentScreen \/ Remove \/ processInputProc
    <3>1. pc' \in {"main", "test", "look", "newscreen", "call"}
      BY <2>1 DEF Enter, Test, Drop, NewCurrentScreen, Remove, processInputProc
    <3> QED BY <3>1 DEF KeyIsDecided
  <2>2. CASE Look
    BY <2>2 DEF Look, KeyIsDecided
  <2>3. CASE Switch
    BY <2>3 DEF Switch, KeyIsDecided
  <2>4. CASE ReadPosition \/ CopyFirstHalf \/ CopySecondHalf
    <3>1. /\ UNCHANGED <<head, tail, events, pDequeueScreen>>
          /\ pc \in {"leave", "copy", "copy2"} /\ pc' \in {"drop", "copy2", "remove"}
      BY <2>4 DEF ReadPosition, CopyFirstHalf, CopySecondHalf
    <3> QED BY <3>1 DEF KeyIsDecided, IsKey, Live
  <2> QED
    BY <1>5, <2>1, <2>2, <2>3, <2>4 DEF mieqProcessInputEvents
<1>6. CASE SaveScreens \/ Tick \/ UNCHANGED vars
  <2>1. UNCHANGED <<head, tail, events, pDequeueScreen, pc>>
    BY <1>6 DEF SaveScreens, Tick, vars, qvars, queueUnread, queueBehindHead
  <2> QED BY <2>1 DEF KeyIsDecided, IsKey, Live
<1> QED BY <1>2, <1>3, <1>4, <1>5, <1>6 DEF Next

LEMMA WaitingKeys ==
  ASSUME NEW n
  PROVE  n \in Waiting <=> \/ \E i \in Slots : IsKey(i) /\ n = events[i].n
                           \/ pc = "call" /\ xe.type = "key" /\ n = xe.n
<1>1. n \in InHand <=> pc = "call" /\ xe.type = "key" /\ n = xe.n
  BY DEF InHand
<1>2. n \in Waiting <=> (\E i \in Slots : IsKey(i) /\ n = events[i].n) \/ n \in InHand
  BY DEF Waiting, QueuedKeys, IsKey
<1> QED BY <1>1, <1>2

LEMMA StrayingKeys ==
  ASSUME NEW n
  PROVE  n \in AstrayKeys <=> \E i \in Slots : IsKey(i) /\ Astray(i) /\ n = events[i].n
BY DEF AstrayKeys, QueuedKeys, IsKey

(* What waits is younger than what has left, and within the bound. *)
LEMMA WaitingIsYoung ==
  ASSUME QueueInv
  PROVE  \A n \in Waiting : n \in Nat /\ seen.key < n /\ n <= serial
<1> SUFFICES ASSUME NEW n \in Waiting PROVE n \in Nat /\ seen.key < n /\ n <= serial
  OBVIOUS
<1>1. CASE \E i \in Slots : IsKey(i) /\ n = events[i].n
  BY <1>1 DEF QueueInv, TypeOK, Event, KeysAreYoung
<1>2. CASE pc = "call" /\ xe.type = "key" /\ n = xe.n
  BY <1>2 DEF QueueInv, TypeOK, Event, KeysAreYoung
<1> QED BY <1>1, <1>2, WaitingKeys

(* A queued event is known by its serial. *)
LEMMA SerialsDiffer ==
  ASSUME QueueInv, NEW i \in Slots, NEW j \in Slots, IsKey(i), IsKey(j), i # j
  PROVE  events[i].n # events[j].n
<1>1. Dist(i) < Dist(j) \/ Dist(j) < Dist(i)
  BY DEF QueueInv, TypeOK, IsKey, Live, Dist, Slots
<1>2. events[i].n \in Nat /\ events[j].n \in Nat
  BY DEF QueueInv, TypeOK, Event
<1> QED BY <1>1, <1>2 DEF QueueInv, KeysInOrder

(* The slot in front of a live one, other than the head, is live as well and *)
(* is not the youngest.                                                      *)
LEMMA PredecessorIsLive ==
  ASSUME TypeOK, NEW i \in Slots, Live(i), i # head
  PROVE  PrevSlot(i) \in Slots /\ PrevSlot(i) # tail /\ PrevSlot(i) # PrevSlot(tail)
BY DEF TypeOK, Live, PrevSlot, Slots

(* What an enqueue leaves as it is: the queued keys, and where they stand,   *)
(* except that a warp changes it for the head.                               *)
LEMMA EnqueueKeepsStanding ==
  ASSUME QueueInv, NEW type \in Types, EnqueueEffect(type), head' = head, pc' = pc,
         NEW i \in Slots, IsKey(i)
  PROVE  /\ IsKey(i)' /\ events'[i] = events[i]
         /\ i # head \/ pDequeueScreen' = pDequeueScreen => (Astray(i)' <=> Astray(i))
<1>0. TypeOK
  BY DEF QueueInv
<1>1. ~Live(tail) /\ Live(i) /\ events[i].type = "key" /\ tail \in Slots /\ i # tail
  BY <1>0 DEF IsKey, Live, TypeOK, Slots
<1>2. events'[i] = events[i]
  BY <1>1 DEF EnqueueEffect
<1>3. Live(i)'
  <2>1. CASE tail' = tail
    BY <1>1, <2>1 DEF Live
  <2>2. CASE ~Full /\ tail' = NextSlot(tail)
    BY <1>0, <1>1, <2>2, AppendMakesTailLive
  <2> QED BY <2>1, <2>2 DEF EnqueueEffect
<1>4. i # head => events'[PrevSlot(i)] = events[PrevSlot(i)]
  <2> SUFFICES ASSUME i # head PROVE events'[PrevSlot(i)] = events[PrevSlot(i)]
    OBVIOUS
  <2> QED BY <1>0, <1>1, PredecessorIsLive DEF EnqueueEffect
<1>5. IsKey(i)'
  BY <1>1, <1>2, <1>3 DEF IsKey
<1>6. ASSUME i # head \/ pDequeueScreen' = pDequeueScreen
      PROVE  Astray(i)' <=> Astray(i)
  <2>1. ScreenBefore(i)' = ScreenBefore(i)
    BY <1>4, <1>6 DEF ScreenBefore, PrevSlot
  <2> QED BY <1>2, <2>1 DEF Astray
<1> QED BY <1>2, <1>5, <1>6

LEMMA EnqueueAddsOneKey ==
  ASSUME QueueInv, NEW type \in Types, EnqueueEffect(type), head' = head,
         NEW i \in Slots, IsKey(i)'
  PROVE  IsKey(i) \/ (type = "key" /\ i = tail /\ events'[i].n = serial')
<1>0. TypeOK
  BY DEF QueueInv
<1>1. CASE /\ tail' = tail /\ events'[PrevSlot(tail)].type = "motion"
           /\ \A j \in Slots : j # PrevSlot(tail) => events'[j] = events[j]
  <2>1. i # PrevSlot(tail)
    BY <1>1 DEF IsKey
  <2> QED BY <1>1, <2>1 DEF IsKey, Live
<1>3. CASE UNCHANGED <<tail, lastMotion, events>>
  BY <1>3 DEF IsKey, Live
<1>2. CASE /\ ~Full /\ tail' = NextSlot(tail)
           /\ events'[tail].type = type /\ events'[tail].n = serial'
           /\ \A j \in Slots : j # tail => events'[j] = events[j]
  <2>1. Live(i)' <=> (Live(i) \/ i = tail)
    BY <1>0, <1>2, AppendMakesTailLive
  <2>2. CASE i = tail
    BY <1>2, <2>2 DEF IsKey
  <2>3. CASE i # tail
    BY <1>2, <2>1, <2>3 DEF IsKey
  <2> QED BY <2>2, <2>3
<1> QED BY <1>1, <1>2, <1>3 DEF EnqueueEffect

(* A step after which the same events wait, and at most the one in slot x    *)
(* stands otherwise, is a step of OrderedDelivery.                           *)
LEMMA OneStandsOtherwise ==
  ASSUME QueueInv, QueueInv', Waiting' = Waiting, seen'.key = seen.key, seen'.lost = seen.lost,
         NEW x \in Slots, IsKey(x)' <=> IsKey(x),
         \A i \in Slots : IsKey(i) /\ IsKey(i)' => events'[i].n = events[i].n,
         \A i \in Slots : i # x => (IsKey(i)' /\ Astray(i)' <=> IsKey(i) /\ Astray(i))
  PROVE  [Delivery!Next]_(Delivery!dvars)
<1>1. CASE ~IsKey(x)
  <2>1. AstrayKeys' = AstrayKeys
    <3>1. ASSUME NEW n PROVE n \in AstrayKeys' <=> n \in AstrayKeys
      <4>1. n \in AstrayKeys' <=> \E i \in Slots : IsKey(i)' /\ Astray(i)' /\ n = events'[i].n
        BY DEF AstrayKeys, QueuedKeys, IsKey
      <4> QED BY <1>1, <4>1, StrayingKeys
    <3> QED BY <3>1
  <2> QED BY <2>1
<1>2. CASE IsKey(x)
  <2> DEFINE k == events[x].n
  <2>1. k \in Waiting
    BY <1>2, WaitingKeys
  <2>2. ASSUME NEW n, n # k PROVE n \in AstrayKeys' <=> n \in AstrayKeys
    <3>1. n \in AstrayKeys' <=> \E i \in Slots : IsKey(i)' /\ Astray(i)' /\ n = events'[i].n
      BY DEF AstrayKeys, QueuedKeys, IsKey
    <3>2. events'[x].n = k
      BY <1>2
    <3> QED BY <2>2, <3>1, <3>2, StrayingKeys
  <2>3. AstrayKeys' = AstrayKeys \cup {k} \/ AstrayKeys' = AstrayKeys \ {k}
    BY <2>2
  <2> QED BY <2>1, <2>3 DEF Delivery!Next, Delivery!Stray
<1> QED BY <1>1, <1>2

LEMMA EnqueueRefines ==
  ASSUME QueueInv, QueueInv', NEW type \in Types, EnqueueEffect(type),
         head' = head, serial' = serial + 1, seen' = seen, serial < MaxSerial,
         UNCHANGED <<pc, xe>>, type = "motion" \/ pDequeueScreen' = pDequeueScreen
  PROVE  [Delivery!Next]_(Delivery!dvars)
<1> USE DEF QueueInv
<1>0. head \in Slots /\ tail \in Slots
  BY DEF TypeOK
<1>1. CASE \A i \in Slots : IsKey(i)' => IsKey(i)
  <2>1. \A i \in Slots : /\ IsKey(i)' <=> IsKey(i)
                         /\ IsKey(i) => events'[i] = events[i]
                         /\ i # head => (IsKey(i)' /\ Astray(i)' <=> IsKey(i) /\ Astray(i))
    BY <1>1, EnqueueKeepsStanding
  <2>2. Waiting' = Waiting
    BY <2>1 DEF Waiting, QueuedKeys, InHand, IsKey
  <2>3. \A i \in Slots : IsKey(i) /\ IsKey(i)' => events'[i].n = events[i].n
    BY <2>1
  <2> QED BY <1>0, <2>1, <2>2, <2>3, OneStandsOtherwise
<1>2. CASE \E i \in Slots : IsKey(i)' /\ ~IsKey(i)
  <2>0. ~IsKey(tail)
    BY DEF IsKey, Live, TypeOK, Slots
  <2> PICK x \in Slots : IsKey(x)' /\ ~IsKey(x)
    BY <1>2
  <2>1. type = "key" /\ x = tail /\ events'[x].n = serial' /\ pDequeueScreen' = pDequeueScreen
    BY EnqueueAddsOneKey
  <2>2. \A i \in Slots : /\ IsKey(i)' <=> (IsKey(i) \/ i = x)
                         /\ IsKey(i) => events'[i] = events[i] /\ (Astray(i)' <=> Astray(i))
    <3> TAKE i \in Slots
    <3>1. IsKey(i)' => IsKey(i) \/ i = x
      BY <2>1, EnqueueAddsOneKey
    <3>2. IsKey(i) => IsKey(i)' /\ events'[i] = events[i] /\ (Astray(i)' <=> Astray(i))
      BY <2>1, EnqueueKeepsStanding
    <3> QED BY <3>1, <3>2
  <2>3. Waiting' = Waiting \cup {serial'}
    BY <2>1, <2>2 DEF Waiting, QueuedKeys, InHand, IsKey
  <2>4. AstrayKeys' \in {AstrayKeys, AstrayKeys \cup {serial'}}
    <3>1. ASSUME NEW n
          PROVE  n \in AstrayKeys' <=> n \in AstrayKeys \/ (Astray(x)' /\ n = serial')
      <4>1. n \in AstrayKeys' <=> \E i \in Slots : IsKey(i)' /\ Astray(i)' /\ n = events'[i].n
        BY DEF AstrayKeys, QueuedKeys, IsKey
      <4>2. ASSUME NEW i \in Slots
            PROVE  IsKey(i)' /\ Astray(i)' /\ n = events'[i].n
                     <=> \/ IsKey(i) /\ Astray(i) /\ n = events[i].n
                         \/ i = x /\ Astray(x)' /\ n = serial'
        BY <2>1, <2>2
      <4> QED BY <4>1, <4>2, StrayingKeys
    <3> QED BY <3>1
  <2>5. serial' \in 1 .. MaxSerial
    BY DEF TypeOK
  <2>6. serial' > seen.key /\ \A m \in Waiting : serial' > m
    BY WaitingIsYoung DEF TypeOK, KeysAreYoung
  <2> QED BY <2>3, <2>4, <2>5, <2>6 DEF Delivery!Next, Delivery!Accept
<1> QED BY <1>1, <1>2

(* Removing the head: every other key stays queued and, but for the next one *)
(* behind a motion event, stands as before.                                  *)
LEMMA RemoveKeepsStanding ==
  ASSUME QueueInv, Live(head), AdvanceHead, UNCHANGED <<tail, events, pDequeueScreen>>,
         pc \in {"drop", "remove"}, pc' \notin {"leave", "drop"}, NEW i \in Slots
  PROVE  /\ IsKey(i)' <=> (IsKey(i) /\ i # head)
         /\ /\ i # head
            /\ i # NextSlot(head) \/ events[head].scr = pDequeueScreen
            => (Astray(i)' <=> Astray(i))
<1>0. TypeOK /\ head \in Slots
  BY DEF QueueInv, TypeOK
<1>1. IsKey(i)' <=> (IsKey(i) /\ i # head)
  BY <1>0, RemoveMakesHeadDead DEF IsKey
<1>2. head' = NextSlot(head)
  BY <1>0, HeadStaysInRing
<1>3. ASSUME i # head, i # NextSlot(head) PROVE ScreenBefore(i)' = ScreenBefore(i)
  BY <1>2, <1>3 DEF ScreenBefore, PrevSlot
<1>4. ASSUME i # head, i = NextSlot(head), events[head].scr = pDequeueScreen
      PROVE  ScreenBefore(i)' = ScreenBefore(i)
  <2>1. PrevSlot(i) = head
    BY <1>0, <1>4 DEF NextSlot, PrevSlot, Slots
  <2> QED BY <1>2, <1>4, <2>1 DEF ScreenBefore
<1>5. ASSUME i # head, ScreenBefore(i)' = ScreenBefore(i) PROVE Astray(i)' <=> Astray(i)
  BY <1>5 DEF Astray
<1> QED BY <1>1, <1>3, <1>4, <1>5

(* Removing the head as a key in hand, or as no key at all, changes where at *)
(* most the next one stands.                                                 *)
LEMMA RemoveRefines ==
  ASSUME QueueInv, QueueInv', Live(head), AdvanceHead,
         UNCHANGED <<tail, events, pDequeueScreen, xe>>, xe.type = events[head].type,
         pc \in {"drop", "remove"}, pc' \notin {"leave", "drop"},
         seen'.key = seen.key, seen'.lost = seen.lost,
         IsKey(head) => /\ pc = "remove" /\ pc' = "call" /\ xe = events[head]
                        /\ events[head].scr = pDequeueScreen
  PROVE  [Delivery!Next]_(Delivery!dvars)
<1>0. TypeOK /\ head \in Slots /\ NextSlot(head) \in Slots /\ NextSlot(head) # head
  BY DEF QueueInv, TypeOK, NextSlot, Slots
<1>1. \A i \in Slots : IsKey(i)' <=> (IsKey(i) /\ i # head)
  BY RemoveKeepsStanding
<1>2. IsKey(head) => ~Astray(head)
  BY DEF Astray, ScreenBefore
<1>3. \A i \in Slots : i # NextSlot(head) => (IsKey(i)' /\ Astray(i)' <=> IsKey(i) /\ Astray(i))
  BY <1>1, <1>2, RemoveKeepsStanding
<1>4. Waiting' = Waiting
  <2>1. ASSUME NEW n PROVE n \in Waiting' <=> n \in Waiting
    <3>1. n \in Waiting' <=> \/ \E i \in Slots : IsKey(i)' /\ n = events[i].n
                             \/ pc' = "call" /\ xe.type = "key" /\ n = xe.n
      BY DEF Waiting, QueuedKeys, InHand, IsKey
    <3>2. n \in Waiting <=> \E i \in Slots : IsKey(i) /\ n = events[i].n
      BY WaitingKeys
    <3>3. xe.type = "key" => IsKey(head)
      BY DEF IsKey
    <3>4. CASE IsKey(head)
      <4>1. pc' = "call" /\ xe = events[head] /\ xe.type = "key"
        BY <3>4 DEF IsKey
      <4> QED BY <1>0, <1>1, <3>1, <3>2, <3>4, <4>1
    <3>5. CASE ~IsKey(head)
      BY <1>1, <3>1, <3>2, <3>3, <3>5
    <3> QED BY <3>4, <3>5
  <2> QED BY <2>1
<1>5. \A i \in Slots : IsKey(i) /\ IsKey(i)' => events'[i].n = events[i].n
  OBVIOUS
<1> QED BY <1>0, <1>1, <1>3, <1>4, <1>5, OneStandsOtherwise

LEMMA RefinementStep ==
  QueueInv /\ QueueInv' /\ KeyIsDecided /\ [Next]_vars => [Delivery!Next]_(Delivery!dvars)
<1> SUFFICES ASSUME QueueInv, QueueInv', KeyIsDecided, [Next]_vars
             PROVE  [Delivery!Next]_(Delivery!dvars)
  OBVIOUS
<1>0. TypeOK /\ head \in Slots
  BY DEF QueueInv, TypeOK
<1>1. CASE \E t \in 0 .. now : KeyOrButton(t)
  BY <1>1, EnqueueHasEffect, EnqueueRefines DEF KeyOrButton, Types
<1>2. CASE \E t \in 0 .. now, s \in Screens : miPointerAbsoluteCursor(s, t)
  BY <1>2, EnqueueHasEffect, EnqueueRefines DEF miPointerAbsoluteCursor, Types
<1>3. CASE \E s \in Screens, gen \in BOOLEAN : miPointerWarpCursor(s, gen)
  <2>1. PICK s \in Screens, gen \in BOOLEAN : miPointerWarpCursor(s, gen)
    BY <1>3
  <2>2. CASE gen
    BY <2>1, <2>2, EnqueueHasEffect, EnqueueRefines DEF miPointerWarpCursor, Types
  <2>3. CASE ~gen
    <3>1. UNCHANGED <<head, tail, events, serial, seen, pc, xe>>
      BY <2>1, <2>3 DEF miPointerWarpCursor, qvars
    <3>2. \A i \in Slots : (IsKey(i)' <=> IsKey(i)) /\ (i # head => (Astray(i)' <=> Astray(i)))
      BY <3>1 DEF IsKey, Live, Astray, ScreenBefore, PrevSlot
    <3>3. Waiting' = Waiting
      BY <3>1 DEF Waiting, QueuedKeys, InHand, Live
    <3> QED BY <1>0, <3>1, <3>2, <3>3, OneStandsOtherwise
  <2> QED BY <2>2, <2>3
<1>4. CASE \/ Enter \/ Test \/ Look \/ Switch \/ ReadPosition \/ NewCurrentScreen
           \/ CopyFirstHalf \/ CopySecondHalf
  <2>1. UNCHANGED <<head, tail, events, seen>> /\ pc # "call" /\ pc' # "call"
    BY <1>4
    DEF Enter, Test, Look, Switch, ReadPosition, NewCurrentScreen, CopyFirstHalf,
        CopySecondHalf, Goto, queueUnread, queueBehindHead
  <2>2. Waiting' = Waiting
    BY <2>1 DEF Waiting, QueuedKeys, InHand, Live
  <2>3. \A i \in Slots : (IsKey(i)' <=> IsKey(i)) /\ (i # head => (Astray(i)' <=> Astray(i)))
    BY <2>1 DEF IsKey, Live, Astray, ScreenBefore, PrevSlot
  <2> QED BY <1>0, <2>1, <2>2, <2>3, OneStandsOtherwise
<1>5. CASE Drop
  <2>1. /\ Live(head) /\ AdvanceHead /\ UNCHANGED <<tail, events, xe, pDequeueScreen>>
        /\ xe.type = events[head].type /\ (xe.type = "key" => xe = events[head])
        /\ pc = "drop" /\ pc' = "newscreen"
    BY <1>5 DEF Drop, QueueInv, HeadIsStable, Goto, queueBehindHead
  <2>2. CASE ~IsKey(head)
    <3>1. seen'.key = seen.key /\ seen'.lost = seen.lost
      BY <1>0, <1>5, <2>1, <2>2 DEF Drop, TypeOK, Event, Types, IsKey
    <3> QED BY <2>1, <2>2, <3>1, RemoveRefines
  <2>3. CASE IsKey(head)
    <3> DEFINE k == events[head].n
    <3>1. xe.type = "key" /\ xe.n = k /\ events[head].scr = pDequeueScreen /\ Astray(head)
      BY <2>1, <2>3 DEF IsKey, KeyIsDecided, Astray
    <3>2. seen'.key = k /\ seen'.lost = TRUE
      BY <1>0, <1>5, <3>1 DEF Drop, TypeOK
    <3>3. \A i \in Slots : /\ IsKey(i)' <=> (IsKey(i) /\ i # head)
                           /\ i # head => (Astray(i)' <=> Astray(i))
      BY <2>1, <3>1, RemoveKeepsStanding
    <3>4. \A i \in Slots : IsKey(i) /\ i # head => events[i].n # k
      BY <1>0, <2>3, SerialsDiffer
    <3>5. Waiting' = Waiting \ {k}
      <4>1. ASSUME NEW n PROVE n \in Waiting' <=> n \in Waiting /\ n # k
        <5>1. n \in Waiting' <=> \E i \in Slots : IsKey(i)' /\ n = events[i].n
          BY <2>1 DEF Waiting, QueuedKeys, InHand, IsKey
        <5>2. n \in Waiting <=> \E i \in Slots : IsKey(i) /\ n = events[i].n
          BY <2>1, WaitingKeys
        <5> QED BY <3>3, <3>4, <5>1, <5>2
      <4> QED BY <4>1
    <3>6. AstrayKeys' = AstrayKeys \ {k}
      <4>1. ASSUME NEW n PROVE n \in AstrayKeys' <=> n \in AstrayKeys /\ n # k
        <5>1. n \in AstrayKeys' <=> \E i \in Slots : IsKey(i)' /\ Astray(i)' /\ n = events[i].n
          BY <2>1 DEF AstrayKeys, QueuedKeys, IsKey
        <5> QED BY <3>3, <3>4, <5>1, StrayingKeys
      <4> QED BY <4>1
    <3>7. k \in AstrayKeys
      BY <1>0, <2>3, <3>1, StrayingKeys
    <3>8. \A m \in Waiting : k <= m
      <4> SUFFICES ASSUME NEW m \in Waiting PROVE k <= m
        OBVIOUS
      <4>1. PICK i \in Slots : IsKey(i) /\ m = events[i].n
        BY <2>1, WaitingKeys
      <4>2. k \in Nat /\ m \in Nat
        BY <1>0, <4>1 DEF TypeOK, Event
      <4>3. i # head => Dist(head) < Dist(i)
        BY <1>0, <2>1, RemoveMakesHeadDead
      <4> QED BY <1>0, <2>3, <4>1, <4>2, <4>3 DEF QueueInv, KeysInOrder
    <3> QED
      BY <3>2, <3>5, <3>6, <3>7, <3>8 DEF Delivery!Next, Delivery!Lose, Delivery!Oldest
  <2> QED BY <2>2, <2>3
<1>6. CASE Remove
  <2>1. /\ Live(head) /\ AdvanceHead /\ UNCHANGED <<tail, events, xe, seen, pDequeueScreen>>
        /\ xe.type = events[head].type /\ (xe.type = "key" => xe = events[head])
        /\ pc = "remove" /\ pc' = "call"
    BY <1>6 DEF Remove, QueueInv, HeadIsStable, Goto, queueBehindHead
  <2>2. IsKey(head) => xe = events[head] /\ events[head].scr = pDequeueScreen
    BY <2>1 DEF IsKey, KeyIsDecided
  <2> QED BY <2>1, <2>2, RemoveRefines
<1>7. CASE processInputProc
  <2>1. UNCHANGED <<head, tail, events, xe, pDequeueScreen>> /\ pc = "call" /\ pc' = "test"
    BY <1>7 DEF processInputProc, Goto, queueUnread, queueBehindHead
  <2>2. AstrayKeys' = AstrayKeys
    BY <2>1 DEF AstrayKeys, QueuedKeys, Live, Astray, ScreenBefore, PrevSlot
  <2>3. CASE xe.type = "key"
    <3>0. seen'.key = xe.n /\ seen'.lost = FALSE
      BY <1>0, <1>7, <2>3 DEF processInputProc, TypeOK
    <3>1. \A i \in Slots : IsKey(i) => xe.n < events[i].n
      BY <2>1, <2>3 DEF QueueInv, KeysAreYoung
    <3>2. \A i \in Slots : events[i].n \in Nat
      BY <1>0 DEF TypeOK, Event
    <3>3. xe.n \in Nat
      BY <1>0 DEF TypeOK, Event
    <3>4. \A n : n \in Waiting <=> \/ \E i \in Slots : IsKey(i) /\ n = events[i].n
                                   \/ n = xe.n
      <4> TAKE n
      <4> QED BY <2>1, <2>3, WaitingKeys
    <3>5. \A n : n \in Waiting' <=> \E i \in Slots : IsKey(i) /\ n = events[i].n
      BY <2>1 DEF Waiting, QueuedKeys, InHand, IsKey, Live
    <3>6. xe.n \in Waiting /\ (\A m \in Waiting : xe.n <= m) /\ Waiting' = Waiting \ {xe.n}
      BY <3>1, <3>2, <3>3, <3>4, <3>5
    <3>7. xe.n \notin AstrayKeys
      BY <3>1, <3>2, <3>3, StrayingKeys
    <3> QED BY <2>2, <3>0, <3>6, <3>7 DEF Delivery!Next, Delivery!Deliver, Delivery!Oldest
  <2>4. CASE xe.type # "key"
    <3>1. seen'.key = seen.key /\ seen'.lost = seen.lost
      BY <1>0, <1>7, <2>4 DEF processInputProc, TypeOK, Event, Types
    <3> QED BY <2>1, <2>2, <2>4, <3>1 DEF Waiting, QueuedKeys, InHand, Live
  <2> QED BY <2>3, <2>4
<1>8. CASE SaveScreens \/ Tick \/ UNCHANGED vars
  <2>1. UNCHANGED <<head, tail, events, seen, pc, xe, pDequeueScreen>>
    BY <1>8 DEF SaveScreens, Tick, vars, qvars, queueUnread, queueBehindHead
  <2> QED
    BY <2>1
    DEF Waiting, QueuedKeys, InHand, Live, AstrayKeys, Astray, ScreenBefore, PrevSlot
<1> QED
  BY <1>1, <1>2, <1>3, <1>4, <1>5, <1>6, <1>7, <1>8 DEF Next, mieqProcessInputEvents

LEMMA RefinementInit == Init => Delivery!Init /\ KeyIsDecided
<1> SUFFICES ASSUME Init PROVE Delivery!Init /\ KeyIsDecided
  OBVIOUS
<1>1. \A i \in Slots : ~Live(i)
  BY DEF Init, Live, Slots
<1>2. Waiting = {} /\ AstrayKeys = {} /\ KeyIsDecided
  BY <1>1 DEF Init, Waiting, InHand, AstrayKeys, QueuedKeys, KeyIsDecided
<1> QED BY <1>2 DEF Init, Delivery!Init

(* The ring implements OrderedDelivery: the key and button events accepted   *)
(* by mieqEnqueue leave once each and in order, handed to their device       *)
(* exactly when the screen dix is on at their turn is their own, for every   *)
(* queue size and every interleaving of the driver's signal and of warps     *)
(* with mieqProcessInputEvents; a warp or a crossing sends at most one of    *)
(* them astray.                                                              *)
THEOREM QueueRefinesDelivery == Spec => DeliversInOrder
BY InvInit, InvStep, RefinementInit, RefinementStep, DecidedStep, PTL
DEF Spec, DeliversInOrder, Delivery!SafeSpec
=============================================================================
