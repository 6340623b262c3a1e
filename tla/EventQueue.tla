------------------------------ MODULE EventQueue ------------------------------
(***************************************************************************)
(* The hardware event queue of the X server: mi/mieq.c, with the pointer   *)
(* motion and screen crossing of mi/mipointer.c that feed it.              *)
(*                                                                         *)
(* A driver's SIGIO handler calls mieqEnqueue.  It can interrupt the       *)
(* server's main thread between any two of its accesses to the queue, and  *)
(* is itself never interrupted (the stated assumption of mieqEnqueue), so  *)
(* an enqueue is one step and mieqProcessInputEvents is a sequence of      *)
(* steps named by pc.  Main-thread code that enqueues (a pointer warp)     *)
(* blocks the signal first, so a warp is one step as well.                 *)
(*                                                                         *)
(* Key and button events are both of type "key" here: neither the queue    *)
(* nor the screen logic tells them apart.  Every event carries a serial    *)
(* number n in place of its contents (key, coordinates).                   *)
(***************************************************************************)
EXTENDS Integers

CONSTANTS
  QUEUE_SIZE,   \* slots of the ring (256 in the code; one is always free)
  Screens,      \* screenInfo.screens
  Screen0,      \* screenInfo.screens[0]
  InitTime,     \* GetTimeInMillis() when mieqInit ran
  Slop,         \* times further back than this are not adjusted (10000 ms)
  MaxSerial,    \* bound: events offered to the queue
  MaxTime       \* bound: the clock stops here

ASSUME QueueAssumption ==
  /\ QUEUE_SIZE \in Nat /\ QUEUE_SIZE >= 2
  /\ Screen0 \in Screens
  /\ InitTime \in Nat /\ Slop \in Nat /\ MaxSerial \in Nat /\ MaxTime \in Nat

VARIABLES
  head, tail,         \* the live slots are those from head up to before tail
  lastMotion,         \* the youngest queued event is a motion event
  lastEventTime,
  events,             \* the ring itself
  pEnqueueScreen,     \* screen the driver is on (also miPointer.pScreen)
  pDequeueScreen,     \* screen dix is on
  screenIsSaved,      \* the screen saver is blanking the screen
  pc,                 \* where the main thread is
  xe,                 \* mieqProcessInputEvents' copy of the event at head
  now, hwTime,        \* the server's clock; stamp of the last driver event
  serial,             \* serial of the last event offered to the queue
  seen                \* history: the last key to leave the queue, whether it was lost,
                      \* and the last motion given to dix

qvars == <<head, tail, lastMotion, lastEventTime, events>>
vars == <<qvars, pEnqueueScreen, pDequeueScreen, screenIsSaved, pc, xe, now, hwTime,
          serial, seen>>

Slots == 0 .. QUEUE_SIZE - 1
Types == {"key", "motion"}
Event == [type : Types, n : Nat, time : Nat, scr : Screens]
PCs == {"main", "test", "look", "switch", "leave", "drop", "newscreen", "copy", "copy2",
        "remove", "call"}

(* Positions in the ring, with the code's comparisons in place of a modulo. *)
NextSlotUnwrapped(i) == i + 1
NextSlot(i) == IF i + 1 = QUEUE_SIZE THEN 0 ELSE i + 1
PrevSlot(i) == IF i = 0 THEN QUEUE_SIZE - 1 ELSE i - 1
Live(i) == IF head <= tail THEN head <= i /\ i < tail ELSE head <= i \/ i < tail
(* How far behind the head slot i stands: the order in which slots are read. *)
Dist(i) == IF i >= head THEN i - head ELSE i - head + QUEUE_SIZE

(* mieqInit.  Only here is lastEventTime ever assigned. *)
Init ==
  /\ head = 0 /\ tail = 0
  /\ lastMotion = FALSE
  /\ lastEventTime = InitTime
  /\ events = [i \in Slots |-> [type |-> "key", n |-> 0, time |-> 0, scr |-> Screen0]]
  /\ pEnqueueScreen = Screen0 /\ pDequeueScreen = Screen0
  /\ screenIsSaved = FALSE
  /\ pc = "main"
  /\ xe = [type |-> "key", n |-> 0, time |-> 0, scr |-> Screen0]
  /\ now = InitTime /\ hwTime = 0
  /\ serial = 0
  /\ seen = [key |-> 0, lost |-> FALSE, motion |-> 0]

-----------------------------------------------------------------------------
(* mieqEnqueue: the producer's side.                                        *)

(* A motion event replaces the motion event queued just before it. *)
ReplacesMotionIgnoringType(type) == type = "motion" /\ tail # head
ReplacesMotionForAny(type) == lastMotion /\ tail # head
ReplacesMotion(type) == type = "motion" /\ lastMotion /\ tail # head

NeverFull == FALSE
Full == NextSlot(tail) = head

(* "Make sure that event times don't go backwards." *)
AdjustedTime(t) ==
  IF t < lastEventTime /\ lastEventTime - t < Slop THEN lastEventTime ELSE t

StoreEvent(slot, type, t, scr) ==
  /\ lastMotion' = (type = "motion")
  /\ events' = [events EXCEPT ![slot] =
                  [type |-> type, n |-> serial', time |-> AdjustedTime(t), scr |-> scr]]

mieqEnqueue(type, t, scr) ==
  /\ serial' = serial + 1
  /\ UNCHANGED <<head, lastEventTime, seen>>
  /\ \/ /\ ReplacesMotion(type)
        /\ StoreEvent(PrevSlot(tail), type, t, scr)
        /\ UNCHANGED tail
     \/ /\ ~ReplacesMotion(type) /\ Full        \* toss events which come in late
        /\ UNCHANGED <<tail, lastMotion, events>>
     \/ /\ ~ReplacesMotion(type) /\ ~Full
        /\ tail' = NextSlot(tail)
        /\ StoreEvent(tail, type, t, scr)

(* A driver stamps its events in order and never ahead of the clock. *)
DriverTime(t) == t \in hwTime .. now /\ hwTime' = t

(* SIGIO: the driver reads a key or a button event. *)
KeyOrButton(t) ==
  /\ serial < MaxSerial
  /\ DriverTime(t)
  /\ mieqEnqueue("key", t, pEnqueueScreen)
  /\ UNCHANGED <<pEnqueueScreen, pDequeueScreen, screenIsSaved, pc, xe, now>>

(* SIGIO: miPointerAbsoluteCursor.  The pointer moves to s: the screen it  *)
(* is on or, having run over its edge, another one.  A crossing switches   *)
(* the screen the driver enqueues for before miPointerMove enqueues the    *)
(* motion.                                                                 *)
miPointerAbsoluteCursor(s, t) ==
  /\ serial < MaxSerial
  /\ DriverTime(t)
  /\ pEnqueueScreen' = s                            \* mieqSwitchScreen(s, FALSE)
  /\ mieqEnqueue("motion", t, s)
  /\ UNCHANGED <<pDequeueScreen, screenIsSaved, pc, xe, now>>

(* The main thread warps the pointer to screen s, with the signal blocked:  *)
(* for a request, or from inside the processing of an event (a grab confines *)
(* the cursor).  gen is miPointerSetCursorPosition's generateEvent.          *)
miPointerWarpCursor(s, gen) ==
  /\ pc \in {"main", "call", "newscreen"}
  /\ pEnqueueScreen' = s
  /\ pDequeueScreen' = IF s # pEnqueueScreen THEN s ELSE pDequeueScreen
  /\ IF gen THEN serial < MaxSerial /\ mieqEnqueue("motion", now, s)
            ELSE UNCHANGED <<qvars, serial, seen>>
  /\ UNCHANGED <<screenIsSaved, pc, xe, now, hwTime>>

-----------------------------------------------------------------------------
(* mieqProcessInputEvents: the consumer's side.                             *)

KeepHead == UNCHANGED head
AdvanceHead == head' = IF head = QUEUE_SIZE - 1 THEN 0 ELSE head + 1

Goto(label) == pc' = label
queueBehindHead == <<tail, lastMotion, lastEventTime, events, pEnqueueScreen, now, hwTime,
                     serial>>
queueUnread == <<head, queueBehindHead>>

(* Dispatch finds *icheck[0] # *icheck[1] and calls ProcessInputEvents. *)
Enter ==
  /\ pc = "main" /\ head # tail
  /\ Goto("test")
  /\ UNCHANGED <<queueUnread, pDequeueScreen, screenIsSaved, xe, seen>>

(* The loop test.  A pending event ends the screen saver. *)
Test ==
  /\ pc = "test"
  /\ IF head # tail THEN Goto("look") /\ screenIsSaved' = FALSE
                    ELSE Goto("main") /\ UNCHANGED screenIsSaved
  /\ UNCHANGED <<queueUnread, pDequeueScreen, xe, seen>>

Look ==
  /\ pc = "look"
  /\ Goto(IF events[head].scr # pDequeueScreen THEN "switch" ELSE "copy")
  /\ UNCHANGED <<queueUnread, pDequeueScreen, screenIsSaved, xe, seen>>

(* e->pScreen is read again for the assignment ... *)
Switch ==
  /\ pc = "switch"
  /\ pDequeueScreen' = events[head].scr
  /\ Goto("leave")
  /\ UNCHANGED <<queueUnread, screenIsSaved, xe, seen>>

(* ... then the coordinates are read ... *)
ReadPosition ==
  /\ pc = "leave"
  /\ xe' = events[head]
  /\ Goto("drop")
  /\ UNCHANGED <<queueUnread, pDequeueScreen, screenIsSaved, seen>>

(* ... and the event is removed.  Whatever it was it has become a switch: of *)
(* a motion the position is used, but a key or button event is lost.         *)
Drop ==
  /\ pc = "drop"
  /\ AdvanceHead
  /\ Goto("newscreen")
  /\ seen' = IF xe.type = "motion" THEN [seen EXCEPT !.motion = xe.n]
                                   ELSE [seen EXCEPT !.key = xe.n, !.lost = TRUE]
  /\ UNCHANGED <<queueBehindHead, pDequeueScreen, screenIsSaved, xe>>

NewCurrentScreen ==
  /\ pc = "newscreen"
  /\ Goto("test")
  /\ UNCHANGED <<queueUnread, pDequeueScreen, screenIsSaved, xe, seen>>

(* xe = e->event is no atomic copy: the signal may come half way through. *)
CopyFirstHalf ==
  /\ pc = "copy"
  /\ xe' = events[head]
  /\ Goto("copy2")
  /\ UNCHANGED <<queueUnread, pDequeueScreen, screenIsSaved, seen>>

CopySecondHalf ==
  /\ pc = "copy2"
  /\ xe' = [xe EXCEPT !.time = events[head].time]
  /\ Goto("remove")
  /\ UNCHANGED <<queueUnread, pDequeueScreen, screenIsSaved, seen>>

Remove ==
  /\ pc = "remove"
  /\ AdvanceHead
  /\ Goto("call")
  /\ UNCHANGED <<queueBehindHead, pDequeueScreen, screenIsSaved, xe, seen>>

(* The copy goes to the device's processInputProc. *)
processInputProc ==
  /\ pc = "call"
  /\ seen' = IF xe.type = "motion"
               THEN [seen EXCEPT !.motion = xe.n]
               ELSE [seen EXCEPT !.key = xe.n, !.lost = FALSE]
  /\ Goto("test")
  /\ UNCHANGED <<queueUnread, pDequeueScreen, screenIsSaved, xe>>

mieqProcessInputEvents ==
  \/ Enter \/ Test \/ Look
  \/ Switch \/ ReadPosition \/ Drop \/ NewCurrentScreen
  \/ CopyFirstHalf \/ CopySecondHalf \/ Remove \/ processInputProc

-----------------------------------------------------------------------------
(* The rest of the server, as far as the queue can tell. *)
SaveScreens ==
  /\ pc = "main"
  /\ screenIsSaved' = TRUE
  /\ UNCHANGED <<queueUnread, pDequeueScreen, pc, xe, seen>>

Tick ==
  /\ now < MaxTime
  /\ now' = now + 1
  /\ UNCHANGED <<qvars, pEnqueueScreen, pDequeueScreen, screenIsSaved, pc, xe, hwTime, serial,
                 seen>>

Next ==
  \/ \E t \in 0 .. now : KeyOrButton(t)
  \/ \E t \in 0 .. now, s \in Screens : miPointerAbsoluteCursor(s, t)
  \/ \E s \in Screens, gen \in BOOLEAN : miPointerWarpCursor(s, gen)
  \/ mieqProcessInputEvents
  \/ SaveScreens
  \/ Tick

Spec == Init /\ [][Next]_vars

(* The main loop keeps running: dispatch tests for input before and after   *)
(* every request, and mieqProcessInputEvents never blocks.                  *)
FairSpec == Spec /\ WF_vars(mieqProcessInputEvents)

-----------------------------------------------------------------------------
(* Properties. *)

(* The variables keep their types; above all head and tail, which           *)
(* mieqEnqueue and mieqProcessInputEvents wrap by comparison, stay in the   *)
(* ring.                                                                    *)
TypeOK ==
  /\ head \in Slots /\ tail \in Slots
  /\ lastMotion \in BOOLEAN
  /\ lastEventTime \in Nat
  /\ events \in [Slots -> Event]
  /\ pEnqueueScreen \in Screens /\ pDequeueScreen \in Screens
  /\ screenIsSaved \in BOOLEAN
  /\ pc \in PCs
  /\ xe \in Event
  /\ now \in Nat /\ hwTime \in Nat
  /\ serial \in Nat
  /\ seen \in [key : Nat, lost : BOOLEAN, motion : Nat]

(* The key and button events accepted and not yet handed over: those in     *)
(* live slots, and the one mieqProcessInputEvents has taken off the ring.   *)
QueuedKeys == {i \in Slots : Live(i) /\ events[i].type = "key"}
InHand == IF pc = "call" /\ xe.type = "key" THEN {xe.n} ELSE {}
Waiting == {events[i].n : i \in QueuedKeys} \cup InHand

(* A queued key is astray if the screen dix will be on when its turn comes   *)
(* is another one than its own: then mieqProcessInputEvents switches to that *)
(* screen and drops it, against its "Assumption - screen switching can only  *)
(* occur on motion events".  That happens when a warp has changed            *)
(* pDequeueScreen under the events queued before it, and when the motion of  *)
(* a crossing was tossed by a full queue or compressed into a slot already   *)
(* looked at.                                                                *)
ScreenBefore(i) == IF i = head THEN pDequeueScreen ELSE events[PrevSlot(i)].scr
Astray(i) == events[i].scr # ScreenBefore(i) \/ (i = head /\ pc \in {"leave", "drop"})
AstrayKeys == {events[i].n : i \in {j \in QueuedKeys : Astray(j)}}

Delivery == INSTANCE OrderedDelivery
              WITH Serials <- 1 .. MaxSerial, waiting <- Waiting, astray <- AstrayKeys,
                   last <- seen.key, lost <- seen.lost

(* Accepted key and button events leave the queue once each and in order,   *)
(* and one is handed to its device exactly when it is not astray: motion    *)
(* compression, wrap-around, overflow and signals that hit                  *)
(* mieqProcessInputEvents anywhere repeat or reorder none and lose no other *)
(* than astray ones, and a warp or a crossing sends at most one astray.     *)
DeliversInOrder == Delivery!SafeSpec

(* As long as the main loop runs, every accepted key or button event comes  *)
(* out, is handed over unless it is astray, and no signal or warp keeps it  *)
(* in the queue for ever.                                                   *)
EventuallyOut == Delivery!Spec

(* While the consumer is between its loop test and its removal of the head, *)
(* the head slot stays live, and a key event it has copied is still the one *)
(* in that slot: the signal handler never changes a slot holding a key or   *)
(* button event, only the newest motion event.                              *)
HeadIsStable ==
  /\ pc \in {"look", "switch", "leave", "drop", "copy", "copy2", "remove"} => Live(head)
  /\ pc \in {"drop", "copy2", "remove"} =>
       /\ xe.type = events[head].type
       /\ xe.type = "key" => xe = events[head]

(* A pointer position that is in the queue while the main loop is elsewhere  *)
(* gets through to dix, or a newer one does: compression keeps the newest,   *)
(* keys behind it do not displace it, and a signal in the middle of the      *)
(* consumer can only lose the position it has just brought.                  *)
QueuedPositions == {events[i].n : i \in {j \in Slots : Live(j) /\ events[j].type = "motion"}}
PositionGetsThrough ==
  \A n \in 1 .. MaxSerial : pc = "main" /\ n \in QueuedPositions ~> seen.motion >= n
=============================================================================
