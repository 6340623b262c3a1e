-------------------------------- MODULE Grabs --------------------------------
(***************************************************************************)
(* Device grabs, freezing and the queue of synchronous events of the X     *)
(* server: dix/events.c, with the client shutdown of dix/dispatch.c and    *)
(* the unmapping and destruction of windows of dix/window.c that release   *)
(* grabs.                                                                  *)
(*                                                                         *)
(* The server is single-threaded, but these procedures call each other:    *)
(* releasing a grab thaws a device, which plays the events queued while it *)
(* was frozen, and any of those can activate another grab in the middle of *)
(* the caller.  The C stack is the variable todo: a sequence of frames,    *)
(* the innermost first, each naming what is still to be done.  A request   *)
(* or a device event is taken up only when todo is empty.                  *)
(*                                                                         *)
(* One key and one button; windows form a chain, the root first, so that   *)
(* the pointer's position and spriteTrace are both just a depth; the focus *)
(* is PointerRoot; grabs name no cursor and no confine-to window; request  *)
(* times are valid.  What a client selects is a free choice.               *)
(***************************************************************************)
EXTENDS Integers, Sequences, FiniteSets

CONSTANTS
  Clients,
  Depth,        \* windows are 1 .. Depth, 1 the root, each the child of the one before
  Owner,        \* the client that created each window
  Server,       \* the owner of the root
  NoGrab, None, \* null pointers
  Autorepeat,   \* whether the keyboard's driver reports a key held down as pressed again
  MaxEvents,    \* bound: device events
  MaxPassive,   \* bound: passive grabs at a time
  MaxChanges    \* bound: operations on windows and clients

Windows == 1 .. Depth

ASSUME GrabsAssumption ==
  /\ Depth \in Nat \ {0}
  /\ Owner \in [Windows -> Clients \cup {Server}]
  /\ Owner[1] = Server /\ Server \notin Clients
  /\ None \notin {"ptr", "kbd"}
  /\ \A c \in Clients, w \in Windows : NoGrab # [client |-> c, win |-> w]
  /\ \A c \in Clients, this, other \in BOOLEAN :
       NoGrab # [client |-> c, this |-> this, other |-> other]
  /\ Autorepeat \in BOOLEAN
  /\ MaxEvents \in Nat /\ MaxPassive \in Nat /\ MaxChanges \in Nat

VARIABLES
  sync,          \* per device: the active grab and the sync record of a DeviceIntRec
  activatingKey, \* whether keyboard->activatingKey has been set to the key
  down,          \* per device: its key or button is down, as far as processed
  hwDown,        \* ... and as far as the hardware knows
  pending,       \* syncEvents.pending: events of frozen devices
  playing,       \* syncEvents.playingEvents
  todo,          \* the stack of what the current request or event has left to do
  passive,       \* per window and device: its passive grab
  exists,        \* the windows not yet destroyed
  mapped,        \* per window
  hot,           \* sprite.hot: how deep the pointer is in the chain, were all mapped
  traceGood,     \* spriteTraceGood: spriteTrace is the windows 1 .. traceGood
  client,        \* per client: its connection
  serial,        \* number of the last device event
  done,          \* history, per device: the last event processed
  owed,          \* history, per device: the last event queued, until it is processed
  keyLost,       \* history: an event of the keyboard has been lost
  changes        \* number of operations on windows and clients so far

device == <<activatingKey, down, done, owed, keyLost>>
hardware == <<hwDown, serial>>
sprite == <<hot, traceGood>>
windows == <<exists, mapped>>
holdings == <<passive, client, changes>>
vars == <<sync, device, hardware, pending, playing, todo, sprite, windows, holdings>>

Devices == {"ptr", "kbd"}
EventTypes == {"press", "release", "motion"}
Events == [dev : Devices, type : EventTypes, id : 0 .. MaxEvents, at : Windows]
NoEvent == [dev |-> "ptr", type |-> "motion", id |-> 0, at |-> 1]

ActiveGrabs == [client : Clients, win : Windows]
PassiveGrabs == [client : Clients, this : BOOLEAN, other : BOOLEAN]   \* TRUE: GrabModeSync

FROZEN == {"FROZEN_NO_EVENT", "FROZEN_WITH_EVENT"}
States == {"NOT_GRABBED", "THAWED", "FREEZE_NEXT_EVENT", "FREEZE_BOTH_NEXT_EVENT"} \cup FROZEN

(* dev->grab, fromPassiveGrab and dev->sync.  "other" points to the active  *)
(* grab of another device, which is named by that device.                   *)
Syncs == [grab : ActiveGrabs \cup {NoGrab}, fromPassive : BOOLEAN, state : States,
          other : Devices \cup {None}, frozen : BOOLEAN, event : Events]

Ops == {"input", "hold", "replay", "play", "delete", "unrealize", "crush", "restructure", "vanish",
        "release", "gone", "retain", "free"}
Frames == [op : Ops, e : Events, d : Devices, w : Windows, c : Clients \cup {None},
           live : BOOLEAN]
Frame(op, e, d, w, c, live) ==
  [op |-> op, e |-> e, d |-> d, w |-> w, c |-> c, live |-> live]
InputFrame(e) == Frame("input", e, e.dev, 1, None, FALSE)
PlayFrame == Frame("play", NoEvent, "ptr", 1, None, FALSE)
WindowFrame(op, d, w) == Frame(op, NoEvent, d, w, None, FALSE)
ClientFrame(op, c) == Frame(op, NoEvent, "ptr", 1, c, FALSE)

Idle == todo = <<>>
Doing(op) == todo # <<>> /\ Head(todo).op = op
Now == Head(todo)
Rest == Tail(todo)

Realized(w) == \A v \in 1 .. w : v \in exists /\ mapped[v]
(* XYToWindow: how many windows around a point, all the ones outside it      *)
(* mapped.                                                                   *)
TraceAt(p) == Cardinality({n \in 1 .. p : \A v \in 2 .. n : v \in exists /\ mapped[v]})

GrabbedBy(s, d, c) == s[d].grab # NoGrab /\ s[d].grab.client = c
OtherOf(s, d, c) == s[d].other # None /\ GrabbedBy(s, s[d].other, c)

Init ==
  /\ sync = [d \in Devices |-> [grab |-> NoGrab, fromPassive |-> FALSE, state |-> "NOT_GRABBED",
                                other |-> None, frozen |-> FALSE, event |-> NoEvent]]
  /\ activatingKey = FALSE
  /\ down = [d \in Devices |-> FALSE] /\ hwDown = [d \in Devices |-> FALSE]
  /\ pending = <<>> /\ playing = FALSE /\ todo = <<>>
  /\ passive = [w \in Windows |-> [d \in Devices |-> NoGrab]]
  /\ exists = Windows
  /\ mapped = [w \in Windows |-> TRUE]
  /\ hot = Depth /\ traceGood = Depth
  /\ client = [c \in Clients |-> "running"]
  /\ serial = 0
  /\ done = [d \in Devices |-> 0] /\ owed = [d \in Devices |-> 0] /\ keyLost = FALSE
  /\ changes = 0

-----------------------------------------------------------------------------
(* Freezing and thawing, and the activation and release of a grab, as        *)
(* functions of the devices' sync records.                                   *)

(* FreezeThaw on every device, as ComputeFreezes calls it.  A held event the *)
(* state no longer speaks of is never looked at again.                       *)
Refrozen(s) ==
  [d \in Devices |->
     [s[d] EXCEPT !.frozen = s[d].other # None \/ s[d].state \in FROZEN,
                  !.event = IF s[d].state = "FROZEN_WITH_EVENT" THEN s[d].event ELSE NoEvent]]

(* ComputeFreezes, having changed the sync records to s, with the replay     *)
(* frames (at most one) to run first: unless events are being played already *)
(* or there are none, play them, then go on with rest.                       *)
ComputeFreezesPlayingOnReplay(s, replay, rest) ==
  /\ sync' = Refrozen(s)
  /\ IF playing \/ replay = <<>>
       THEN todo' = rest /\ UNCHANGED playing
       ELSE todo' = replay \o <<PlayFrame>> \o rest /\ playing' = TRUE
ComputeFreezes(s, replay, rest) ==
  /\ sync' = Refrozen(s)
  /\ IF playing \/ (replay = <<>> /\ pending = <<>>)
       THEN todo' = rest /\ UNCHANGED playing
       ELSE todo' = replay \o <<PlayFrame>> \o rest /\ playing' = TRUE

(* CheckGrabForSyncs: "free both if same client owns both". *)
CheckGrabForSyncs(s, this, thisSync, otherSync) ==
  LET c == s[this].grab.client
      freed(d) == IF OtherOf(s, d, c) THEN None ELSE s[d].other
  IN [d \in Devices |->
        IF d = this
          THEN IF thisSync THEN [s[d] EXCEPT !.state = "FROZEN_NO_EVENT"]
                           ELSE [s[d] EXCEPT !.state = "THAWED", !.other = freed(d)]
          ELSE [s[d] EXCEPT !.other = IF otherSync THEN this ELSE freed(d)]]

(* ActivatePointerGrab and ActivateKeyboardGrab. *)
Activated(s, d, g, thisSync, otherSync, passively) ==
  CheckGrabForSyncs([s EXCEPT ![d].grab = g, ![d].fromPassive = passively],
                    d, thisSync, otherSync)

(* DeactivatePointerGrab and DeactivateKeyboardGrab. *)
Unlinked(s, e) ==
  [d \in Devices |-> [s[d] EXCEPT !.other = IF s[d].other = e THEN None ELSE s[d].other]]
DeactivatedOnly(s, e) ==
  [s EXCEPT ![e].grab = NoGrab, ![e].state = "NOT_GRABBED", ![e].fromPassive = FALSE]
Deactivated(s, e) ==
  Unlinked([s EXCEPT ![e].grab = NoGrab, ![e].state = "NOT_GRABBED", ![e].fromPassive = FALSE],
           e)

(* DeliverGrabbedEvent freezes d again if its client asked for one event.    *)
HeldAfterDelivery(s, d, e) ==
  LET held == [s EXCEPT ![d].state = "FROZEN_WITH_EVENT", ![d].frozen = TRUE, ![d].event = e]
      c == s[d].grab.client
      both(o) == IF s[o].state = "FREEZE_BOTH_NEXT_EVENT" /\ s[o].grab.client = c
                   THEN [s[o] EXCEPT !.state = "FROZEN_NO_EVENT", !.frozen = TRUE]
                   ELSE [s[o] EXCEPT !.other = d, !.frozen = TRUE]
  IN CASE s[d].state = "FREEZE_BOTH_NEXT_EVENT" ->
            [o \in Devices |-> IF o = d THEN held[d] ELSE both(o)]
       [] s[d].state = "FREEZE_NEXT_EVENT" -> held
       [] OTHER -> s

-----------------------------------------------------------------------------
(* A device event.  Its frame is done by processInputProc, which is          *)
(* EnqueueEvent for a frozen device.                                         *)

(* The hardware: the key and the button go down and up in turn (but for a    *)
(* repeated key), the pointer moves anywhere.                                *)
DeviceEvent(d, type, at) ==
  /\ Idle /\ serial < MaxEvents
  /\ d = "kbd" => type # "motion"
  /\ type = "press" => ~hwDown[d] \/ (Autorepeat /\ d = "kbd")
  /\ type = "release" => hwDown[d]
  /\ type # "motion" => at = 1
  /\ serial' = serial + 1
  /\ hwDown' = IF type = "motion" THEN hwDown ELSE [hwDown EXCEPT ![d] = (type = "press")]
  /\ todo' = <<InputFrame([dev |-> d, type |-> type, id |-> serial', at |-> at])>>
  /\ UNCHANGED <<sync, device, pending, playing, sprite, windows, holdings>>

(* Motion is compressed into a motion event at the tail.  (When the tail has *)
(* just been played from behind a frozen event, pendtail points past the     *)
(* end and the code does not compress.)  An event there is no memory for is  *)
(* dropped, and nobody is told.                                              *)
CompressesAnything(tail, e) == e.type = "motion"
Compresses(tail, e) == e.type = "motion" /\ tail.type = "motion"
KeptAs(queue) ==
  /\ pending' = queue
  /\ owed' = [owed EXCEPT ![Now.e.dev] = IF @ < Now.e.id THEN Now.e.id ELSE @]
  /\ UNCHANGED keyLost
LostForWantOfMemory ==
  /\ keyLost' = (keyLost \/ Now.e.dev = "kbd")
  /\ UNCHANGED <<pending, owed>>
EnqueueEvent ==
  /\ Doing("input") /\ sync[Now.e.dev].frozen
  /\ LET n == Len(pending)
     IN \/ n > 0 /\ Compresses(pending[n], Now.e) /\ KeptAs([pending EXCEPT ![n] = Now.e])
        \/ KeptAs(Append(pending, Now.e))
        \/ LostForWantOfMemory
  /\ todo' = Rest
  /\ UNCHANGED <<sync, activatingKey, down, done, hardware, playing, sprite, windows, holdings>>

Process(type) ==
  /\ Doing("input") /\ ~sync[Now.e.dev].frozen /\ Now.e.type = type
  /\ UNCHANGED <<hardware, pending, windows, holdings>>

Processed ==
  /\ done' = [done EXCEPT ![Now.d] = Now.e.id]
  /\ owed' = [owed EXCEPT ![Now.d] = IF @ <= Now.e.id THEN 0 ELSE @]
  /\ UNCHANGED keyLost

(* ProcessPointerEvent with a motion event, CheckMotion (and                 *)
(* CheckVirtualMotion for a queued one).                                     *)
ProcessMotion ==
  /\ Process("motion") /\ Processed
  /\ hot' = Now.e.at
  /\ traceGood' = TraceAt(Now.e.at)
  /\ todo' = Rest
  /\ UNCHANGED <<sync, activatingKey, down, playing>>

(* "allow ddx to generate multiple downs": an ordinary key that is down      *)
(* already is first released.                                                *)
ProcessRepeat ==
  /\ Process("press") /\ Now.d = "kbd" /\ down["kbd"]
  /\ todo' = <<InputFrame([Now.e EXCEPT !.type = "release"]), InputFrame(Now.e)>> \o Rest
  /\ UNCHANGED <<sync, device, playing, sprite>>

(* CheckDeviceGrabs: the passive grabs on the windows of the trace, the      *)
(* first windows skipped.                                                    *)
Triggers(d, first, trace) == {w \in first .. trace : passive[w][d] # NoGrab}
First(w, ws) == w \in ws /\ \A v \in ws : w <= v

(* CheckPassiveGrabsOnWindow activates the grab, which may play other        *)
(* devices' events, then holds the event.                                    *)
ActivatePassive(d, e, w, live) ==
  LET p == passive[w][d]
  IN ComputeFreezes(
       Activated(sync, d, [client |-> p.client, win |-> w], p.this, p.other, TRUE),
       <<>>, <<Frame("hold", e, d, w, None, live)>> \o Rest)

(* Delivery without a grab.  A button press that reaches a client is an      *)
(* implicit grab by that client (DeliverEventsToWindow).                     *)
Implicit(e) == e.dev = "ptr" /\ e.type = "press"
DeliverUngrabbed(e, trace) ==
  \/ UNCHANGED <<sync, playing>> /\ todo' = Rest
  \/ \E c \in Clients, w \in 1 .. trace :
       /\ Implicit(e) /\ client[c] = "running"
       /\ ComputeFreezes(Activated(sync, "ptr", [client |-> c, win |-> w], FALSE, FALSE, TRUE),
                         <<>>, Rest)

(* DeliverGrabbedEvent.  Keyboard grabs always select key events.            *)
DeliverGrabbed(d, e) ==
  \E delivered \in BOOLEAN :
    /\ delivered => client[sync[d].grab.client] = "running"
    /\ d = "kbd" /\ client[sync[d].grab.client] = "running" => delivered
    /\ sync' = IF delivered THEN HeldAfterDelivery(sync, d, e) ELSE sync
    /\ todo' = Rest
    /\ UNCHANGED playing

ProcessPress ==
  LET d == Now.d
      e == [Now.e EXCEPT !.at = hot]
      ws == Triggers(d, 1, traceGood)
  IN /\ Process("press") /\ ~(d = "kbd" /\ down[d]) /\ Processed
     /\ down' = [down EXCEPT ![d] = TRUE]
     /\ \/ sync[d].grab = NoGrab /\ \E w \in Windows : First(w, ws) /\ ActivatePassive(d, e, w, TRUE)
        \/ sync[d].grab = NoGrab /\ ws = {} /\ DeliverUngrabbed(e, traceGood)
        \/ sync[d].grab # NoGrab /\ DeliverGrabbed(d, e)
     /\ UNCHANGED <<activatingKey, sprite>>

(* The tail of CheckPassiveGrabsOnWindow and of ProcessKeyboardEvent's use   *)
(* of CheckDeviceGrabs.                                                      *)
HoldEvent ==
  /\ Doing("hold")
  /\ sync' = IF sync[Now.d].state = "FROZEN_NO_EVENT"
               THEN [sync EXCEPT ![Now.d].state = "FROZEN_WITH_EVENT", ![Now.d].event = Now.e]
               ELSE sync
  /\ activatingKey' = (activatingKey \/ (Now.d = "kbd" /\ Now.live))
  /\ todo' = Rest
  /\ UNCHANGED <<down, done, owed, keyLost, hardware, pending, playing, sprite, windows, holdings>>

(* A release ends a grab that a press activated: any for the pointer, one of *)
(* the activating key for the keyboard.                                      *)
EndsGrab(d) == sync[d].fromPassive /\ (d = "kbd" => activatingKey)

ProcessRelease ==
  LET d == Now.d
      e == [Now.e EXCEPT !.at = hot]
  IN /\ Process("release")
     /\ Processed
     /\ down' = [down EXCEPT ![d] = FALSE]
     /\ \/ ~down[d] /\ d = "kbd" /\ todo' = Rest /\ UNCHANGED <<sync, playing>>
        \/ /\ down[d] \/ d = "ptr"
           /\ \/ EndsGrab(d) /\ ComputeFreezes(Deactivated(sync, d), <<>>, Rest)
              \/ ~EndsGrab(d) /\ sync[d].grab # NoGrab /\ DeliverGrabbed(d, e)
              \/ ~EndsGrab(d) /\ sync[d].grab = NoGrab /\ todo' = Rest
                 /\ UNCHANGED <<sync, playing>>
     /\ UNCHANGED <<activatingKey, sprite>>

-----------------------------------------------------------------------------
(* ComputeFreezes, continued: replay of a held event, play of the queue.     *)

(* The event is processed again, as if the grab just released and those on   *)
(* the windows above did not exist.  XYToWindow recomputes the trace.        *)
Replay ==
  LET e == Now.e
      trace == TraceAt(e.at)
      ws == IF e.type = "press" /\ Now.w <= trace /\ (Now.d = "ptr" => down["ptr"])
              THEN Triggers(Now.d, Now.w + 1, trace) ELSE {}
  IN /\ Doing("replay")
     /\ traceGood' = trace
     /\ \/ \E w \in Windows : First(w, ws) /\ ActivatePassive(Now.d, e, w, FALSE)
        \/ ws = {} /\ DeliverUngrabbed(e, trace)
     /\ UNCHANGED <<device, hardware, pending, hot, windows, holdings>>

(* PlayReleasedEvents: always the first queued event of a device that is not *)
(* frozen, until there is none.                                              *)
HeadIfPlayable == {i \in 1 .. Len(pending) : i = 1 /\ ~sync[pending[i].dev].frozen}
Playable == {i \in 1 .. Len(pending) : ~sync[pending[i].dev].frozen}
LastPlayable(i) == i \in Playable /\ \A j \in Playable : i >= j
NextPlayable(i) == First(i, Playable)
StillWith(s, i) == s
Without(s, i) == SubSeq(s, 1, i - 1) \o SubSeq(s, i + 1, Len(s))

PlayOne ==
  /\ Doing("play")
  /\ \E i \in 1 .. Len(pending) :
       /\ NextPlayable(i)
       /\ pending' = Without(pending, i)
       /\ todo' = <<InputFrame(pending[i])>> \o todo
  /\ UNCHANGED <<sync, device, hardware, playing, sprite, windows, holdings>>

StopPlaying ==
  /\ Doing("play") /\ Playable = {}
  /\ playing' = FALSE
  /\ todo' = Rest
  /\ UNCHANGED <<sync, device, hardware, pending, sprite, windows, holdings>>

(* Device events. *)
Input ==
  \/ \E d \in Devices, type \in EventTypes, at \in Windows : DeviceEvent(d, type, at)
  \/ EnqueueEvent
  \/ ProcessMotion \/ ProcessRepeat \/ ProcessPress \/ HoldEvent \/ ProcessRelease
  \/ Replay \/ PlayOne \/ StopPlaying

-----------------------------------------------------------------------------
(* Requests. *)
Request(c) ==
  /\ Idle /\ client[c] = "running"
  /\ UNCHANGED <<device, hardware, pending, sprite, exists, client>>

(* An operation on windows or clients. *)
Change == changes < MaxChanges /\ changes' = changes + 1

(* ProcGrabPointer, GrabDevice (ProcGrabKeyboard).  Every refusal leaves the *)
(* state alone.                                                              *)
GrabDevice(c, d, w, thisSync, otherSync) ==
  /\ Request(c)
  /\ sync[d].grab # NoGrab => sync[d].grab.client = c                     \* AlreadyGrabbed
  /\ w \in exists /\ Realized(w)                                         \* GrabNotViewable
  /\ ~(sync[d].frozen /\ sync[d].other # None /\ ~OtherOf(sync, d, c))   \* GrabFrozen
  /\ ComputeFreezes(Activated(sync, d, [client |-> c, win |-> w], thisSync, otherSync, FALSE),
                    <<>>, <<>>)
  /\ UNCHANGED <<passive, mapped, changes>>

(* ProcUngrabPointer, ProcUngrabKeyboard. *)
UngrabDevice(c, d) ==
  /\ Request(c)
  /\ GrabbedBy(sync, d, c)
  /\ ComputeFreezes(Deactivated(sync, d), <<>>, <<>>)
  /\ UNCHANGED <<passive, mapped, changes>>

(* ProcGrabButton, ProcGrabKey (AddPassiveGrabToList: BadAccess if another   *)
(* client has it) and their release.  At most one per window and device.     *)
GrabPassively(c, d, w, thisSync, otherSync) ==
  /\ Request(c)
  /\ w \in exists /\ passive[w][d] = NoGrab
  /\ Cardinality({x \in Windows \X Devices : passive[x[1]][x[2]] # NoGrab}) < MaxPassive
  /\ passive' = [passive EXCEPT ![w][d] =
                   [client |-> c, this |-> thisSync, other |-> otherSync]]
  /\ UNCHANGED <<sync, playing, todo, mapped, changes>>

UngrabPassively(c, d, w) ==
  /\ Request(c)
  /\ w \in exists /\ passive[w][d] # NoGrab /\ passive[w][d].client = c
  /\ passive' = [passive EXCEPT ![w][d] = NoGrab]
  /\ UNCHANGED <<sync, playing, todo, mapped, changes>>

-----------------------------------------------------------------------------
(* AllowEvents. *)
ThisGrabbed(c, d) == GrabbedBy(sync, d, c)
ThisSynced(c, d) == sync[d].other # None /\ sync[d].other # d /\ OtherOf(sync, d, c)
OthersFrozen(c, d) ==
  \A o \in Devices \ {d} :
    IF GrabbedBy(sync, o, c) THEN sync[o].state \in FROZEN ELSE OtherOf(sync, o, c)

(* Of the devices in ds, those c has grabbed go to a state and those it has  *)
(* frozen by another device's grab are freed.                                *)
Thawed(ds, c, state) ==
  [d \in Devices |->
     IF d \notin ds THEN sync[d]
     ELSE [sync[d] EXCEPT !.state = IF GrabbedBy(sync, d, c) THEN state ELSE sync[d].state,
                          !.other = IF OtherOf(sync, d, c) THEN None ELSE sync[d].other]]

Modes == {"Async", "Sync", "AsyncBoth", "SyncBoth", "Replay"}
Both == {"AsyncBoth", "SyncBoth"}

NewStateUntranslated(mode) ==
  CASE mode = "Async" -> "THAWED" [] mode = "AsyncBoth" -> "THAWED_BOTH"
    [] mode = "Sync" -> "FREEZE_NEXT_EVENT" [] mode = "SyncBoth" -> "FREEZE_BOTH_NEXT_EVENT"
NewState(mode) ==
  CASE mode \in {"Async", "AsyncBoth"} -> "THAWED"
    [] mode = "Sync" -> "FREEZE_NEXT_EVENT"
    [] mode = "SyncBoth" -> "FREEZE_BOTH_NEXT_EVENT"

(* What a mode does to the devices, and when it does nothing. *)
Allowed(c, d, mode) ==
  IF mode = "Replay"
    THEN Deactivated(Thawed({d}, c, sync[d].state), d)
    ELSE Thawed(IF mode \in Both THEN Devices ELSE {d}, c, NewState(mode))

Applies(c, d, mode) ==
  CASE mode = "Async" -> TRUE
    [] mode = "Sync" -> ThisGrabbed(c, d)
    [] mode \in Both -> OthersFrozen(c, d)
    [] mode = "Replay" -> ThisGrabbed(c, d) /\ sync[d].state = "FROZEN_WITH_EVENT"

(* ProcAllowEvents, AllowSome. *)
AllowSome(c, d, mode) ==
  /\ Request(c)
  /\ mode \in Both => d = "kbd"
  /\ (ThisGrabbed(c, d) /\ sync[d].state \in FROZEN) \/ ThisSynced(c, d)
  /\ Applies(c, d, mode)
  /\ ComputeFreezes(Allowed(c, d, mode),
                    IF mode = "Replay"
                      THEN <<Frame("replay", sync[d].event, d, sync[d].grab.win, None, FALSE)>>
                      ELSE <<>>,
                    <<>>)
  /\ UNCHANGED <<passive, mapped, changes>>

Requests ==
  \E c \in Clients, d \in Devices :
    \/ \E w \in Windows, this, other \in BOOLEAN : GrabDevice(c, d, w, this, other)
    \/ UngrabDevice(c, d)
    \/ \E w \in Windows, this, other \in BOOLEAN : GrabPassively(c, d, w, this, other)
    \/ \E w \in Windows : UngrabPassively(c, d, w)
    \/ \E mode \in Modes : AllowSome(c, d, mode)

-----------------------------------------------------------------------------
(* Windows. *)

(* DeleteWindowFromAnyEvents for the pointer, then for the keyboard.         *)
WindowStepUnchanged ==
  UNCHANGED <<sync, device, hardware, pending, playing, sprite, windows, holdings>>

DeletePointerFrames(w) == <<WindowFrame("delete", "ptr", w), WindowFrame("delete", "ptr", w)>>
DeleteFrames(w) == <<WindowFrame("delete", "ptr", w), WindowFrame("delete", "kbd", w)>>

(* UnmapWindow. *)
Unmapped(w) == mapped' = [mapped EXCEPT ![w] = FALSE]
UnmapFrames(w) ==
  IF Realized(w) THEN <<WindowFrame("unrealize", "ptr", w), WindowFrame("restructure", "ptr", w)>>
                 ELSE <<>>

(* UnrealizeTree: a window, then its child if that was realized.             *)
UnrealizeTree ==
  /\ Doing("unrealize")
  /\ LET child == Now.w + 1
     IN todo' = DeleteFrames(Now.w)
                \o (IF child \in exists /\ mapped[child]
                      THEN <<WindowFrame("unrealize", "ptr", child)>> ELSE <<>>)
                \o Rest
  /\ WindowStepUnchanged

(* CrushTree and FreeWindowResources: a window's child, then the window.     *)
CrushTree ==
  /\ Doing("crush")
  /\ LET child == Now.w + 1
     IN todo' = (IF child \in exists THEN <<WindowFrame("crush", "ptr", child)>> ELSE <<>>)
                \o DeleteFrames(Now.w) \o <<WindowFrame("vanish", "ptr", Now.w)>> \o Rest
  /\ WindowStepUnchanged

MapWindow(c, w) ==
  /\ Request(c) /\ Change
  /\ w \in exists \ {1} /\ ~mapped[w]
  /\ mapped' = [mapped EXCEPT ![w] = TRUE]
  /\ todo' = IF Realized(w - 1) THEN <<WindowFrame("restructure", "ptr", w)>> ELSE <<>>
  /\ UNCHANGED <<sync, playing, passive>>

UnmapWindow(c, w) ==
  /\ Request(c) /\ Change
  /\ w \in exists \ {1} /\ mapped[w]
  /\ Unmapped(w)
  /\ todo' = UnmapFrames(w)
  /\ UNCHANGED <<sync, playing, passive>>

(* DeleteWindow, for a request or as part of FreeClientResources. *)
DeleteWindow(w, rest) ==
  /\ Unmapped(w)
  /\ todo' = UnmapFrames(w) \o <<WindowFrame("crush", "ptr", w)>> \o rest

DestroyWindow(c, w) ==
  /\ Request(c) /\ Change
  /\ w \in exists \ {1}
  /\ DeleteWindow(w, <<>>)
  /\ UNCHANGED <<sync, playing, passive>>

(* The window and the passive grabs on it are freed.                         *)
Vanish ==
  /\ Doing("vanish")
  /\ exists' = exists \ {Now.w}
  /\ passive' = [passive EXCEPT ![Now.w] = [d \in Devices |-> NoGrab]]
  /\ todo' = Rest
  /\ UNCHANGED <<sync, device, hardware, pending, playing, sprite, mapped, client, changes>>

(* DeleteWindowFromAnyEvents for one device. *)
DeleteFromDevice ==
  /\ Doing("delete")
  /\ \/ /\ sync[Now.d].grab # NoGrab /\ sync[Now.d].grab.win = Now.w
        /\ ComputeFreezes(Deactivated(sync, Now.d), <<>>, Rest)
     \/ /\ ~(sync[Now.d].grab # NoGrab /\ sync[Now.d].grab.win = Now.w)
        /\ todo' = Rest
        /\ UNCHANGED <<sync, playing>>
  /\ UNCHANGED <<device, hardware, pending, sprite, windows, holdings>>

WindowsRestructured ==
  /\ Doing("restructure")
  /\ traceGood' = TraceAt(hot)
  /\ todo' = Rest
  /\ UNCHANGED <<sync, device, hardware, pending, playing, hot, windows, holdings>>

WindowOps ==
  \/ \E c \in Clients, w \in Windows :
       MapWindow(c, w) \/ UnmapWindow(c, w) \/ DestroyWindow(c, w)
  \/ UnrealizeTree \/ CrushTree \/ Vanish \/ DeleteFromDevice \/ WindowsRestructured

-----------------------------------------------------------------------------
(* Clients. *)
ClientUnchanged ==
  UNCHANGED <<device, hardware, pending, sprite>>

(* CloseDownClient: "keep" is a close-down mode other than DestroyAll.       *)
CloseDownClient(c, keep) ==
  /\ Request(c) /\ Change
  /\ todo' = <<ClientFrame("release", c), ClientFrame(IF keep THEN "retain" ELSE "gone", c)>>
  /\ UNCHANGED <<sync, playing, passive, mapped>>

(* ReleaseActiveGrabs goes round until a pass over the devices finds none.   *)
ReleaseActiveGrabs ==
  /\ Doing("release")
  /\ \/ \E d \in Devices :
          /\ GrabbedBy(sync, d, Now.c)
          /\ ComputeFreezes(Deactivated(sync, d), <<>>, todo)
     \/ /\ \A d \in Devices : ~GrabbedBy(sync, d, Now.c)
        /\ todo' = Rest
        /\ UNCHANGED <<sync, playing>>
  /\ UNCHANGED <<windows, holdings>>
  /\ ClientUnchanged

WithoutPassiveOf(c) ==
  [w \in Windows |-> [d \in Devices |->
     IF passive[w][d] # NoGrab /\ passive[w][d].client = c THEN NoGrab ELSE passive[w][d]]]

(* FreeClientNeverRetainResources, and the connection is closed. *)
RetainClient ==
  /\ Doing("retain")
  /\ passive' = WithoutPassiveOf(Now.c)
  /\ client' = [client EXCEPT ![Now.c] = "retained"]
  /\ todo' = Rest
  /\ UNCHANGED <<sync, playing, windows, changes>>
  /\ ClientUnchanged

ClientGone ==
  /\ Doing("gone")
  /\ client' = [client EXCEPT ![Now.c] = "gone"]
  /\ todo' = <<ClientFrame("free", Now.c)>> \o Rest
  /\ UNCHANGED <<sync, playing, passive, windows, changes>>
  /\ ClientUnchanged

(* CloseDownRetainedResources, or KillClient for a retained client. *)
CloseDownRetained(c) ==
  /\ Idle /\ client[c] = "retained"
  /\ client' = [client EXCEPT ![c] = "gone"]
  /\ todo' = <<ClientFrame("free", c)>>
  /\ UNCHANGED <<sync, playing, passive, windows, changes>>
  /\ ClientUnchanged

(* FreeClientResources frees what the client has left in the order of the    *)
(* resource hash table: any.                                                 *)
FreeClientResource ==
  /\ Doing("free")
  /\ \/ \E w \in exists, d \in Devices :
          /\ passive[w][d] # NoGrab /\ passive[w][d].client = Now.c
          /\ passive' = [passive EXCEPT ![w][d] = NoGrab]
          /\ UNCHANGED <<todo, mapped>>
     \/ \E w \in exists :
          /\ Owner[w] = Now.c
          /\ DeleteWindow(w, todo)
          /\ UNCHANGED passive
     \/ /\ \A w \in exists : Owner[w] # Now.c /\ passive = WithoutPassiveOf(Now.c)
        /\ todo' = Rest
        /\ UNCHANGED <<passive, mapped>>
  /\ UNCHANGED <<sync, playing, exists, client, changes>>
  /\ ClientUnchanged

ClientOps ==
  \/ \E c \in Clients : (\E keep \in BOOLEAN : CloseDownClient(c, keep)) \/ CloseDownRetained(c)
  \/ ReleaseActiveGrabs \/ RetainClient \/ ClientGone \/ FreeClientResource

Next == Input \/ Requests \/ WindowOps \/ ClientOps

Spec == Init /\ [][Next]_vars

(* A request or an event once begun is carried on: the server is a loop that *)
(* runs, and nothing in it waits.                                            *)
Continue == ~Idle /\ Next
FairSpec == Spec /\ WF_vars(Continue)

-----------------------------------------------------------------------------
(* Properties. *)

(* The variables keep their types.  What could go wrong is in the data the   *)
(* re-entered procedures hand on: THAWED_BOTH, "not a real state", is never  *)
(* stored, and a held event, a frame and a grab name what exists.            *)
TypeOK ==
  /\ sync \in [Devices -> Syncs]
  /\ activatingKey \in BOOLEAN
  /\ down \in [Devices -> BOOLEAN] /\ hwDown \in [Devices -> BOOLEAN]
  /\ pending \in Seq(Events)
  /\ playing \in BOOLEAN
  /\ todo \in Seq(Frames)
  /\ passive \in [Windows -> [Devices -> PassiveGrabs \cup {NoGrab}]]
  /\ exists \subseteq Windows
  /\ mapped \in [Windows -> BOOLEAN]
  /\ hot \in Windows /\ traceGood \in Windows
  /\ client \in [Clients -> {"running", "gone", "retained"}]
  /\ serial \in 0 .. MaxEvents
  /\ done \in [Devices -> 0 .. MaxEvents] /\ owed \in [Devices -> 0 .. MaxEvents]
  /\ keyLost \in BOOLEAN
  /\ changes \in 0 .. MaxChanges

(* The freezing of a device is always accounted for: it is frozen exactly by *)
(* its own grab's state or by the active grab of another device, and no      *)
(* state or pointer outlives the grab it belongs to, so that following       *)
(* sync.other or dev->grab never meets a null pointer.                       *)
FreezesAccounted ==
  \A d \in Devices :
    /\ sync[d].frozen <=> sync[d].other # None \/ sync[d].state \in FROZEN
    /\ sync[d].grab = NoGrab <=> sync[d].state = "NOT_GRABBED"
    /\ sync[d].fromPassive => sync[d].grab # NoGrab
    /\ sync[d].other # None => sync[d].other # d /\ sync[sync[d].other].grab # NoGrab

(* Whenever the server is not playing events, all those queued are of frozen *)
(* devices: no path that thaws a device leaves its events behind.            *)
NothingLeftBehind ==
  ~playing => \A i \in 1 .. Len(pending) : sync[pending[i].dev].frozen

(* The events of one device are processed in the order they came in.  Of     *)
(* keys that is so while none is taken for a repeated one, whose second half *)
(* comes back behind what came later: the driver repeats none, and no press  *)
(* or release was lost for want of memory ...                                *)
Orderly(d) == d = "kbd" => ~Autorepeat /\ ~keyLost
InOrder == [][\A d \in Devices : Orderly(d) => done'[d] >= done[d]]_vars
(* ... and when the server is idle, a device that is not frozen has          *)
(* processed all that was queued for it: freezing delays events, and loses   *)
(* none that EnqueueEvent had the memory to queue.                           *)
ThawedIsCurrent ==
  Idle => \A d \in Devices : ~sync[d].frozen /\ Orderly(d) => owed[d] = 0

(* No grab is ever left on a window that has been destroyed (its WindowPtr   *)
(* would dangle).                                                            *)
GrabWindowExists == \A d \in Devices : sync[d].grab # NoGrab => sync[d].grab.win \in exists

(* However the procedures re-enter each other, the work for one request or   *)
(* event comes to an end.                                                    *)
ComesToAnEnd == ~Idle ~> Idle

(* X11.protocol, "Connection Close": the grabs of a client are released.     *)
GoneClientHoldsNoGrab ==
  Idle => \A d \in Devices :
            sync[d].grab # NoGrab => client[sync[d].grab.client] = "running"
=============================================================================
