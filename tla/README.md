# A verification of the X server's core

TLA+ models, TLC runs and TLAPS proofs for parts of this repository, the "xc" tree of the
X Window System. Paths below are relative to `src/xc/programs/Xserver` unless they say more.

The tree is large: a device-independent server (`dix`, `os`), its drawing code (`mi`, `cfb`,
`mfb`), drivers (`hw`), extensions, libraries and clients. The core logic whose errors are hard
to find by testing is in the server's input path, in the loop that decides which client is
served and what is written to it, in extensions that block clients, and in the protocols between
processes. The models follow an event from the driver's signal handler to the grabs that decide
who gets it, a request from the connection it comes on to the turn in which it is executed, and
a reply from `WriteToClient` to the client; beside these stand the Sync extension and XDMCP, the
protocol that brings a display its session.

## Modules

| module | what it is |
| --- | --- |
| `OrderedDelivery` | abstract: accepted key and button events leave once and in order, delivered unless they are astray |
| `EventQueue` | `mi/mieq.c`, fed by `mi/mipointer.c`, interrupted by the driver's signal |
| `EventQueueProofs` | type correctness, stability of the head slot, refinement of `OrderedDelivery` |
| `Grabs`, `MCGrabs` | grabs, freezing and the queue of synchronous events in `dix/events.c`; client shutdown (`dix/dispatch.c`); unmapping and destruction of windows (`dix/window.c`) |
| `GrabsProofs` | type correctness, accounting of freezes, nothing left behind |
| `GrabsStackProofs` | no grab outlives its window; events in order; thawed devices up to date |
| `GrabTable` | abstract: one owner per key and set of modifiers, requests act on what they name |
| `PassiveGrabs`, `MCPassiveGrabs` | the list of passive grabs of a window, with detail masks (`dix/grabs.c`) |
| `PassiveGrabsProofs` | types, one owner, exactness of requests, refinement of `GrabTable` |
| `Dispatch`, `MCDispatch` | the main loop (`dix/dispatch.c`, `os/WaitFor.c`), the sets of connections (`os/connection.c`), buffered requests (`os/io.c`), sleeping clients (`dix/dixutils.c`, `Xext/sleepuntil.c`), server grabs, clients that come and go |
| `DispatchProofs` | types, who is listened to, what is told of buffers, nothing inherited, exclusive grabs |
| `OutputStream` | abstract: a client reads what was written to it, until its connection breaks |
| `ClientOutput`, `MCClientOutput` | the output buffers and what flushes them (`os/io.c`, `os/WaitFor.c`, `os/connection.c`) |
| `ClientOutputProofs` | types, bounds of buffers, tracking of kept output, refinement of `OutputStream` |
| `SyncValue` | 64-bit values as two words (`include/extensions/sync.h`), for words of any size |
| `Sync`, `MCSync` | `Xext/sync.c`: counters, triggers, Awaits, alarms, SERVERTIME |
| `SyncProofs` | comparisons and sums by words are exact; types; lists and pointers agree; no comparison that is TRUE waits; alarms advance to the first value ahead; the timer is set in time; no walk uses freed memory |
| `SessionLife` | abstract: a session is started at most once and ends the one before |
| `Xdmcp` | XDMCP: the display (`os/xdmcp.c`), the manager (`src/xc/programs/xdm`), the network between them |
| `XdmcpProofs` | types, refinement of `SessionLife` |

The `MC` modules give model values and bounds for TLC. Definitions called `Mutant...`, and the
alternatives that stand just before a definition of the model (`GiveUpLater`, `LinkOnly`, ...),
are not part of the specifications: each is a plausible bug, and `PROJECT.json` ("mutants") says
which property fails when it takes the definition's place.

## The system: inventory

* **Hardware event queue** (`mi/mieq.c`). State: a ring of 256 events, `head`, `tail`,
  `lastMotion`, `lastEventTime`, the screens of the two ends. `mieqEnqueue` runs in a signal
  handler, `mieqProcessInputEvents` in the main loop: no lock, one slot always free. Correct if
  keys and buttons come out once and in order, and a pointer position gets through.
* **Pointer** (`mi/mipointer.c`). Position, screen, motion history. Crosses screens in the
  signal handler, warps in the main loop.
* **Grabs and freezing** (`dix/events.c`). State: per device the active grab and its `sync`
  record (own state, the other grab that freezes it, a held event); the queue `syncEvents`; the
  trace of windows under the pointer. Requests, device events and the end of windows and clients
  call one another, in the middle of each other. Correct if a device is frozen only for a reason
  that will end, its events are delayed but neither lost nor reordered, and grabs end when their
  reason ends.
* **Passive grabs** (`dix/grabs.c`). A list per window of grabs for a key or any key, with
  modifiers or any modifiers, narrowed by masks and split by releases. Correct if at most one
  client has each combination and requests act on what they name.
* **Windows** (`dix/window.c`). A tree with mapped and realized flags, geometry, stacking.
  Interacts with grabs by `DeleteWindowFromAnyEvents` and `WindowsRestructured`.
* **Resources** (`dix/resource.c`). A hash table per client; deletion functions that call back
  into everything else, and can free other resources.
* **Dispatch and client life cycle** (`dix/dispatch.c`). Round robin over ready clients, server
  grabs, close-down modes, reset. Clients that sleep (`Xext/sleepuntil.c`, `dix/dixutils.c`) for
  a time or a font server (`dix/dixfonts.c`) take several turns of the loop for one request.
  Correct if the server listens to exactly those it may serve, and serves each of them.
* **Connections and I/O** (`os/WaitFor.c`, `os/connection.c`, `os/io.c`). Select sets, request
  and output buffers, timers. Hard: partial writes, clients that do not read, connections that
  break while their clients are not listened to, numbers used again. Correct if no request or
  output is forgotten, torn or given to another client.
* **XDMCP** (`os/xdmcp.c`, `src/xc/programs/xdm`). Two state machines over UDP with
  retransmission, a session that either side can lose. Correct if a session is started at most
  once and both sides come to agree.
* **Sync extension** (`Xext/sync.c`). Counters with lists of triggers, alarms, Awaits; 64-bit
  arithmetic with overflow, lists changed while they are walked. Correct if nobody waits for
  what is true, and alarms move exactly.
* **Focus, enter/leave, selections, properties, colormaps, access control, XKB, X Input, shared
  memory, double buffering**: state and notifications, each a candidate for a small module.
* **Rendering, fonts, PEX, XIE, drivers**: computation on data; not modelled.
* **Xlib, ICE, SM, Xt, xfs, smproxy, clients**: other processes and libraries.

`PROJECT.json` lists each with what is modelled, and under "hazards" the places where the code
is hard to test.

How the models meet: the server is one thread. `EventQueue` delivers to `processInputProc`,
where `Grabs` begins. `Grabs` keeps at most one passive grab per window and device;
`PassiveGrabs` has the whole list of one window. `Dispatch` decides when a request is executed
and leaves most requests abstract; `Sync` and `Grabs` take a request as one step.
`ClientOutput` sees of `Dispatch` only that clients leave and enter `AllClients`, that turns end,
and that connections come and go, each at any time.

## EventQueue

The C variables keep their names. One `mieqEnqueue` is one step, since the signal handler is not
interrupted (`mieq.c:82-87`); `mieqProcessInputEvents` is cut wherever the signal can come:
the loop test, the look at the head slot, the two halves of the struct copy `xe = e->event`, the
advance of `head`, the call of `processInputProc`. `pc` names the place. A warp by the main
thread blocks the signal, so it is one step too; it can come from a request (`pc = "main"`) or
from inside the processing of an event (a confining grab, `NewCurrentScreen`). Key and button
events are one type: neither the queue nor the screen logic tells them apart. Events carry a
serial number in place of contents. `seen` is a history variable: the last key that left the
queue and whether it was lost, and the last position handed over.

* `HeadIsStable`: while the consumer stands between its test and its removal, its slot stays
  live, and a key in it does not change.
* `DeliversInOrder`, `EventuallyOut`: the queue implements `OrderedDelivery`, safety and
  liveness. The refinement maps the live slots that hold keys, and the event in hand, to the set
  `waiting`, and those of them whose screen is not the one the queue will be on when their turn
  comes to `astray`. Each key leaves once and in order, in the end, and is handed over exactly if
  it is not astray then. The code does lose keys this way: those queued before a warp to another
  screen, and the first one behind a crossing whose motion was tossed by a full queue or
  compressed into a slot already looked at. The refinement says that these are all, and that a
  warp or a crossing sends astray one key at most: `Stray` changes one event's standing a step,
  since of the events queued before a warp only the first is found to be on another screen, and
  being taken for a switch it switches back.
* `PositionGetsThrough`: a pointer position that is queued, or a newer one, is handed over.

Fairness: weak fairness of `mieqProcessInputEvents`. `Dispatch` compares the two indices before
it waits and before each request (`dispatch.c:247`, `279`), and the procedure does not block.

Bounds: 3 slots, so that one or two events fill the ring and indices wrap within four events;
two screens; four events suffice for a key behind motion behind a key, an overflow and a
compression into the head; three clock values and a slop of 2. The server may stop when no more
events come, so deadlock is not checked.

Three things that comments in the code say do not hold, as runs of this model showed:
`lastEventTime` is assigned in `mieqInit` only, so that times can go backwards (`mieq.c:117`); a
key queued before a warp to another screen is taken for a screen switch and thrown away
(`mieq.c:158`), which `DeliversInOrder` allows for; motion compressed into a slot already copied is
lost (`mieq.c:173`), which `PositionGetsThrough` allows for.

## Grabs

Releasing a grab thaws a device, thawing plays the events queued while it was frozen, and these
can start and end other grabs in the middle of the procedure that released the first. The model
keeps the C stack in `todo`, a sequence of frames, innermost first. Each frame is what a
procedure has left to do after a call that can re-enter: `input` (a call of `processInputProc`),
`hold` (`CheckPassiveGrabsOnWindow` after `ActivateGrab`), `replay` and `play`
(`ComputeFreezes`), `unrealize`, `crush`, `delete`, `restructure`, `vanish` (`UnrealizeTree`,
`CrushTree`, `DeleteWindowFromAnyEvents`, `WindowsRestructured`, `FreeWindowResources`),
`release`, `gone`, `retain`, `free` (`CloseDownClient`). A request or a device event is taken up
only when `todo` is empty. `ComputeFreezes` pushes frames exactly where the code goes on, or
returns early if events are being played already.

`sync[d]` is `dev->grab`, `fromPassiveGrab` and `dev->sync`. `sync.other` is a pointer to the
`activeGrab` of another device, so the model names that device. `Activated`, `Deactivated`,
`Allowed`, `HeldAfterDelivery` and `Refrozen` are functions on these records; the actions apply
them and call `ComputeFreezes`.

What is abstracted:

* One key, not a modifier, and one button; two core devices. Passive grabs: at most one per
  window and device, modifiers ignored, and an owner does not replace its own.
* Windows form a chain from the root; the pointer's position and `spriteTrace` are depths in it.
  The focus is PointerRoot. Save-sets, focus reversion and reparenting are left out. A redirected
  map does nothing and is left out too.
* Request times are accepted (neither too early nor too late), grabs have no cursor and no
  confine-to window; `ChangeActivePointerGrab` changes only those and is left out.
* Whether a client selected an event is a free choice, so an implicit grab may or may not happen.
* A held event the state no longer speaks of is set to `NoEvent`.
* Whether a motion event behind a played event is compressed depends on where `pendtail` points:
  a free choice.
* Device events that `UpdateCurrentTime` processes inside a request are taken to come before it.
* A client asleep when it is closed, and `AsyncOthers` (only X Input can ask for it), are left
  out.

An event of a frozen device for which there is no memory is dropped (`EnqueueEvent`,
`events.c:584`), as in the code: `LostForWantOfMemory` can take any event that would be queued.
`owed` and `keyLost` are history variables: the last event queued for a device until that or a
newer one is processed, and whether an event of the keyboard has been lost.

Properties:

* `FreezesAccounted`: a device is frozen exactly when its own grab's state or an active grab of
  another device says so. No state, flag or pointer outlives its grab.
* `NothingLeftBehind`: when no events are being played, all queued ones are of frozen devices.
* `InOrder`, `ThawedIsCurrent`: a device's events are processed in order, and an idle server has
  processed all that was queued for a device that is not frozen. What there was no memory to queue
  is lost. Of the keyboard both are claimed while it is `Orderly`: its driver repeats no key and
  none of its events was lost. After a lost release the next press of the key is taken for a
  repeated one, with the consequences of `events.c:1945` below.
* `GrabWindowExists`: no grab is on a freed window, though playing events while a window is
  being destroyed can grab it anew.
* `ComesToAnEnd`: re-entrance ends.

Fairness for `ComesToAnEnd`: weak fairness of `Continue`, the server's next step while `todo` is
not empty. Nothing in these procedures waits. No client or device is assumed fair.

| run | instance | why it is enough |
| --- | --- | --- |
| `Freezing` | 2 clients (symmetric), root only, 3 events, 1 passive grab of a key (`MCKeysOnly`) | both devices grabbed by the same or different clients in each mode, all of AllowEvents; one event held and two queued, of both devices in each order, compression at the tail, events played one by one; motion lost for want of memory (`MCMotionLost`: not the first event nor two in a row; losses of keys and buttons, after which `Orderly` claims nothing of a keyboard, are left to the proof) |
| `Windows` | 1 client, root and a window, 1 event, 1 passive grab, 2 window or client operations | a grab released in each of the window and shutdown procedures with an event to play there |
| `KeyRepeat` | 1 client, 2 events, repeating keyboard, 1 operation | `processInputProc` re-entering itself, with a client closing down |
| `GoneClient` | 2 clients, 2 windows, 1 event (`MCOneGrab`) | the counterexample |

`MaxEvents`, `MaxPassive` and `MaxChanges` bound device events, passive grabs and operations on
windows and clients; grabs, releases and AllowEvents are not bounded. Deadlock is checked in
`Freezing`; in the other runs the last client can go and then nothing is left to happen.

`GoneClient` shows that a client can hold a grab after its end (`findings`). Three more
departures were found with this model and are kept as remarks: events played while a subtree is
unmapped can grab a window that is not viewable (`window.c:2762`); a replayed press activates a
passive grab without `activatingKey`, which its release then does not end (`events.c:672`); a
repeated key is processed in two calls, and when the first freezes the keyboard the second gets
in front of what is queued, so that the key stays down (`events.c:1945`).

## PassiveGrabs

`passiveGrabs` is the list of one window's passive grabs, its head first. A grab has a key (or
any key but those whose bits its mask excludes), modifiers likewise, a client, and `mode` for
what else it asks. `AddPassiveGrabToList`, `DeletePassiveGrabFromList`, `GrabSupersedesSecond`,
`GrabMatchesSecond` and the helpers on details are operators of the same names; the actions are
the requests `GrabKey` and `UngrabKey` and the deletion of a grab's resource with its client or
window. Each allocation of `DeletePassiveGrabFromList` may fail; what it had prepared is
then given back and the list stays as it was.

* `Exclusive`: no press finds grabs of two clients, whatever was narrowed and split before.
* `ActsOnWhatIsNamed`: a request gives or takes exactly the combinations it names, or none.

The list refines `GrabTable` (proved, not checked again by TLC). Bounds: two clients, two keys
and two sets of modifiers, all symmetric; lists of up to three grabs. Two values are what tells
"all but one" from "none" and from "one"; three grabs are a wildcard, one that is split off it
and one that another client asks for between. `MaxGrabs` bounds requests, not splits.

The protocol says that a grab overrides the client's earlier ones on the same combinations
(`X11.protocol:3480`). The piece of a split grab is pushed on the list's head (`grabs.c:427`) and
can so get in front of a newer one that had overridden it; it is then activated with its modes.
The owner is right, which is what the properties above say.

Left out: confine-to windows, several devices and kinds on one list, cursors.

## Dispatch

`server` has the data of `dix` and `os` that decide who is served: for each client its state,
connection number, close-down mode, what it waits for and whether its next request is a
repetition; how many complete requests its buffer has; the sets `AllClients`,
`ClientsWithInput`, their `Saved` twins, `IgnoredClientsWithInput`, `GrabImperviousClients`;
`GrabInProgress`, `grabState`, `grabClient`, `grabWaiters`; the work queue. `loop` is where the
main loop is and the list of clients to serve; `socket` what peers have done.

The thread is cut where peers act in between: `ProcessWorkQueue`, `UseBuffered`,
`FlushBeforeSelect`, `SelectFails` with `CheckConnections` (one closed connection a step, the
lowest number first), `Select` (with the block and wakeup handlers of `sleepuntil.c` and of the
font servers, which attend all clients whose time has come at once) are `WaitForSomething`. Its
list of ready clients is a set of pairs of connection number and client, from which `Pick` takes
the highest number; then it reads (`ReadSome`, `ReadPartOfRequest`, `ReadFails`) and executes
requests until its buffer is empty or it has to yield. A request is one of a number in the buffer
until it is executed; which one it is is chosen then: `ProcGrabServer`, `ProcUngrabServer`,
`ProcOpenFont` (suspended for a font server), `ProcXTestFakeInput` (with a delay),
`ProcXTestGrabControl`, `ProcChangeCloseDownMode`, `ProcKillClient` (and with AllTemporary
`CloseDownRetainedResources`), or `OtherRequest`, which may write to any client and so find its
connection broken.

* `Listened`: through sleeping, waking, grabs that begin and end, and clients that become
  impervious to them, the server listens to exactly the clients that may be served.
* `NoneForgotten`: a complete request in a buffer, which select cannot see, is told by exactly
  the set that is in force for its client.
* `NothingInherited`: once its client is closed, a connection's number is in none of the sets, but
  for `IgnoredClientsWithInput`. `CloseDownFileDescriptor` does not clear that one; for the next
  client of the number it is written (`IgnoreClient`) before it is read (`AttendClient`), which
  `NoneForgotten` checks.
* `GrabExclusive`: during a server grab no other client's request is executed, even if the
  client was found ready before the grab.
* `Served`: round robin. Each client that has sent a request and is not asleep is served in the
  end, provided that grabs of the server cease altogether from some time on. That every grab ends
  is not enough: the next one can begin before the client's turn comes.

From some states the code goes on with freed memory, or with sets that have lost a client. The
model names the state in `fate` and stops there, and the properties speak of sound states. Each is
reached by TLC, and is listed as a hazard: `IgnoredClientHeard` (`connection.c:964`: ungrabbing
the server listens to clients that fell asleep during the grab), `ClientNotSaved`
(`connection.c:1061`), `ConnectionNumberInUse` (`io.c:953`: a failed write gives the number back
before its client is closed), `ClientWithoutConnection` (`dispatch.c:262`: a retained client
killed while in the list of ready ones), `WorkForFreedClient` (`dixutils.c:566`: a client
signalled twice).

Fairness: the server goes on while it has something to do; that is weak fairness of `Server`
with its enabling condition written out (`CanStep`). Peers need not do anything. That a sleeper
is woken in the end is not assumed beyond this, and `Served` does not speak of sleepers.

Bounds: two clients, two connections, reads of one or two requests, one close-down mode besides
DestroyAll; `MCFew` allows one client at a time that is impervious or has that mode, and one
broken connection. Two of each are what it takes for one client to be ignored or barred while
another acts, and for a number to pass from one to the other; a buffer of two requests leaves
one behind when the client is put to sleep by the first. What needs three clients the run does
not see: several that wait for the server (`dispatch.c:1023`, a hazard for liveness). The
invariants are proved for any number of clients.

Left out: priorities, the handshake of a new connection and the closing of stragglers, the reset
of the server (a client without a part in the model stays connected), input buffers that clients
share, several font directories and the other suspended font requests, devices and timers in
select.

## ClientOutput

`os` has for each client the state of its connection (`open`; `closed` when a write has failed
and the client is not closed down yet; `none`), its output buffer as a sequence of bytes and the
buffer's size (0 when there is none), and `OutputPending`, `NewOutputPending`,
`CriticalOutputPending`, `ClientsWriteBlocked`, `AnyClientsWriteBlocked`, `AllClients`. `socket`
is what the kernel holds for each client, up to `SocketSize`; `dead` are the clients that have
gone without the server's knowing. `loop` says whether the server serves, waits in select, or is
in `FlushAllOutput`, whose rounds are steps of their own.

`FlushClient` is one operator with its cases: no buffer; the connection broken; everything
written; a part written, where `Kept` moves the rest to the front and `Blocked` grows the buffer,
or gives the connection up if it cannot. `WriteToClient` puts a message into the buffer, or
flushes buffer and message. `SelectFinds` and `CheckConnections` are the two outcomes of select;
`CloseDownConnection` flushes once more and forgets the client.

* `Fits`: no write, move or growth fills a buffer past its end.
* `Tracked`: what is kept is pending or waits for select, `AnyClientsWriteBlocked` is true to
  its set, and nothing of a closed connection is left for the next one with its number. What is
  pending is flushed when `NewOutputPending` says so, of which `Tracked` says nothing.
* `ReadsWhatWasWritten`: refinement of `OutputStream`. A client's stream is what the kernel has
  of it followed by its buffer.
* `Fed`: a client that has read all it was sent gets what is in its buffer. This has two
  premises, and TLC refutes it without either: output is flushed again and again as the server
  waits (a message that overflows its buffer clears `NewOutputPending` for everybody,
  `io.c:1107`, and their output then stays until there is new output), and connections do not
  break for ever just before select.

Fairness: weak fairness of `FlushAllOutput`'s rounds, which do not block; of select when it can
return; strong fairness of the end of a round of turns, since each turn has at most ten requests
and a client is read only when its buffer is empty.

Bounds: two clients, bytes that tell positions apart, messages of one and three bytes with a
protocol unit of two (so one is padded, and one is longer than a buffer of two), buffers of up
to five, a kernel that keeps two. A write can end in the buffer, in the message and in the
padding; a buffer can be moved, grown and refused. `MCFew` keeps the second client's stream
short and lets one client at a time be dead, closed or ignored.

`SelectRecovers` is a refutation (`findings`): a client whose output is blocked and whose
connection breaks while it is not listened to makes select fail, and `CheckConnections` does not
find it.

Left out: the free list of buffers and their shrinking, EMSGSIZE, the LBX variant, a failing
allocation on a connection that has failed already. The input side is in `Dispatch`, by number
of requests.

## Sync

`state` has the counters' values and trigger lists, the triggers (named by their alarm, or by
client and place in the client's Await), the bracket and timer of SERVERTIME; `now` is the clock.
A request or the wakeup handler is one step; the lists that `SyncChangeCounter` and
`FreeCounter` walk while triggers leave them are walked by folds in the code's order. Values are
two words of `2 * Half` values each, so that carries, borrows and overflows happen between small
numbers; `SyncValue` has the macros of `sync.h` one by one.

* `Registered`, `StaysSound`: each trigger is on the list of the counter it points to and on no
  other, none points to a freed counter, and no walk uses what was freed. Three cases are left out
  of `StaysSound`, all of which do go wrong: an alarm whose change was refused halfway; an
  Await with two conditions on one counter; and a client that goes while it is blocked on a
  counter of its own, if that is freed before its Await. In the last, `FreeCounter` fires the
  Await, and `AttendClient` (`sync.c:600`, `connection.c:1019`) looks at the client's connection,
  which `CloseDownConnection` (`connection.c:901`) has taken from it before its resources are freed.
  `gone` is the client whose resources are being freed, and the model stops with
  `fate = "undefined"`.
* `NothingTrueWaits`, `AlarmsRearmed`: no blocked client has a comparison that is true, no
  active alarm one that it has missed.
* `AlarmsAdvance`: a fired alarm is at the first of test + delta, test + 2 delta, ... that is
  false, in whole numbers, or inactive when the range ends.
* `NextTimeArmed`: the timer is set for no later than the first awaited time. Left out are an
  alarm that fires as it is created; a list that has a transition or a refused alarm's trigger on
  it, for which the brackets are computed otherwise; and the last value of all. The search for the
  next time starts from that value and takes only what is less, so no timer is ever set for it. A
  run whose Awaits have small times does not meet that case: the proof attempt did.
* `SumsAreExact`: `ChangeCounter` is refused exactly when the sum, in whole numbers, does not fit,
  and then the counter keeps its value; otherwise the counter has the sum, whatever fires on the
  way. An alarm relative to a counter is created only if its test value fits, and has that value.

Run `Sync`: words of two bits (`Half = 2`), two clients, one counter with SERVERTIME beside it,
one alarm, Awaits of two conditions and alarm requests chosen to tell the cases apart: each kind
of test between them, a relative value that can overflow, a negative and a zero delta, a refused
attribute.
`NotifiesAtThreshold` is a refutation: the subtraction borrows and flags overflow as if it were
an addition (`findings`). One more remark: a query of SERVERTIME after an awaited time and before
the wakeup handler stores the new value without checking triggers (`sync.c:253`), and the Await
can stay blocked for ever.

Left out: priorities, byte swapping, the selection of AlarmNotify, failing allocations, retained
clients' counters.

## Xdmcp

The display's statics keep their names (`state`, `SessionID`, `timeOutRtx`, `sessionSocket`); the
manager has its table of proto-displays by UDP port, its `struct display`, whether its list of
displays is sound, and the process of each session. Each packet type is handled by the procedure
that handles it in the code; timeouts are actions, timely when nothing is in flight that they
could race, and faults otherwise. Packets are lost, repeated and late as faults; so are power
cycles, crashes of the manager's host and the end of a session. `MaxFaults` bounds all of them
together, and then liveness is asked.

* `SessionsAsPromised`: refinement of `SessionLife` (checked, and proved for every bound).
* `Settles`: if the manager is up from some time on, display and manager come to agree on one
  session with an open connection, whatever the faults have left behind. Excepted is a manager
  that ran out of memory for the authorizations of a new display: it frees the display, which
  stays on the list (`src/xc/programs/xdm/xdmcp.c:971-978`, `dpylist.c:270`), and the next walk of
  the list uses it. `displays` says whether the list has such a display and whether it was walked;
  from then on the manager takes no step (`Serving`), as what it does is undefined.

Fairness: each process handles what has arrived, timers expire, dormancy ends, the user switches
the display on again after its server has exited, and children are reaped. The manager need not
come back; `Settles` has that it does, with a list of displays that is sound, as a premise.

Bounds: three faults, retransmission limits of 3 and 2 in place of 7 and 4 (long enough for
a late answer to a retransmission, and for giving up), and session, port and cookie numbers
large enough that three faults cannot exhaust them.

Left out: several displays, broadcast and indirect queries, choosers, XDM-AUTHORIZATION-1,
proto-displays that time out, failing sends, the display's port of `netaddr.c`, session numbers
that come again after a crash, and what the session does. A child that is told to terminate
exits at once.

## Runs

| run | expected | distinct states |
| --- | --- | --- |
| `EventQueue` | holds | 586 174 |
| `Freezing` | holds | 1 022 237 |
| `Windows` | holds | 815 107 |
| `KeyRepeat` | holds | 306 494 |
| `Xdmcp` | holds | 247 294 |
| `Sync` | holds | 66 680 |
| `PassiveGrabs` | holds | 16 078 |
| `Dispatch` | holds | 700 503 |
| `ClientOutput` | holds | 97 288 |
| `GoneClient` | violated | some 270 000 before the counterexample |
| `NotifiesAtThreshold` | violated | a few dozen |
| `SelectRecovers` | violated | a few hundred |

The passing runs with liveness properties are checked under the `FairSpec` of their module. The
runs with `CHECK_DEADLOCK FALSE` are those whose system may stop: no more events, no more faults
or sessions, no more time, all grabs asked for.

## Proofs

All theorems hold for every value of the constants allowed by the modules' assumptions.

* `EventQueueProofs!TypeCorrect`, `HeadStability`, `QueueRefinesDelivery`. The invariant is
  `QueueInv`: types, `HeadIsStable`, the slot before `tail` holds a motion event when `lastMotion`
  is set, keys stand in the ring in the order of their serials, and all are younger than what was
  delivered. `HeadIsStable` alone is not inductive: that a compressed slot holds no key needs
  `lastMotion`, and that the delivered key is the oldest needs the order. The ring's order is
  that of `Dist`, the distance from `head`; the lemmas on `NextSlot`, `PrevSlot` and `Live` carry
  the arithmetic of the wrap.
* `GrabsProofs!GrabsTypeCorrect`, `FreezesAreAccounted`, `NothingIsLeftBehind`. The invariant
  `CoreInv` joins `TypeOK`, `Coherent` (the sync records, apart from the frozen flags), `Flagged`
  (the flags are what `ComputeFreezes` makes of the records) and `NothingLeftBehind`. Each
  operator on the records preserves `Coherent`; `ComputeFreezes` turns `Coherent` into `Flagged`
  and keeps `NothingLeftBehind`, because it either plays or is called while events are played.
  One lemma per action puts these together. `HeldAfterDelivery` is the one operator that sets
  flags without `ComputeFreezes`.
* `GrabsStackProofs!NoGrabOutlivesItsWindow`. That playing events in the middle of the end of a
  window cannot leave a grab on it follows from what the frames of `todo` still promise.
  `WindowInv` says of each frame what it may rely on: a window to be crushed is cut off from the
  root (`Cut`), and the trace, once renewed, does not reach it; a window that is to vanish has no
  grab except one that a `delete` frame above will release. Since a press that is played looks
  for passive grabs and for clients only along the trace, it can put no new grab there. The
  trace is allowed to name windows that are not mapped only while a
  `restructure` frame waits to renew it. Most actions touch little of this: `StackKeeps`,
  `Pushes` and `StepKeeps` are the frame lemmas, and every action has to show only what it pushes
  and which grab it sets.
* `GrabsStackProofs!EventsStayInOrder`, `ThawedDevicesAreCurrent`, for any events lost for want of
  memory. Of each device that is `Orderly`, which a pointer always is, `OrderInv` numbers the
  events that have come in and are not yet processed: those queued, in the order of the queue, and
  the one in flight, which comes before the queued ones of its device if that is not frozen and
  after them if it is. The last is where `NothingLeftBehind` is needed, and playing the *first*
  playable event. Only an innermost frame is ever an event. That a press is never taken for a
  repeated one needs `Alternates`: the key's events, queued and in flight, go up and down in turn
  from what has been processed (`down`) to what the hardware knows (`hwDown`), which is so until
  an event is lost. Without `Orderly` TLC finds `InOrder` violated for a keyboard that repeats
  (four events and a grab by the client between), which is the hazard at `events.c:1945`, so the
  properties cannot do without it.
* `PassiveGrabsProofs!TypeCorrect`, `OneOwner`, `ActsExactly`, `ImplementsTable`. The invariant
  adds to the types that two grabs in the list that share a combination are of one client. Two
  lemmas say what `GrabMatchesSecond` means on sets of combinations: a press matches a grab
  exactly when the grab covers it (`PressMatches`), and a request matches whatever grab it shares
  a combination with (`RequestMatches`). The release is taken apart into what each grab loses, the
  pieces that are added and the grabs that are deleted, and each is shown to keep, for every
  combination, exactly the owner it had unless it is named.
* `ClientOutputProofs!TypeCorrect`, `BuffersFit`, `OutputTracked`, `ImplementsStream`. The
  invariant adds to the three properties that `FlushAllOutput`'s mask is empty outside it, that
  the kernel never holds more than `SocketSize`, and that a client without a buffer has nothing
  in it. The lemma that carries the refinement is `KeptIsRest`: of buffer, message and padding,
  `Kept` is exactly what was not written, wherever the write ended. `FlushClientDoes` and
  `WriteToClientDoes` state what the two operators do to one client's stream, buffer and sets;
  one lemma per action maps it to a step of `OutputStream` or a stutter.
* `SyncProofs!ComparisonsAreExact`, `AddIsExact`: the word-wise comparison orders values as
  their numbers are ordered, and the word-wise sum flags an overflow exactly when it does not
  fit, for every word size. `CountersAddExactly` is about the
  requests of `Sync` (`SumsAreExact`): the refusal of `ProcSyncChangeCounter` and `SyncInitTrigger`
  is that of the sum in whole numbers, and the walk over the counter's triggers leaves the new
  value alone. The subtraction has no such theorem: it is wrong (`NotifiesAtThreshold`).
* `SyncProofs!TypesHold`, `ListsAgree`, `NoWaitIsLost`, `AlarmsAreRearmed`, `ServerStaysSound`,
  `AlarmsAdvanceRight`, `TimerIsSetInTime`, for any number of clients, counters and alarms, any
  requests and words of any size. All but the last follow from `Sound`, which is inductive
  (`AlwaysSound`; TLC agrees on the instance of run `Sync`).
  Its `Core` has to hold at every step of every walk, so it speaks of any record of data `s` and
  not of `state`: the types (`States`); what is on a list is live and points to that counter, once,
  except on the list of the counter that is being freed (`Listed`); the counter of a trigger exists
  (`Points`); a trigger outside the refused alarms is on its counter's list and is checked by the
  function of its own test (`Kept`); the two conditions of an Await have different counters
  (`Apart`). Of a server that has stopped it keeps one of the three reasons that `StaysSound`
  excepts, among them a client that goes with an Await on a freed counter (`Stranded`), which the
  walk of `FreeCounter` must show to have come from the client's own end. `Quiet` holds between
  requests only: no comparison that waits is TRUE of its counter. The arguments that matter:
  - `SyncChangeCounter`'s walk (`WalkAt`). The list only loses elements while it is walked, and
    keeps its order (`InOrder`); what is still to come is still listed if it is live, and the
    element noted in `next` can have gone only if an Await has two conditions on one counter. When
    the walk ends, each trigger it has passed is quiet, and so all are.
  - `FreeCounter`'s walk (`DestroyWalk`): it reaches a trigger that was freed only in that same
    case.
  - An alarm's update (`UpdatesAlarm`) leaves its test FALSE unless a sum overflows, whatever the
    delta, unless the delta is 0 and the test is TRUE: then it would not end. A comparison with a
    delta of 0 goes off once instead (`OneShot`), and a transition is FALSE when the counter
    stands still; only an alarm whose change was refused, checked by the function of another test,
    loops.

  `AlarmsAdvanceRight` is an action property, from `Sound` and the same walk. Only the walk of
  `SyncChangeCounter` changes the value of a client's counter that was there and stays: every
  other operation keeps the values or destroys the counter (`ValuesStay`, from one lemma per
  helper about `Keeps`). Along the walk an alarm that is still to come is untouched, one that was
  passed has advanced (`MovedAt`), and what fires changes no alarm but itself (`FiringAlone`). An
  advance is right because the update loop stops at the first multiple of the delta whose test is
  FALSE (`RearmStops`), and that is the first of all of them, in whole numbers (`StopsAtFirst`).

  `TimerIsSetInTime` needs `Timed` beside `Sound`: the clock is not behind SERVERTIME (`OnTime`),
  and `NextTimeArmed` itself. That one is not kept between the steps of an operation, which may
  search for the brackets several times or not at all, so each helper is shown to be one that
  `Tells`: it either sets the timer by a search of the list as it is now (`InTime`), or leaves
  timer, list and awaited times as they were (`SameTimer`). `Tells` is transitive, so what folds
  and walks are made of tells, and so do they. A search that goes on from the brackets that are
  there (`SearchKeeps`) finds no time at or after them; but it can only lower the upper bracket
  and, with comparisons alone on the list, never removes the timer, so what was covered stays
  covered. The clock never runs backwards, so an operation adds no time to what is ahead but those
  of the triggers it registers, and a registration searches from the start (`SearchCovers`).
* `DispatchProofs!TypeCorrect`, `ListensToAllWhoMayBeServed`, `BufferedRequestsAreKnown`,
  `NewClientsStartAfresh`, `GrabsExclude`. The invariant is `DispatchInv`. Its heart is `Placed`:
  which of the sets a connected client's number is in, as a function of whether it is ignored,
  whether it is barred by a grab, and whether its buffer has requests. The properties leave open
  what the sets that are not in force say; `Placed` has to speak of those too, because they are
  put in force later: the Saved sets when a grab ends, the Ignored set when a client is
  attended. Around it stand: different clients have different numbers; each number in a set
  but the Ignored one has an owner (else the next owner would inherit it); `GrabGood`, that the two layers' ideas of the
  grab (`grabState`, `grabClient` in `dix`, `GrabInProgress` in `os`) agree and the Saved sets
  are empty outside a grab; and `LoopGood`, that whoever is in the list of clients to serve may
  be served, or is gone, or a grab has just begun that will kick the whole list out (`MayServe`).
  That last part is what `GrabExclusive` needs. The properties speak of sound states, and so does
  the invariant. Most steps change what one client is in and nothing else (`Local`, `LocalGood`);
  `Changed` is the general frame lemma. `ListenToAllClients`, `CloseDownClient`, `Fail` and
  `ClientAwaken` touch many clients and have lemmas of their own. A request's lemma shows it
  `Harmless` (the data stay good and whoever else was to be served still may) and that the client
  goes on only if it still may; `DoneKeeps` finishes its turn for all requests alike.
* `XdmcpProofs!TypeCorrect`, `SessionsKeepPromise`. The invariant `SessionInv` adds to the types
  that packets on the way name what their type calls for (an Accept a session that was numbered,
  a Manage likewise), and `NumbersInv`: the numbers in the table of proto-displays have been
  given out, differ from each other and have not been used, nothing is known of numbers not
  given out, and only the session of the `struct display` is alive. From these follows that a
  Manage, repeated or late, starts a session at most once and ends the one before, which are the
  steps of `SessionLife`.

Model-checked only: liveness
(`EventuallyOut`, `PositionGetsThrough`, `ComesToAnEnd`, `Settles`, `Served`, `Fed`), which
the prover does not treat.

## Not modelled

* Rendering, regions, colormap arithmetic, font formats, PEX, XIE, drivers, generated tables:
  computation on data, with little control to check; far the largest part of the tree.
* `src/xc/workInProgress` (LBX, Fresco, Record, the multi-threaded server) and
  `src/xc/unsupported`: by their own README not finished or not supported.
* Focus, enter and leave events, selections, properties, keyboard mapping, access control, XKB
  and X Input: not yet; the plan has the first two.
* Xlib, ICE, SM, Xt, xfs, smproxy: other processes, not yet.

The map covers a fraction of a percent of the tree's lines, because the tree holds a window
system with its libraries, clients and sample implementations; of `dix/dispatch.c`'s loop and
life cycle, `os/io.c`, `os/connection.c`, `os/WaitFor.c`, `mi/mieq.c`, `dix/grabs.c`,
`Xext/sync.c` and `os/xdmcp.c` it covers most of what keeps state.

## Plan

1. *Done*: hardware event queue; grabs and freezing; passive grabs; XDMCP; Sync; dispatch, server
   grabs and sleeping clients; output buffers; the theorems above.
2. *Done*: proofs about `Grabs` that speak of the frames of `todo`.
3. *Done*: proofs about `Sync`'s lists, walks and timer.
4. Input focus, enter and leave events (`dix/events.c`): the paths in the tree,
   focus reversion when windows go; composed with `Grabs`.
5. The resource table (`dix/resource.c`) with deletion functions that delete others; selections
   and their owners.
6. ICE and session management (`lib/ICE`, `lib/SM`): the handshakes of two peers over a reliable
   channel, with ping, protocol setup from both sides and shutdown negotiation.
