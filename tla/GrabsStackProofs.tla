-------------------------- MODULE GrabsStackProofs --------------------------
(***************************************************************************)
(* Proofs about Grabs that need to know the stack of procedures left to do: *)
(* no grab outlives its window, the events of a device are processed in    *)
(* the order they came in, and an idle server has processed all events of  *)
(* the devices that are not frozen.                                        *)
(***************************************************************************)
EXTENDS GrabsProofs

-----------------------------------------------------------------------------
(* Windows, passive grabs and the frames that end windows.                   *)

Shown(v) == v \in exists /\ mapped[v]

(* The window or one around it is not mapped: no trace reaches it.           *)
Cut(w) == \E v \in 2 .. w : ~Shown(v)

On(d, w) == sync[d].grab # NoGrab /\ sync[d].grab.win = w

(* A window is crushed after it has been cut off and the trace, once         *)
(* recomputed, does not reach it; it vanishes after the grabs on it have     *)
(* been deleted.                                                             *)
FrameGood(i) ==
  LET f == todo[i]
  IN  /\ f.op \in {"gone", "retain", "free"} => i = Len(todo) /\ f.c \in Clients
      /\ f.op \in {"crush", "vanish"} => f.w # 1 /\ Cut(f.w)
      /\ f.op = "crush" =>
           traceGood < f.w \/ \E j \in 1 .. i - 1 : todo[j].op = "restructure"
      /\ f.op = "vanish" =>
           /\ traceGood < f.w
           /\ \A d \in Devices : On(d, f.w) =>
                \E j \in 1 .. i - 1 : /\ todo[j].op = "delete"
                                      /\ todo[j].d = d /\ todo[j].w = f.w

StackGood == \A i \in 1 .. Len(todo) : FrameGood(i)

(* The trace has no freed window, and is of mapped windows but while it is   *)
(* about to be recomputed.                                                   *)
TraceExists == \A v \in 1 .. traceGood : v \in exists
TraceShown ==
  (\A v \in 2 .. traceGood : Shown(v)) \/ \E i \in 1 .. Len(todo) : todo[i].op = "restructure"

WindowInv ==
  /\ 1 \in exists /\ mapped[1]
  /\ \A w \in Windows, d \in Devices : passive[w][d] # NoGrab => w \in exists
  /\ TraceExists /\ TraceShown
  /\ GrabWindowExists
  /\ StackGood

-----------------------------------------------------------------------------
(* The order of events.                                                      *)

InFlight == todo # <<>> /\ Now.op = "input"

(* The events of a device that have come in and are not yet processed.       *)
Queued(d) == {pending[i] : i \in {j \in 1 .. Len(pending) : pending[j].dev = d}}
Flying(d) == IF InFlight /\ Now.e.dev = d THEN {Now.e} ELSE {}
Coming(d) == Queued(d) \cup Flying(d)

(* The events of a device are numbered in the order they come in; what is    *)
(* processed now comes before what is queued, unless its device is frozen.   *)
(* What is owed is queued, or has been played and is being processed.        *)
Numbered(d) ==
  /\ done[d] <= serial
  /\ \A e \in Coming(d) : done[d] < e.id /\ e.id <= serial
  /\ owed[d] # 0 =>
       \E e \in Coming(d) : e.id = owed[d] /\ (e \in Queued(d) \/ ~sync[d].frozen)

QueueOrdered(d) ==
  \A i, j \in 1 .. Len(pending) :
    i < j /\ pending[i].dev = d /\ pending[j].dev = d => pending[i].id < pending[j].id

FlightOrdered(d) ==
  \A e \in Flying(d), q \in Queued(d) : IF sync[d].frozen THEN q.id < e.id ELSE e.id < q.id

Ordered(d) == Numbered(d) /\ QueueOrdered(d) /\ FlightOrdered(d)

(* The key goes down and up in turn.                                         *)
Alternates(E, isDown, willBe) ==
  /\ E = {} => isDown = willBe
  /\ \A e \in E : (\A f \in E : e.id <= f.id) => (e.type = "press" <=> ~isDown)
  /\ \A e \in E : (\A f \in E : f.id <= e.id) => (e.type = "press" <=> willBe)
  /\ \A e, f \in E : e.id < f.id /\ (\A g \in E : g.id <= e.id \/ f.id <= g.id)
                       => (e.type = "press" <=> f.type # "press")
  /\ \A e, f \in E : e.id = f.id => e = f

(* Only the pointer moves.  An event waits on the stack below another frame  *)
(* only as the second half of a repeated key.                                *)
InputGood(f) == f.d = f.e.dev /\ (f.e.type = "motion" => f.d = "ptr")
Repeats == ~Orderly("kbd")

OrderInv ==
  /\ \A i \in 1 .. Len(pending) : pending[i].type = "motion" => pending[i].dev = "ptr"
  /\ \A i \in 1 .. Len(todo) : todo[i].op = "input" => InputGood(todo[i])
  /\ \A i \in 2 .. Len(todo) : todo[i].op = "input" => todo[i].d = "kbd" /\ Repeats
  /\ playing => \E i \in 1 .. Len(todo) : todo[i].op = "play"
  /\ \A d \in Devices : Orderly(d) => Ordered(d)
  /\ ~Repeats => Alternates(Coming("kbd"), down["kbd"], hwDown["kbd"])

-----------------------------------------------------------------------------
(* Traces.                                                                   *)

(* A trace ends before any window that is cut off, so that it is shown.      *)
LEMMA TraceBelow ==
  ASSUME NEW p \in Windows, NEW v \in Windows, v # 1, ~Shown(v)
  PROVE  TraceAt(p) < v
<1> DEFINE ns == {n \in 1 .. p : \A u \in 2 .. n : u \in exists /\ mapped[u]}
<1>1. v \in Nat /\ v >= 2 /\ p \in Nat
  BY GrabsAssumption DEF Windows
<1>2. ns \in SUBSET (1 .. (v - 1))
  <2> SUFFICES ASSUME NEW n \in 1 .. p, n > v - 1, \A u \in 2 .. n : u \in exists /\ mapped[u]
               PROVE  FALSE
    BY <1>1
  <2> QED BY <1>1 DEF Shown
<1>3. IsFiniteSet(1 .. (v - 1)) /\ Cardinality(1 .. (v - 1)) = v - 1
  BY <1>1, FS_Interval
<1> HIDE DEF ns
<1>4. Cardinality(ns) <= v - 1 /\ Cardinality(ns) \in Nat
  BY <1>2, <1>3, FS_Subset, FS_CardinalityType
<1> QED BY <1>1, <1>4 DEF TraceAt, ns

LEMMA TraceGood ==
  ASSUME NEW p \in Windows
  PROVE  /\ TraceAt(p) \in Windows
         /\ \A v \in 2 .. TraceAt(p) : Shown(v)
         /\ \A w \in Windows : Cut(w) => TraceAt(p) < w
<1>1. TraceAt(p) \in Windows
  BY TraceType
<1>2. \A v \in 2 .. TraceAt(p) : v \in Windows /\ v # 1
  BY <1>1, GrabsAssumption DEF Windows
<1>3. ASSUME NEW v \in 2 .. TraceAt(p) PROVE Shown(v)
  <2>1. ~Shown(v) => TraceAt(p) < v
    BY <1>2, TraceBelow
  <2> QED BY <1>1, <2>1, GrabsAssumption DEF Windows
<1>4. ASSUME NEW w \in Windows, Cut(w) PROVE TraceAt(p) < w
  <2>1. PICK v \in 2 .. w : ~Shown(v)
    BY <1>4 DEF Cut
  <2>2. v \in Windows /\ v # 1
    BY GrabsAssumption DEF Windows
  <2>3. TraceAt(p) < v
    BY <2>1, <2>2, TraceBelow
  <2> QED BY <1>1, <2>2, <2>3, GrabsAssumption DEF Windows
<1> QED BY <1>1, <1>3, <1>4

-----------------------------------------------------------------------------
(* Stacks.                                                                   *)

LEMMA ConcatAt ==
  ASSUME NEW s \in Seq(Frames), NEW t \in Seq(Frames)
  PROVE  /\ s \o t \in Seq(Frames) /\ Len(s \o t) = Len(s) + Len(t)
         /\ \A i \in 1 .. Len(s) : (s \o t)[i] = s[i]
         /\ \A i \in 1 .. Len(t) : (s \o t)[Len(s) + i] = t[i]
<1>1. /\ s \o t \in Seq(Frames) /\ Len(s \o t) = Len(s) + Len(t)
      /\ \A i \in 1 .. (Len(s) + Len(t)) : (s \o t)[i] = IF i <= Len(s) THEN s[i] ELSE t[i - Len(s)]
  BY ConcatProperties
<1>2. Len(s) \in Nat /\ Len(t) \in Nat
  BY LenProperties
<1> QED BY <1>1, <1>2

LEMMA RestAt ==
  ASSUME todo \in Seq(Frames), todo # <<>>
  PROVE  /\ Rest \in Seq(Frames) /\ Len(todo) \in Nat \ {0} /\ Len(Rest) = Len(todo) - 1
         /\ \A i \in 1 .. Len(Rest) : Rest[i] = todo[i + 1]
         /\ Now = todo[1] /\ Now \in Frames
BY HeadTailProperties, LenProperties, EmptySeq DEF Rest, Now

(* The frames that are only what they are: those that call for nothing.      *)
Easy == Ops \ {"gone", "retain", "free", "crush", "vanish"}
EasyFrames == {f \in Frames : f.op \in Easy}

LEMMA EasyType ==
  ASSUME NEW fs \in Seq(EasyFrames)
  PROVE  fs \in Seq(Frames) /\ \A i \in 1 .. Len(fs) : fs[i].op \in Easy
<1>1. \A i \in 1 .. Len(fs) : fs[i] \in EasyFrames
  BY ElementOfSeq
<1>2. fs \in [1 .. Len(fs) -> Frames] /\ Len(fs) \in Nat
  BY <1>1, LenProperties DEF EasyFrames
<1>3. fs \in Seq(Frames)
  BY <1>2, SeqDef
<1> QED BY <1>1, <1>3 DEF EasyFrames

(* What a step does to windows, trace and grabs keeps windows cut off, the   *)
(* trace short of them, and puts no grab on those that the trace has left.   *)
EnvKept ==
  /\ \A w \in Windows : Cut(w) => Cut(w)'
  /\ \A w \in Windows : Cut(w) /\ traceGood < w => traceGood' < w
  /\ \A d \in Devices, w \in Windows : Cut(w) /\ traceGood < w /\ On(d, w)' => On(d, w)

(* What a frame that is taken off the stack must have done.                  *)
Popped ==
  /\ Now.op = "restructure" => \A w \in Windows : Cut(w) => traceGood' < w
  /\ Now.op = "delete" =>
       ~(sync'[Now.d].grab # NoGrab /\ sync'[Now.d].grab.win = Now.w)

(* The frames that stay, below the new ones, stay good.                      *)
LEMMA StackKeeps ==
  ASSUME todo \in Seq(Frames), StackGood, NEW fs \in Seq(Frames), NEW R \in Seq(Frames),
         R = todo \/ (todo # <<>> /\ R = Rest /\ Popped),
         todo' = fs \o R, EnvKept
  PROVE  \A i \in Len(fs) + 1 .. Len(todo') : FrameGood(i)'
<1> DEFINE k == Len(todo) - Len(R)
           n == Len(fs)
<1>1. /\ k \in {0, 1} /\ \A j \in 1 .. Len(R) : R[j] = todo[j + k] /\ j + k \in 1 .. Len(todo)
      /\ Len(todo) \in Nat /\ Len(R) \in Nat /\ n \in Nat
      /\ k = 1 => Now = todo[1] /\ Popped
  BY RestAt, LenProperties
<1>2. Len(todo') = n + Len(R) /\ \A j \in 1 .. Len(R) : todo'[n + j] = R[j]
  BY ConcatAt
<1> SUFFICES ASSUME NEW i \in n + 1 .. Len(todo') PROVE FrameGood(i)'
  OBVIOUS
<1> DEFINE j == i - n
           h == j + k
<1>3. j \in 1 .. Len(R) /\ h \in 1 .. Len(todo) /\ todo'[i] = todo[h]
  BY <1>1, <1>2
<1>f. PICK f : f = todo[h]
  OBVIOUS
<1>4. FrameGood(h) /\ f \in Frames /\ f.w \in Windows
  <2>1. FrameGood(h)
    BY <1>3 DEF StackGood
  <2>2. f \in Frames
    BY <1>3, <1>f, ElementOfSeq
  <2> QED BY <2>1, <2>2 DEF Frames
(* A frame before the old place is before the new one, unless it was taken   *)
(* off.                                                                      *)
<1>5. ASSUME NEW m \in 1 .. h - 1
      PROVE  \/ k = 1 /\ m = 1
             \/ m - k + n \in 1 .. i - 1 /\ todo'[m - k + n] = todo[m]
  <2>1. CASE k = 1 /\ m = 1
    BY <2>1
  <2>2. CASE ~(k = 1 /\ m = 1)
    <3>1. m - k \in 1 .. Len(R) /\ m - k + n \in 1 .. i - 1 /\ (m - k) + k = m
      BY <1>1, <1>2, <1>3, <2>2
    <3>2. R[m - k] = todo[m] /\ todo'[n + (m - k)] = R[m - k]
      BY <1>1, <1>2, <3>1
    <3>3. n + (m - k) = m - k + n
      BY <1>1, <3>1
    <3> QED BY <3>1, <3>2, <3>3
  <2> QED BY <2>1, <2>2
<1> HIDE DEF h, j, k
<1>6. f.op \in {"gone", "retain", "free"} => i = Len(todo') /\ f.c \in Clients
  <2>1. h = Len(todo) => i = Len(todo')
    <3>1. Len(todo) \in Nat /\ Len(R) \in Nat /\ n \in Nat /\ Len(todo') = n + Len(R)
      BY <1>1, <1>2
    <3>2. i \in Int /\ h = (i - n) + (Len(todo) - Len(R))
      BY <3>1 DEF h, j, k
    <3>3. PICK l \in Int, r \in Int, m \in Int : l = Len(todo) /\ r = Len(R) /\ m = n
      BY <3>1
    <3>4. l = (i - m) + (l - r) => i = m + r
      BY <3>2
    <3> QED BY <3>1, <3>2, <3>3, <3>4
  <2> QED BY <1>4, <1>f, <2>1 DEF FrameGood
<1>7. f.op \in {"crush", "vanish"} => f.w # 1 /\ Cut(f.w) /\ Cut(f.w)'
  BY <1>4, <1>f DEF FrameGood, EnvKept
<1>8. ASSUME f.op = "crush"
      PROVE  traceGood' < f.w \/ \E m \in 1 .. i - 1 : todo'[m].op = "restructure"
  <2>1. CASE traceGood < f.w
    BY <1>4, <1>7, <1>8, <2>1 DEF EnvKept
  <2>2. ASSUME NEW m \in 1 .. h - 1, todo[m].op = "restructure"
        PROVE  traceGood' < f.w \/ \E l \in 1 .. i - 1 : todo'[l].op = "restructure"
    <3>1. CASE k = 1 /\ m = 1
      BY <1>1, <1>4, <1>7, <1>8, <2>2, <3>1 DEF Popped
    <3>2. CASE m - k + n \in 1 .. i - 1 /\ todo'[m - k + n] = todo[m]
      BY <2>2, <3>2
    <3> QED BY <1>5, <3>1, <3>2
  <2> QED BY <1>4, <1>8, <1>f, <2>1, <2>2 DEF FrameGood
<1>9. ASSUME f.op = "vanish"
      PROVE  /\ traceGood' < f.w
             /\ \A d \in Devices : On(d, f.w)' =>
                  \E m \in 1 .. i - 1 : /\ todo'[m].op = "delete"
                                        /\ todo'[m].d = d /\ todo'[m].w = f.w
  <2>1. traceGood < f.w /\ Cut(f.w)
    BY <1>4, <1>7, <1>9, <1>f DEF FrameGood
  <2>2. traceGood' < f.w
    BY <1>4, <2>1 DEF EnvKept
  <2>3. ASSUME NEW d \in Devices, On(d, f.w)'
        PROVE  \E m \in 1 .. i - 1 : /\ todo'[m].op = "delete"
                                     /\ todo'[m].d = d /\ todo'[m].w = f.w
    <3>1. On(d, f.w)
      BY <1>4, <2>1, <2>3 DEF EnvKept
    <3>2. PICK m \in 1 .. h - 1 : todo[m].op = "delete" /\ todo[m].d = d /\ todo[m].w = f.w
      BY <1>4, <1>9, <1>f, <3>1 DEF FrameGood
    <3>3. ~(k = 1 /\ m = 1)
      BY <1>1, <2>3, <3>2 DEF Popped, On
    <3> QED BY <1>5, <3>2, <3>3
  <2> QED BY <2>2, <2>3
<1>10. todo'[i] = f
  BY <1>3, <1>f
<1> QED BY <1>6, <1>7, <1>8, <1>9, <1>10 DEF FrameGood

-----------------------------------------------------------------------------
(* What a step pushes: frames of the set S on top of R, and one that plays   *)
(* the queued events if it says that they are being played.                  *)
Pushes(S, R) ==
  \E fs \in Seq(S) : /\ todo' = fs \o R
                     /\ playing' => playing \/ \E i \in 1 .. Len(fs) : fs[i].op = "play"

LEMMA PushesNothing ==
  ASSUME NEW S, NEW R \in Seq(Frames), todo' = R, UNCHANGED playing
  PROVE  Pushes(S, R)
<1>1. <<>> \in Seq(S) /\ <<>> \o R = R
  BY EmptySeq, ConcatEmptySeq
<1> QED BY <1>1 DEF Pushes

LEMMA PushesBelow ==
  ASSUME NEW S \in SUBSET Frames, NEW f \in S, NEW R \in Seq(Frames), Pushes(S, <<f>> \o R)
  PROVE  Pushes(S, R)
<1>1. PICK fs \in Seq(S) :
        /\ todo' = fs \o (<<f>> \o R)
        /\ playing' => playing \/ \E i \in 1 .. Len(fs) : fs[i].op = "play"
  BY DEF Pushes
<1>2. <<f>> \in Seq(S) /\ <<f>> \in Seq(Frames)
  BY SMT
<1>3. fs \in Seq(Frames)
  <2>1. \A i \in 1 .. Len(fs) : fs[i] \in Frames
    BY ElementOfSeq
  <2>2. fs \in [1 .. Len(fs) -> Frames] /\ Len(fs) \in Nat
    BY <2>1, LenProperties
  <2> QED BY <2>2, SeqDef
<1> DEFINE gs == fs \o <<f>>
<1>4. gs \in Seq(S) /\ Len(gs) = Len(fs) + 1 /\ \A i \in 1 .. Len(fs) : gs[i] = fs[i]
  <2>1. /\ gs \in Seq(S) /\ Len(gs) = Len(fs) + Len(<<f>>)
        /\ \A i \in 1 .. Len(fs) + Len(<<f>>) : gs[i] = IF i <= Len(fs) THEN fs[i] ELSE <<f>>[i - Len(fs)]
    BY <1>2, ConcatProperties
  <2>2. Len(<<f>>) = 1 /\ Len(fs) \in Nat
    BY LenProperties
  <2> QED BY <2>1, <2>2
<1>5. gs \o R = fs \o (<<f>> \o R)
  BY <1>2, <1>3, ConcatAssociative
<1>6. Len(fs) \in Nat
  BY LenProperties
<1> HIDE DEF gs
<1>7. playing' => playing \/ \E i \in 1 .. Len(gs) : gs[i].op = "play"
  <2>1. \A i \in 1 .. Len(fs) : i \in 1 .. Len(gs) /\ gs[i] = fs[i]
    BY <1>4, <1>6
  <2> QED BY <1>1, <2>1
<1>8. todo' = gs \o R
  BY <1>1, <1>5
<1> QED BY <1>4, <1>7, <1>8 DEF Pushes

(* ComputeFreezes pushes the frames it replays and the one that plays.       *)
LEMMA FreezesPush ==
  ASSUME NEW s, NEW S \in SUBSET Frames, PlayFrame \in S,
         NEW replay \in Seq(S), NEW R \in Seq(Frames), ComputeFreezes(s, replay, R)
  PROVE  Pushes(S, R)
<1>1. CASE todo' = R /\ UNCHANGED playing
  BY <1>1, PushesNothing
<1>2. CASE todo' = replay \o <<PlayFrame>> \o R
  <2> DEFINE fs == replay \o <<PlayFrame>>
  <2>1. <<PlayFrame>> \in Seq(S) /\ Len(<<PlayFrame>>) = 1 /\ <<PlayFrame>>[1] = PlayFrame
    OBVIOUS
  <2>2. /\ fs \in Seq(S) /\ Len(fs) = Len(replay) + 1 /\ Len(replay) \in Nat
        /\ fs[Len(replay) + 1] = PlayFrame
    BY <2>1, ConcatProperties, LenProperties
  <2>3. todo' = fs \o R
    BY <1>2
  <2> HIDE DEF fs
  <2>4. PlayFrame.op = "play"
    BY DEF PlayFrame, Frame
  <2>5. Len(fs) \in 1 .. Len(fs) /\ fs[Len(fs)].op = "play"
    BY <2>2, <2>4
  <2> QED BY <2>2, <2>3, <2>5 DEF Pushes
<1> QED BY <1>1, <1>2 DEF ComputeFreezes

-----------------------------------------------------------------------------
(* What the functions of sync records do to the grabs.                       *)
NoneNew(s, t) == \A o \in Devices : t[o].grab \in {NoGrab, s[o].grab}
GrabSet(s, t, d, g) == t[d].grab = g /\ \A o \in Devices \ {d} : t[o].grab = s[o].grab

LEMMA RefrozenGrab ==
  ASSUME NEW s \in SyncType, NEW o \in Devices
  PROVE  Refrozen(s)[o].grab = s[o].grab
BY DEF SyncType, Refrozen, Syncs

LEMMA ActivatedGrab ==
  ASSUME NEW s \in SyncType, NEW d \in Devices, NEW g \in ActiveGrabs,
         NEW thisSync \in BOOLEAN, NEW otherSync \in BOOLEAN, NEW passively \in BOOLEAN
  PROVE  GrabSet(s, Activated(s, d, g, thisSync, otherSync, passively), d, g)
<1> DEFINE t == [s EXCEPT ![d].grab = g, ![d].fromPassive = passively]
           a == CheckGrabForSyncs(t, d, thisSync, otherSync)
<1>1. /\ t[d].grab = g
      /\ DOMAIN t = Devices
      /\ \A o \in Devices : DOMAIN t[o] = {"grab", "fromPassive", "state", "other", "frozen", "event"}
      /\ \A o \in Devices \ {d} : t[o] = s[o]
  BY DEF SyncType, Syncs
<1> HIDE DEF t
<1>2. \A o \in Devices : a[o].grab = t[o].grab
  BY <1>1 DEF CheckGrabForSyncs
<1>3. a[d].grab = g /\ \A o \in Devices \ {d} : a[o].grab = s[o].grab
  BY <1>1, <1>2
<1> QED BY <1>3 DEF Activated, GrabSet, t

LEMMA DeactivatedGrab ==
  ASSUME NEW s \in SyncType, NEW d \in Devices
  PROVE  /\ NoneNew(s, Deactivated(s, d))
         /\ Deactivated(s, d)[d].grab = NoGrab
<1> DEFINE t == [s EXCEPT ![d].grab = NoGrab, ![d].state = "NOT_GRABBED", ![d].fromPassive = FALSE]
<1>1. /\ t[d].grab = NoGrab
      /\ \A o \in Devices : DOMAIN t[o] = {"grab", "fromPassive", "state", "other", "frozen", "event"}
      /\ \A o \in Devices \ {d} : t[o] = s[o]
  BY DEF SyncType, Syncs
<1> HIDE DEF t
<1>2. \A o \in Devices : Unlinked(t, d)[o].grab = t[o].grab
  BY <1>1 DEF Unlinked
<1> QED BY <1>1, <1>2 DEF Deactivated, NoneNew, t

LEMMA HeldGrab ==
  ASSUME NEW s \in SyncType, NEW d \in Devices, NEW e \in Events
  PROVE  NoneNew(s, HeldAfterDelivery(s, d, e))
<1> DEFINE h == [s EXCEPT ![d].state = "FROZEN_WITH_EVENT", ![d].frozen = TRUE, ![d].event = e]
<1>1. \A o \in Devices : h[o].grab = s[o].grab
  BY DEF SyncType, Syncs
<1>2. \A o \in Devices : /\ [s[o] EXCEPT !.state = "FROZEN_NO_EVENT", !.frozen = TRUE].grab = s[o].grab
                         /\ [s[o] EXCEPT !.other = d, !.frozen = TRUE].grab = s[o].grab
  BY DEF SyncType, Syncs
<1>3. CASE s[d].state = "FREEZE_BOTH_NEXT_EVENT"
  <2> HIDE DEF h
  <2>1. ASSUME NEW o \in Devices
        PROVE  HeldAfterDelivery(s, d, e)[o].grab = s[o].grab
    BY <1>1, <1>2, <1>3, <2>1 DEF HeldAfterDelivery, h
  <2> QED BY <2>1 DEF NoneNew
<1>4. CASE s[d].state = "FREEZE_NEXT_EVENT"
  <2>1. HeldAfterDelivery(s, d, e) = h
    BY <1>4 DEF HeldAfterDelivery
  <2> HIDE DEF h
  <2> QED BY <1>1, <2>1 DEF NoneNew
<1>5. CASE s[d].state \notin {"FREEZE_BOTH_NEXT_EVENT", "FREEZE_NEXT_EVENT"}
  BY <1>5 DEF HeldAfterDelivery, NoneNew
<1> QED BY <1>3, <1>4, <1>5

LEMMA AllowedGrab ==
  ASSUME CoreInv, NEW c \in Clients, NEW d \in Devices, NEW mode \in Modes
  PROVE  NoneNew(sync, Allowed(c, d, mode))
<1>0. sync \in SyncType
  BY CoreInvParts
<1>1. ASSUME NEW ds, NEW state
      PROVE  \A o \in Devices : Thawed(ds, c, state)[o].grab = sync[o].grab
  BY <1>0 DEF Thawed, SyncType, Syncs
<1>2. CASE mode = "Replay"
  <2>1. sync[d].state \in States
    BY <1>0 DEF SyncType, Syncs
  <2> DEFINE t == Thawed({d}, c, sync[d].state)
  <2>2. t \in SyncType
    BY <2>1, ThawedType, CoreInvParts
  <2>3. \A o \in Devices : t[o].grab = sync[o].grab
    BY <1>1
  <2>4. Allowed(c, d, mode) = Deactivated(t, d)
    BY <1>2, Zenon DEF Allowed
  <2> HIDE DEF t
  <2>5. NoneNew(t, Deactivated(t, d))
    BY <2>2, DeactivatedGrab
  <2> QED BY <2>3, <2>4, <2>5 DEF NoneNew
<1>3. CASE mode # "Replay"
  <2>1. \E ds, state : Allowed(c, d, mode) = Thawed(ds, c, state)
    BY <1>3 DEF Allowed
  <2> QED BY <1>1, <2>1 DEF NoneNew
<1> QED BY <1>2, <1>3

-----------------------------------------------------------------------------
(* A step that leaves the windows alone and pushes frames that call for      *)
(* nothing.                                                                  *)
TraceNew == \E p \in Windows : traceGood' = TraceAt(p)
GrabsWithin(W) ==
  \A d \in Devices : \/ sync'[d].grab \in {NoGrab, sync[d].grab}
                     \/ sync'[d].grab.win \in W
PassiveWithin ==
  \A w \in Windows, d \in Devices : passive'[w][d] # NoGrab => passive[w][d] # NoGrab

LEMMA TraceNewGood ==
  ASSUME TraceNew
  PROVE  /\ traceGood' \in Windows
         /\ \A v \in 2 .. traceGood' : Shown(v)
         /\ \A w \in Windows : Cut(w) => traceGood' < w
BY TraceGood DEF TraceNew

LEMMA StepKeeps ==
  ASSUME CoreInv, WindowInv, todo # <<>>, UNCHANGED windows, PassiveWithin,
         traceGood' = traceGood \/ TraceNew, GrabsWithin(1 .. traceGood'),
         NEW R \in Seq(Frames), Pushes(EasyFrames, R),
         \/ R = todo
         \/ /\ R = Rest
            /\ Now.op = "restructure" => TraceNew
            /\ Now.op = "delete" =>
                 ~(sync'[Now.d].grab # NoGrab /\ sync'[Now.d].grab.win = Now.w)
  PROVE  WindowInv'
<1>1. PICK fs \in Seq(EasyFrames) : todo' = fs \o R
  BY DEF Pushes
<1>2. fs \in Seq(Frames) /\ \A i \in 1 .. Len(fs) : fs[i].op \in Easy
  BY EasyType
<1>3. todo \in Seq(Frames) /\ traceGood \in Windows /\ exists \subseteq Windows
  BY CoreInvParts DEF OthersType
<1>4. exists' = exists /\ mapped' = mapped
  BY DEF windows
<1>5. \A w : Cut(w)' <=> Cut(w)
  BY <1>4 DEF Cut, Shown
<1>6. /\ traceGood' \in Windows
      /\ TraceNew => /\ \A v \in 2 .. traceGood' : Shown(v)
                     /\ \A w \in Windows : Cut(w) => traceGood' < w
  BY <1>3, TraceNewGood
<1>7. EnvKept
  <2>1. \A w \in Windows : Cut(w) /\ traceGood < w => traceGood' < w
    BY <1>6
  <2>2. ASSUME NEW d \in Devices, NEW w \in Windows, Cut(w), traceGood < w, On(d, w)'
        PROVE  On(d, w)
    <3>1. w \notin 1 .. traceGood'
      BY <1>6, <2>1, <2>2, GrabsAssumption DEF Windows
    <3> QED BY <2>2, <3>1 DEF On, GrabsWithin
  <2> QED BY <1>5, <2>1, <2>2 DEF EnvKept
<1>8. R = todo \/ (todo # <<>> /\ R = Rest /\ Popped)
  BY <1>6 DEF Popped
<1>9. \A i \in Len(fs) + 1 .. Len(todo') : FrameGood(i)'
  BY <1>1, <1>2, <1>3, <1>7, <1>8, StackKeeps DEF WindowInv
<1>10. Len(fs) \in Nat /\ Len(R) \in Nat
  BY LenProperties
<1>11. /\ Len(todo') = Len(fs) + Len(R)
       /\ \A i \in 1 .. Len(fs) : todo'[i] = fs[i]
       /\ \A i \in 1 .. Len(R) : todo'[Len(fs) + i] = R[i]
  BY <1>1, <1>2, ConcatAt
<1>12. StackGood'
  <2>1. ASSUME NEW i \in 1 .. Len(fs) PROVE FrameGood(i)'
    <3>1. todo'[i].op \in Easy
      BY <1>2, <1>11
    <3> QED BY <3>1 DEF FrameGood, Easy
  <2>2. \A i \in 1 .. Len(todo') : i \in 1 .. Len(fs) \/ i \in Len(fs) + 1 .. Len(todo')
    BY <1>10, <1>11
  <2> QED BY <1>9, <2>1, <2>2 DEF StackGood
<1>13. TraceExists'
  <2>1. CASE traceGood' = traceGood
    BY <1>4, <2>1 DEF WindowInv, TraceExists
  <2>2. CASE TraceNew
    <3>1. \A v \in 1 .. traceGood' : v = 1 \/ v \in 2 .. traceGood'
      BY <1>6, GrabsAssumption DEF Windows
    <3>2. 1 \in exists
      BY DEF WindowInv
    <3>3. \A v \in 2 .. traceGood' : v \in exists
      BY <1>6, <2>2 DEF Shown
    <3> QED BY <1>4, <3>1, <3>2, <3>3 DEF TraceExists
  <2> QED BY <2>1, <2>2
<1>14. TraceShown'
  <2>1. CASE TraceNew
    BY <1>4, <1>6, <2>1 DEF TraceShown, Shown
  <2>2. CASE traceGood' = traceGood /\ ~TraceNew
    <3>1. CASE \A v \in 2 .. traceGood : Shown(v)
      BY <1>4, <2>2, <3>1 DEF TraceShown, Shown
    <3>2. ASSUME NEW i \in 1 .. Len(todo), todo[i].op = "restructure" PROVE TraceShown'
      <4>1. \E j \in 1 .. Len(R) : R[j] = todo[i]
        <5>1. CASE R = todo
          BY <5>1
        <5>2. CASE R = Rest /\ Now.op # "restructure"
          <6>1. Len(todo) \in Nat /\ Len(R) = Len(todo) - 1 /\ \A j \in 1 .. Len(R) : R[j] = todo[j + 1]
            BY <1>3, <5>2, RestAt
          <6>2. i # 1
            BY <1>3, <3>2, <5>2, RestAt
          <6>3. i - 1 \in 1 .. Len(R) /\ (i - 1) + 1 = i
            BY <6>1, <6>2
          <6> QED BY <6>1, <6>3
        <5> QED BY <2>2, <5>1, <5>2
      <4>2. PICK j \in 1 .. Len(R) : R[j] = todo[i]
        BY <4>1
      <4>3. Len(fs) + j \in 1 .. Len(todo') /\ todo'[Len(fs) + j].op = "restructure"
        BY <1>10, <1>11, <3>2, <4>2
      <4> QED BY <4>3 DEF TraceShown
    <3> QED BY <3>1, <3>2 DEF WindowInv, TraceShown
  <2> QED BY <2>1, <2>2
<1>15. GrabWindowExists'
  <2> SUFFICES ASSUME NEW d \in Devices, sync'[d].grab # NoGrab
               PROVE  sync'[d].grab.win \in exists'
    BY DEF GrabWindowExists
  <2>1. CASE sync'[d].grab = sync[d].grab
    BY <1>4, <2>1 DEF WindowInv, GrabWindowExists
  <2>2. CASE sync'[d].grab.win \in 1 .. traceGood'
    BY <1>13, <2>2 DEF TraceExists
  <2> QED BY <2>1, <2>2 DEF GrabsWithin
<1> QED BY <1>4, <1>12, <1>13, <1>14, <1>15 DEF WindowInv, PassiveWithin

-----------------------------------------------------------------------------
(* No grab outlives its window: the device events.                           *)
LEMMA EasyFrameType ==
  ASSUME NEW op \in Easy, NEW e \in Events, NEW d \in Devices, NEW w \in Windows,
         NEW live \in BOOLEAN
  PROVE  /\ Frame(op, e, d, w, None, live) \in EasyFrames
         /\ WindowFrame(op, d, w) \in EasyFrames
<1>1. op \in Ops
  BY DEF Easy
<1>2. Frame(op, e, d, w, None, live) \in Frames /\ WindowFrame(op, d, w) \in Frames
  BY <1>1, FrameType, WindowFrameType
<1> QED BY <1>2 DEF EasyFrames, Frame, WindowFrame

LEMMA EasySubset == EasyFrames \in SUBSET Frames /\ PlayFrame \in EasyFrames
<1>1. "play" \in Easy
  BY DEF Easy, Ops
<1> QED BY <1>1, EasyFrameType, NoEventType DEF EasyFrames, PlayFrame, Devices

(* A device event, and all it does, leaves the windows and the passive grabs *)
(* alone.                                                                    *)
Undisturbed ==
  /\ todo # <<>> /\ Now.op \notin {"restructure", "delete"}
  /\ UNCHANGED <<windows, passive>>
  /\ traceGood' = traceGood \/ TraceNew

LEMMA UndisturbedKeeps ==
  ASSUME CoreInv, WindowInv, Undisturbed, GrabsWithin(1 .. traceGood'),
         Pushes(EasyFrames, Rest)
  PROVE  WindowInv'
<1>1. Rest \in Seq(Frames)
  BY NowType, CoreInvParts DEF Undisturbed
<1>2. PassiveWithin
  BY DEF Undisturbed, PassiveWithin
<1> QED BY <1>1, <1>2, StepKeeps DEF Undisturbed

LEMMA UndisturbedTrace ==
  ASSUME CoreInv, Undisturbed
  PROVE  /\ traceGood' \in Windows /\ Rest \in Seq(Frames)
         /\ \A w \in 1 .. traceGood' : w \in Windows
<1>1. Rest \in Seq(Frames) /\ traceGood \in Windows
  BY NowType, CoreInvParts DEF Undisturbed, OthersType
<1>2. traceGood' \in Windows
  BY <1>1, TraceNewGood DEF Undisturbed
<1> QED BY <1>1, <1>2, GrabsAssumption DEF Windows

LEMMA PopKeeps ==
  ASSUME CoreInv, WindowInv, Undisturbed, todo' = Rest, UNCHANGED playing,
         NoneNew(sync, sync')
  PROVE  WindowInv'
<1>1. Pushes(EasyFrames, Rest)
  BY PushesNothing, UndisturbedTrace
<1>2. GrabsWithin(1 .. traceGood')
  BY DEF NoneNew, GrabsWithin
<1> QED BY <1>1, <1>2, UndisturbedKeeps

LEMMA ActivatePassiveKeeps ==
  ASSUME CoreInv, WindowInv, Undisturbed, NEW d \in Devices, NEW e \in Events,
         NEW w \in 1 .. traceGood', NEW live \in BOOLEAN, passive[w][d] # NoGrab,
         ActivatePassive(d, e, w, live)
  PROVE  WindowInv'
<1> DEFINE p == passive[w][d]
           g == [client |-> p.client, win |-> w]
           s == Activated(sync, d, g, p.this, p.other, TRUE)
           f == Frame("hold", e, d, w, None, live)
<1>1. w \in Windows /\ Rest \in Seq(Frames)
  BY UndisturbedTrace
<1>2. p.client \in Clients /\ p.this \in BOOLEAN /\ p.other \in BOOLEAN
  BY <1>1, CoreInvParts, PassiveType
<1>3. g \in ActiveGrabs /\ g # NoGrab
  BY <1>1, <1>2, ActiveGrabType
<1>4. s \in SyncType /\ GrabSet(sync, s, d, g)
  <2>1. sync \in SyncType
    BY CoreInvParts
  <2>2. s \in SyncType
    BY <1>2, <1>3, <2>1, ActivatedType
  <2> HIDE DEF g, p
  <2>3. GrabSet(sync, s, d, g)
    BY <1>2, <1>3, <2>1, ActivatedGrab
  <2> QED BY <2>2, <2>3
<1>5. f \in EasyFrames
  BY <1>1, EasyFrameType DEF Easy, Ops
<1>6. ComputeFreezes(s, <<>>, <<f>> \o Rest)
  BY DEF ActivatePassive
<1>7. g.win = w
  OBVIOUS
<1> HIDE DEF s, f, g
<1>8. <<f>> \o Rest \in Seq(Frames) /\ <<>> \in Seq(EasyFrames)
  BY <1>1, <1>5, EasySubset, PushType, EmptySeq
<1>9. Pushes(EasyFrames, Rest)
  BY <1>1, <1>5, <1>6, <1>8, EasySubset, FreezesPush, PushesBelow
<1>10. \A o \in Devices : sync'[o].grab = IF o = d THEN g ELSE sync[o].grab
  BY <1>4, <1>6, RefrozenGrab DEF ComputeFreezes, GrabSet
<1>11. GrabsWithin(1 .. traceGood')
  BY <1>7, <1>10 DEF GrabsWithin
<1> QED BY <1>9, <1>11, UndisturbedKeeps

LEMMA ReleaseKeeps ==
  ASSUME CoreInv, NEW d \in Devices, NEW R \in Seq(Frames),
         ComputeFreezes(Deactivated(sync, d), <<>>, R)
  PROVE  /\ Pushes(EasyFrames, R)
         /\ NoneNew(sync, sync') /\ sync'[d].grab = NoGrab
<1>1. Deactivated(sync, d) \in SyncType
  BY DeactivatedType, CoreInvParts
<1>2. NoneNew(sync, Deactivated(sync, d)) /\ Deactivated(sync, d)[d].grab = NoGrab
  BY DeactivatedGrab, CoreInvParts
<1>3. \A o \in Devices : sync'[o].grab = Deactivated(sync, d)[o].grab
  BY <1>1, RefrozenGrab DEF ComputeFreezes
<1>4. Pushes(EasyFrames, R)
  BY FreezesPush, EasySubset, EmptySeq
<1> QED BY <1>2, <1>3, <1>4 DEF NoneNew

LEMMA DeliverUngrabbedKeeps ==
  ASSUME CoreInv, WindowInv, Undisturbed, NEW e, DeliverUngrabbed(e, traceGood')
  PROVE  WindowInv'
<1>1. CASE UNCHANGED <<sync, playing>> /\ todo' = Rest
  BY <1>1, PopKeeps DEF NoneNew
<1>2. ASSUME NEW c \in Clients, NEW w \in 1 .. traceGood',
             ComputeFreezes(Activated(sync, "ptr", [client |-> c, win |-> w], FALSE, FALSE, TRUE),
                            <<>>, Rest)
      PROVE  WindowInv'
  <2> DEFINE g == [client |-> c, win |-> w]
             s == Activated(sync, "ptr", g, FALSE, FALSE, TRUE)
  <2>1. w \in Windows /\ Rest \in Seq(Frames)
    BY UndisturbedTrace
  <2>2. s \in SyncType /\ GrabSet(sync, s, "ptr", g)
    <3>1. sync \in SyncType /\ "ptr" \in Devices /\ g \in ActiveGrabs /\ g # NoGrab
      BY <2>1, ActiveGrabType, CoreInvParts DEF Devices
    <3>2. s \in SyncType
      BY <3>1, ActivatedType
    <3> HIDE DEF g
    <3>3. GrabSet(sync, s, "ptr", g)
      BY <3>1, ActivatedGrab
    <3> QED BY <3>2, <3>3
  <2>3. ComputeFreezes(s, <<>>, Rest) /\ g.win = w
    BY <1>2
  <2> HIDE DEF s, g
  <2>4. \A o \in Devices : sync'[o].grab = IF o = "ptr" THEN g ELSE sync[o].grab
    BY <2>2, <2>3, RefrozenGrab DEF ComputeFreezes, GrabSet
  <2>5. GrabsWithin(1 .. traceGood')
    BY <2>3, <2>4 DEF GrabsWithin
  <2>6. Pushes(EasyFrames, Rest)
    BY <2>1, <2>3, FreezesPush, EasySubset, EmptySeq
  <2> QED BY <2>5, <2>6, UndisturbedKeeps
<1> QED BY <1>1, <1>2 DEF DeliverUngrabbed

LEMMA DeliverGrabbedKeeps ==
  ASSUME CoreInv, WindowInv, Undisturbed, NEW d \in Devices, NEW e \in Events,
         DeliverGrabbed(d, e)
  PROVE  WindowInv'
<1>1. NoneNew(sync, HeldAfterDelivery(sync, d, e))
  BY HeldGrab, CoreInvParts
<1>2. NoneNew(sync, sync') /\ todo' = Rest /\ UNCHANGED playing
  BY <1>1 DEF DeliverGrabbed, NoneNew
<1> QED BY <1>2, PopKeeps

(* A stack begun by an idle server.                                          *)
LEMMA IdleKeeps ==
  ASSUME CoreInv, WindowInv, todo = <<>>, UNCHANGED <<windows, traceGood>>,
         \A w \in Windows, d \in Devices : passive'[w][d] # NoGrab => w \in exists,
         GrabsWithin(exists), StackGood'
  PROVE  WindowInv'
<1>1. exists' = exists /\ mapped' = mapped /\ Len(todo) = 0
  BY EmptySeq DEF windows
<1>2. \A v \in 2 .. traceGood : Shown(v)
  BY <1>1 DEF WindowInv, TraceShown
<1>3. TraceShown' /\ TraceExists'
  BY <1>1, <1>2 DEF WindowInv, TraceShown, TraceExists, Shown
<1>4. GrabWindowExists'
  <2>1. ASSUME NEW d \in Devices, sync'[d].grab # NoGrab
        PROVE  sync'[d].grab.win \in exists
    BY <2>1 DEF WindowInv, GrabWindowExists, GrabsWithin
  <2> QED BY <1>1, <2>1 DEF GrabWindowExists
<1> QED BY <1>1, <1>3, <1>4 DEF WindowInv

LEMMA EasyStackGood ==
  ASSUME \E fs \in Seq(EasyFrames) : todo' = fs
  PROVE  StackGood'
<1>1. \A i \in 1 .. Len(todo') : todo'[i].op \in Easy
  BY EasyType
<1> QED BY <1>1 DEF StackGood, FrameGood, Easy

LEMMA InputKeeps ==
  ASSUME CoreInv, WindowInv, Input
  PROVE  WindowInv'
<1>1. todo \in Seq(Frames) /\ traceGood \in Windows /\ hot \in Windows
  BY CoreInvParts DEF OthersType
<1>2. \A f \in EasyFrames : <<f>> \in Seq(EasyFrames)
  OBVIOUS
<1>3. ASSUME NEW d \in Devices, NEW type \in EventTypes, NEW at \in Windows,
             DeviceEvent(d, type, at)
      PROVE  WindowInv'
  <2> DEFINE e == [dev |-> d, type |-> type, id |-> serial', at |-> at]
  <2>1. serial' \in 0 .. MaxEvents
    BY <1>3, CoreInvParts, GrabsAssumption DEF DeviceEvent, OthersType
  <2>2. e \in Events /\ e.dev = d
    BY <2>1 DEF Events
  <2>3. InputFrame(e) \in EasyFrames
    BY <2>2, EasyFrameType, NoEventType DEF InputFrame, Easy, Ops
  <2>4. StackGood'
    BY <1>2, <1>3, <2>3, EasyStackGood DEF DeviceEvent
  <2>5. \A w \in Windows, o \in Devices : passive'[w][o] # NoGrab => w \in exists
    BY <1>3 DEF DeviceEvent, WindowInv, holdings
  <2>6. GrabsWithin(exists)
    BY <1>3 DEF DeviceEvent, GrabsWithin
  <2> QED BY <1>3, <2>4, <2>5, <2>6, IdleKeeps DEF DeviceEvent, Idle, sprite
<1>4. ASSUME EnqueueEvent PROVE WindowInv'
  <2>1. Undisturbed
    BY <1>4 DEF EnqueueEvent, Doing, Undisturbed, Now, sprite, holdings
  <2> QED BY <1>4, <2>1, PopKeeps DEF EnqueueEvent, NoneNew
<1>5. ASSUME ProcessMotion PROVE WindowInv'
  <2>1. Now.e.at \in Windows
    BY <1>1, <1>5, NowType DEF ProcessMotion, Process, Doing, Events
  <2>2. Undisturbed
    BY <1>5, <2>1 DEF ProcessMotion, Process, Doing, Undisturbed, TraceNew, Now, holdings
  <2> QED BY <1>5, <2>2, PopKeeps DEF ProcessMotion, NoneNew
<1>6. ASSUME ProcessRepeat PROVE WindowInv'
  <2>1. Undisturbed
    BY <1>6 DEF ProcessRepeat, Process, Doing, Undisturbed, Now, sprite, holdings
  <2>2. Now.e \in Events /\ [Now.e EXCEPT !.type = "release"] \in Events
    BY <1>1, <1>6, NowType DEF ProcessRepeat, Process, Doing, Events, EventTypes
  <2>3. \A e \in Events : InputFrame(e) \in EasyFrames
    BY EasyFrameType, NoEventType DEF InputFrame, Easy, Ops, Events
  <2>4. <<InputFrame([Now.e EXCEPT !.type = "release"]), InputFrame(Now.e)>> \in Seq(EasyFrames)
    BY <2>2, <2>3
  <2>5. Pushes(EasyFrames, Rest)
    BY <1>6, <2>4 DEF ProcessRepeat, Pushes
  <2>6. GrabsWithin(1 .. traceGood')
    BY <1>6 DEF ProcessRepeat, GrabsWithin
  <2> QED BY <2>1, <2>5, <2>6, UndisturbedKeeps
<1>7. ASSUME ProcessPress PROVE WindowInv'
  <2> DEFINE d == Now.d
             e == [Now.e EXCEPT !.at = hot]
             ws == Triggers(d, 1, traceGood)
  <2>1. Undisturbed /\ traceGood' = traceGood
    BY <1>7 DEF ProcessPress, Process, Doing, Undisturbed, Now, sprite, holdings
  <2>2. d \in Devices /\ e \in Events
    BY <1>7, ProcessKeyOrButton DEF ProcessPress
  <2>3. ws \subseteq {w \in 1 .. traceGood' : passive[w][d] # NoGrab}
    BY <2>1 DEF Triggers
  <2>4. \/ \E w \in Windows : First(w, ws) /\ ActivatePassive(d, e, w, TRUE)
        \/ DeliverUngrabbed(e, traceGood')
        \/ DeliverGrabbed(d, e)
    BY <1>7, <2>1 DEF ProcessPress
  <2> HIDE DEF d, e, ws
  <2>5. ASSUME NEW w \in Windows, First(w, ws), ActivatePassive(d, e, w, TRUE)
        PROVE  WindowInv'
    <3>1. w \in 1 .. traceGood' /\ passive[w][d] # NoGrab
      BY <2>3, <2>5 DEF First
    <3> QED BY <2>1, <2>2, <2>5, <3>1, ActivatePassiveKeeps
  <2> QED BY <2>1, <2>2, <2>4, <2>5, DeliverUngrabbedKeeps, DeliverGrabbedKeeps
<1>8. ASSUME HoldEvent PROVE WindowInv'
  <2>1. Undisturbed
    BY <1>8 DEF HoldEvent, Doing, Undisturbed, Now, sprite, holdings
  <2>2. NoneNew(sync, sync')
    BY <1>8, CoreInvParts DEF HoldEvent, NoneNew, SyncType, Syncs
  <2> QED BY <1>8, <2>1, <2>2, PopKeeps DEF HoldEvent
<1>9. ASSUME ProcessRelease PROVE WindowInv'
  <2> DEFINE d == Now.d
             e == [Now.e EXCEPT !.at = hot]
  <2>1. Undisturbed
    BY <1>9 DEF ProcessRelease, Process, Doing, Undisturbed, Now, sprite, holdings
  <2>2. d \in Devices /\ e \in Events
    BY <1>9, ProcessKeyOrButton DEF ProcessRelease
  <2>3. \/ todo' = Rest /\ UNCHANGED <<sync, playing>>
        \/ ComputeFreezes(Deactivated(sync, d), <<>>, Rest)
        \/ DeliverGrabbed(d, e)
    BY <1>9 DEF ProcessRelease
  <2> HIDE DEF d, e
  <2>4. CASE todo' = Rest /\ UNCHANGED <<sync, playing>>
    BY <2>1, <2>4, PopKeeps DEF NoneNew
  <2>5. CASE ComputeFreezes(Deactivated(sync, d), <<>>, Rest)
    <3>1. Pushes(EasyFrames, Rest) /\ NoneNew(sync, sync')
      BY <2>1, <2>2, <2>5, ReleaseKeeps, UndisturbedTrace
    <3>2. GrabsWithin(1 .. traceGood')
      BY <3>1 DEF NoneNew, GrabsWithin
    <3> QED BY <2>1, <3>1, <3>2, UndisturbedKeeps
  <2> QED BY <2>1, <2>2, <2>3, <2>4, <2>5, DeliverGrabbedKeeps
<1>10. ASSUME Replay PROVE WindowInv'
  <2> DEFINE e == Now.e
             d == Now.d
             ws == IF e.type = "press" /\ Now.w <= TraceAt(e.at) /\ (d = "ptr" => down["ptr"])
                     THEN Triggers(d, Now.w + 1, TraceAt(e.at)) ELSE {}
  <2>1. e \in Events /\ d \in Devices /\ e.at \in Windows /\ Now.w \in Windows
    BY <1>1, <1>10, NowType DEF Replay, Doing, Events
  <2>2. Undisturbed /\ traceGood' = TraceAt(e.at)
    BY <1>10, <2>1 DEF Replay, Doing, Undisturbed, TraceNew, Now, holdings
  <2>3. ws \subseteq {w \in 1 .. traceGood' : passive[w][d] # NoGrab}
    BY <2>1, <2>2, GrabsAssumption DEF Triggers, Windows
  <2>4. \/ \E w \in Windows : First(w, ws) /\ ActivatePassive(d, e, w, FALSE)
        \/ DeliverUngrabbed(e, traceGood')
    BY <1>10 DEF Replay
  <2> HIDE DEF d, e, ws
  <2>5. ASSUME NEW w \in Windows, First(w, ws), ActivatePassive(d, e, w, FALSE)
        PROVE  WindowInv'
    <3>1. w \in 1 .. traceGood' /\ passive[w][d] # NoGrab
      BY <2>3, <2>5 DEF First
    <3> QED BY <2>1, <2>2, <2>5, <3>1, ActivatePassiveKeeps
  <2> QED BY <2>2, <2>4, <2>5, DeliverUngrabbedKeeps
<1>11. ASSUME PlayOne PROVE WindowInv'
  <2>1. PICK i \in 1 .. Len(pending) : todo' = <<InputFrame(pending[i])>> \o todo
    BY <1>11 DEF PlayOne
  <2>2. pending[i] \in Events /\ pending[i].dev \in Devices
    BY PendingType
  <2>3. InputFrame(pending[i]) \in EasyFrames
    BY <2>2, EasyFrameType, NoEventType DEF InputFrame, Easy, Ops
  <2>4. Pushes(EasyFrames, todo)
    BY <1>2, <1>11, <2>1, <2>3 DEF PlayOne, Pushes
  <2>5. PassiveWithin /\ GrabsWithin(1 .. traceGood')
    BY <1>11 DEF PlayOne, PassiveWithin, GrabsWithin, holdings
  <2> QED BY <1>1, <1>11, <2>4, <2>5, StepKeeps DEF PlayOne, Doing, sprite
<1>12. ASSUME StopPlaying PROVE WindowInv'
  <2>1. Undisturbed /\ Rest \in Seq(Frames)
    BY <1>1, <1>12, NowType DEF StopPlaying, Doing, Undisturbed, Now, sprite, holdings
  <2>2. <<>> \in Seq(EasyFrames) /\ <<>> \o Rest = Rest
    BY <2>1, EmptySeq, ConcatEmptySeq
  <2>3. Pushes(EasyFrames, Rest)
    BY <1>12, <2>2 DEF StopPlaying, Pushes
  <2>4. GrabsWithin(1 .. traceGood')
    BY <1>12 DEF StopPlaying, GrabsWithin
  <2> QED BY <2>1, <2>3, <2>4, UndisturbedKeeps
<1> QED BY <1>3, <1>4, <1>5, <1>6, <1>7, <1>8, <1>9, <1>10, <1>11, <1>12 DEF Input

-----------------------------------------------------------------------------
(* ... and the requests. *)
LEMMA RequestKeeps ==
  ASSUME CoreInv, WindowInv, NEW c, Request(c), UNCHANGED mapped,
         \A w \in Windows, d \in Devices : passive'[w][d] # NoGrab => w \in exists,
         GrabsWithin(exists), Pushes(EasyFrames, <<>>)
  PROVE  WindowInv'
<1>1. \A fs \in Seq(EasyFrames) : fs \o <<>> = fs
  BY ConcatEmptySeq
<1>2. StackGood'
  BY <1>1, EasyStackGood DEF Pushes
<1> QED BY <1>2, IdleKeeps DEF Request, Idle, sprite, windows

LEMMA RequestsKeep ==
  ASSUME CoreInv, WindowInv, Requests
  PROVE  WindowInv'
<1>1. <<>> \in Seq(Frames) /\ <<>> \in Seq(EasyFrames)
  BY EmptySeq
<1>2. sync \in SyncType /\ passive \in [Windows -> [Devices -> PassiveGrabs \cup {NoGrab}]]
  BY CoreInvParts DEF OthersType
<1>3. \A w \in Windows, d \in Devices : passive[w][d] # NoGrab => w \in exists
  BY DEF WindowInv
<1>4. PICK c \in Clients, d \in Devices :
        \/ \E w \in Windows, this, other \in BOOLEAN : GrabDevice(c, d, w, this, other)
        \/ UngrabDevice(c, d)
        \/ \E w \in Windows, this, other \in BOOLEAN : GrabPassively(c, d, w, this, other)
        \/ \E w \in Windows : UngrabPassively(c, d, w)
        \/ \E mode \in Modes : AllowSome(c, d, mode)
  BY DEF Requests
<1>5. ASSUME NEW w \in Windows, NEW this \in BOOLEAN, NEW other \in BOOLEAN,
             GrabDevice(c, d, w, this, other)
      PROVE  WindowInv'
  <2> DEFINE g == [client |-> c, win |-> w]
             s == Activated(sync, d, g, this, other, FALSE)
  <2>1. g \in ActiveGrabs /\ g # NoGrab /\ g.win = w
    BY ActiveGrabType
  <2>2. ComputeFreezes(s, <<>>, <<>>)
    BY <1>5 DEF GrabDevice
  <2> HIDE DEF g
  <2>3. s \in SyncType
    BY <1>2, <2>1, ActivatedType
  <2>4. GrabSet(sync, s, d, g)
    BY <1>2, <2>1, ActivatedGrab
  <2> HIDE DEF s
  <2>5. GrabsWithin(exists)
    BY <1>5, <2>1, <2>2, <2>3, <2>4, RefrozenGrab
    DEF GrabDevice, ComputeFreezes, GrabSet, GrabsWithin
  <2>6. Pushes(EasyFrames, <<>>)
    BY <1>1, <2>2, FreezesPush, EasySubset
  <2> QED BY <1>3, <1>5, <2>5, <2>6, RequestKeeps DEF GrabDevice
<1>6. ASSUME UngrabDevice(c, d) PROVE WindowInv'
  <2>1. Pushes(EasyFrames, <<>>) /\ NoneNew(sync, sync')
    BY <1>1, <1>6, ReleaseKeeps DEF UngrabDevice
  <2>2. GrabsWithin(exists)
    BY <2>1 DEF NoneNew, GrabsWithin
  <2> QED BY <1>3, <1>6, <2>1, <2>2, RequestKeeps DEF UngrabDevice
<1>7. ASSUME UNCHANGED <<sync, playing, todo, mapped, changes>>, Request(c),
             \A w \in Windows, o \in Devices : passive'[w][o] # NoGrab => w \in exists
      PROVE  WindowInv'
  <2>1. Pushes(EasyFrames, <<>>)
    BY <1>1, <1>7, PushesNothing DEF Request, Idle
  <2>2. GrabsWithin(exists)
    BY <1>7 DEF GrabsWithin
  <2> QED BY <1>7, <2>1, <2>2, RequestKeeps
<1>8. ASSUME NEW w \in Windows, NEW this \in BOOLEAN, NEW other \in BOOLEAN,
             GrabPassively(c, d, w, this, other)
      PROVE  WindowInv'
  <2>1. \A v \in Windows, o \in Devices : passive'[v][o] # NoGrab => v \in exists
    BY <1>2, <1>3, <1>8 DEF GrabPassively
  <2> QED BY <1>7, <1>8, <2>1 DEF GrabPassively
<1>9. ASSUME NEW w \in Windows, UngrabPassively(c, d, w)
      PROVE  WindowInv'
  <2>1. \A v \in Windows, o \in Devices : passive'[v][o] # NoGrab => v \in exists
    BY <1>2, <1>3, <1>9 DEF UngrabPassively
  <2> QED BY <1>7, <1>9, <2>1 DEF UngrabPassively
<1>10. ASSUME NEW mode \in Modes, AllowSome(c, d, mode)
       PROVE  WindowInv'
  <2> DEFINE f == Frame("replay", sync[d].event, d, sync[d].grab.win, None, FALSE)
             replay == IF mode = "Replay" THEN <<f>> ELSE <<>>
  <2>1. replay \in Seq(EasyFrames)
    <3>1. CASE mode = "Replay"
      <4>1. sync[d].grab # NoGrab
        BY <1>10, <3>1 DEF AllowSome, Applies, ThisGrabbed, GrabbedBy
      <4>2. sync[d].event \in Events /\ sync[d].grab.win \in Windows
        BY <1>2, <4>1 DEF SyncType, Syncs, ActiveGrabs
      <4>3. f \in EasyFrames
        BY <4>2, EasyFrameType DEF Easy, Ops
      <4> HIDE DEF f
      <4>4. <<f>> \in Seq(EasyFrames)
        BY <4>3
      <4> QED BY <3>1, <4>4, Zenon
    <3>2. CASE mode # "Replay"
      BY <1>1, <3>2
    <3> QED BY <3>1, <3>2
  <2>2. ComputeFreezes(Allowed(c, d, mode), replay, <<>>)
    BY <1>10 DEF AllowSome
  <2> HIDE DEF replay
  <2>3. Pushes(EasyFrames, <<>>)
    BY <1>1, <2>1, <2>2, FreezesPush, EasySubset
  <2>4. Allowed(c, d, mode) \in SyncType /\ NoneNew(sync, Allowed(c, d, mode))
    BY AllowedType, AllowedGrab
  <2>5. GrabsWithin(exists)
    BY <2>2, <2>4, RefrozenGrab DEF ComputeFreezes, NoneNew, GrabsWithin
  <2> QED BY <1>3, <1>10, <2>3, <2>5, RequestKeeps DEF AllowSome
<1> QED BY <1>4, <1>5, <1>6, <1>8, <1>9, <1>10

-----------------------------------------------------------------------------
(* ... and the windows.  Unmapping a window cuts it off; if the trace may    *)
(* reach it, it is about to be recomputed.                                   *)
NotRestructuring == \A i \in 1 .. Len(todo) : todo[i].op # "restructure"
Unmapping(w) ==
  /\ w \in exists /\ w # 1 /\ Unmapped(w)
  /\ UNCHANGED <<exists, traceGood, passive, sync>>

LEMMA UnmappedCut ==
  ASSUME CoreInv, WindowInv, NotRestructuring, NEW w \in Windows, Unmapping(w)
  PROVE  /\ Cut(w)' /\ w \in 2 .. w
         /\ ~Realized(w) => traceGood < w /\ \A v \in 2 .. traceGood : Shown(v)'
<1>1. /\ mapped \in [Windows -> BOOLEAN] /\ mapped' = [mapped EXCEPT ![w] = FALSE]
      /\ exists' = exists /\ traceGood \in Windows
  BY CoreInvParts DEF Unmapping, Unmapped, OthersType
<1>2. w \in 2 .. w /\ ~mapped'[w]
  BY <1>1, GrabsAssumption DEF Unmapping, Windows
<1>3. Cut(w)'
  BY <1>2 DEF Cut, Shown
<1>4. \A v \in 2 .. traceGood : Shown(v)
  BY DEF WindowInv, TraceShown, NotRestructuring
<1>5. ASSUME ~Realized(w) PROVE traceGood < w
  <2>1. PICK v \in 1 .. w : ~Shown(v)
    BY <1>5 DEF Realized, Shown
  <2>2. v # 1
    BY <2>1 DEF WindowInv, Shown
  <2>3. v \notin 2 .. traceGood
    BY <1>4, <2>1
  <2> QED BY <1>1, <2>1, <2>2, <2>3, GrabsAssumption DEF Windows
<1>6. ASSUME ~Realized(w), NEW v \in 2 .. traceGood PROVE Shown(v)'
  <2>1. v # w
    BY <1>1, <1>5, <1>6, GrabsAssumption DEF Windows
  <2>2. v \in Windows
    BY <1>1, GrabsAssumption DEF Windows
  <2> QED BY <1>1, <1>4, <2>1, <2>2 DEF Shown
<1> QED BY <1>2, <1>3, <1>5, <1>6

LEMMA UnmapFramesEasy ==
  ASSUME NEW w \in Windows
  PROVE  /\ UnmapFrames(w) \in Seq(EasyFrames)
         /\ IF Realized(w) THEN Len(UnmapFrames(w)) = 2 /\ UnmapFrames(w)[2].op = "restructure"
                           ELSE Len(UnmapFrames(w)) = 0
<1> DEFINE f == WindowFrame("unrealize", "ptr", w)
           g == WindowFrame("restructure", "ptr", w)
<1>1. f \in EasyFrames /\ g \in EasyFrames
  BY EasyFrameType, NoEventType DEF Easy, Ops, Devices
<1>2. g.op = "restructure"
  BY DEF WindowFrame, Frame
<1> HIDE DEF f, g
<1>3. <<f, g>> \in Seq(EasyFrames) /\ Len(<<f, g>>) = 2 /\ <<f, g>>[2] = g
  BY <1>1
<1>4. <<>> \in Seq(EasyFrames) /\ Len(<<>>) = 0
  BY EmptySeq
<1>5. UnmapFrames(w) = IF Realized(w) THEN <<f, g>> ELSE <<>>
  BY DEF UnmapFrames, f, g
<1> QED BY <1>2, <1>3, <1>4, <1>5

LEMMA UnmapKeeps ==
  ASSUME CoreInv, WindowInv, NotRestructuring, NEW w \in Windows, Unmapping(w),
         Realized(w) => \E i \in 1 .. Len(todo') : todo'[i].op = "restructure",
         StackGood'
  PROVE  WindowInv'
<1>1. ~Realized(w) => \A v \in 2 .. traceGood : Shown(v)'
  BY UnmappedCut
<1>2. exists' = exists /\ traceGood' = traceGood /\ passive' = passive /\ sync' = sync
  BY DEF Unmapping
<1>3. TraceShown'
  BY <1>1, <1>2 DEF TraceShown
<1>4. mapped'[1]
  BY NoEventType, CoreInvParts DEF Unmapping, Unmapped, WindowInv, OthersType
<1> QED BY <1>2, <1>3, <1>4 DEF WindowInv, TraceExists, GrabWindowExists

LEMMA DeleteWindowKeeps ==
  ASSUME CoreInv, WindowInv, NotRestructuring, NEW w \in Windows, Unmapping(w),
         NEW R \in Seq(Frames), DeleteWindow(w, R),
         Len(R) \in {0, 1}, Len(R) = 1 => R[1].op = "free" /\ R[1].c \in Clients
  PROVE  WindowInv'
<1> DEFINE U == UnmapFrames(w)
           f == WindowFrame("crush", "ptr", w)
           T == U \o <<f>>
           n == Len(U)
<1>1. /\ U \in Seq(EasyFrames)
      /\ IF Realized(w) THEN n = 2 /\ U[2].op = "restructure" ELSE n = 0
  BY UnmapFramesEasy
<1>2. U \in Seq(Frames) /\ \A i \in 1 .. n : U[i].op \in Easy
  BY <1>1, EasyType
<1>3. f \in Frames /\ f.op = "crush" /\ f.w = w
  BY WindowFrameType DEF Ops, Devices, WindowFrame, Frame
<1>4. todo' = T \o R
  BY DEF DeleteWindow
<1> HIDE DEF U, f
<1>5. <<f>> \in Seq(Frames) /\ Len(<<f>>) = 1 /\ <<f>>[1] = f
  BY <1>3
<1>6. n \in Nat
  BY <1>1
<1>7. /\ T \in Seq(Frames) /\ Len(T) = n + 1 /\ T[n + 1] = f
      /\ \A i \in 1 .. n : T[i] = U[i]
  BY <1>2, <1>5, ConcatAt
<1> HIDE DEF T
<1>8. /\ Len(todo') = n + 1 + Len(R)
      /\ \A i \in 1 .. n + 1 : todo'[i] = T[i]
      /\ Len(R) = 1 => todo'[n + 2] = R[1]
  <2>1. /\ Len(todo') = Len(T) + Len(R)
        /\ \A i \in 1 .. Len(T) : todo'[i] = T[i]
        /\ \A i \in 1 .. Len(R) : todo'[Len(T) + i] = R[i]
    BY <1>4, <1>7, ConcatAt
  <2>2. 1 \in 1 .. 1 /\ (n + 1) + 1 = n + 2
    BY <1>6
  <2> QED BY <1>7, <2>1, <2>2
<1>9. /\ \A i \in 1 .. n : todo'[i] = U[i]
      /\ todo'[n + 1] = f
      /\ Len(R) = 1 => todo'[n + 2] = R[1]
  BY <1>6, <1>7, <1>8
<1>10. Cut(w)' /\ traceGood' = traceGood /\ w # 1 /\ (~Realized(w) => traceGood < w)
  BY UnmappedCut DEF Unmapping
<1>11. Realized(w) => n = 2 /\ todo'[2].op = "restructure"
  BY <1>1, <1>9
<1>12. StackGood'
  <2> SUFFICES ASSUME NEW i \in 1 .. Len(todo') PROVE FrameGood(i)'
    BY DEF StackGood
  <2>1. CASE i \in 1 .. n
    BY <1>2, <1>9, <2>1 DEF FrameGood, Easy
  <2>2. CASE i = n + 1
    <3>1. traceGood' < w \/ \E j \in 1 .. i - 1 : todo'[j].op = "restructure"
      <4>1. CASE Realized(w)
        <5> HIDE DEF n
        <5>1. n = 2 /\ i = n + 1
          BY <1>11, <2>2, <4>1
        <5>2. 2 \in 1 .. i - 1
          BY <5>1
        <5> QED BY <1>11, <4>1, <5>2
      <4> QED BY <1>10, <4>1
    <3> QED BY <1>3, <1>9, <1>10, <2>2, <3>1 DEF FrameGood
  <2>3. CASE i = n + 2 /\ Len(R) = 1
    <3>1. i = Len(todo')
      BY <1>6, <1>8, <2>3
    <3> QED BY <1>9, <2>3, <3>1 DEF FrameGood
  <2>4. i \in 1 .. n \/ i = n + 1 \/ (i = n + 2 /\ Len(R) = 1)
    <3> HIDE DEF n
    <3>1. PICK r \in {0, 1} : r = Len(R)
      OBVIOUS
    <3>2. i \in 1 .. n + 1 + r
      BY <1>8, <3>1
    <3>3. i \in 1 .. n \/ i = n + 1 \/ (i = n + 2 /\ r = 1)
      BY <1>6, <3>2
    <3> QED BY <3>1, <3>3
  <2> QED BY <2>1, <2>2, <2>3, <2>4
<1>13. Realized(w) => 2 \in 1 .. Len(todo')
  BY <1>6, <1>8, <1>11
<1> QED BY <1>11, <1>12, <1>13, UnmapKeeps

LEMMA MapWindowKeeps ==
  ASSUME CoreInv, WindowInv, NEW c \in Clients, NEW w \in Windows, MapWindow(c, w)
  PROVE  WindowInv'
<1> DEFINE f == WindowFrame("restructure", "ptr", w)
<1>1. todo = <<>> /\ Len(todo) = 0 /\ mapped' = [mapped EXCEPT ![w] = TRUE] /\ exists' = exists
  BY EmptySeq DEF MapWindow, Request, Idle
<1>2. traceGood' = traceGood /\ passive' = passive /\ sync' = sync
  BY DEF MapWindow, Request, sprite
<1>3. f \in EasyFrames
  BY EasyFrameType, NoEventType DEF Easy, Ops, Devices
<1>4. todo' = <<f>> \/ todo' = <<>>
  BY DEF MapWindow
<1> HIDE DEF f
<1>5. StackGood'
  <2>1. <<f>> \in Seq(EasyFrames) /\ <<>> \in Seq(EasyFrames)
    BY <1>3
  <2> QED BY <1>4, <2>1, EasyStackGood
<1>6. mapped \in [Windows -> BOOLEAN] /\ exists \subseteq Windows /\ traceGood \in Windows
  BY CoreInvParts DEF OthersType
<1>7. \A v : Shown(v) => Shown(v)'
  BY <1>1, <1>6 DEF Shown
<1>8. TraceShown'
  BY <1>1, <1>2, <1>7 DEF WindowInv, TraceShown
<1>9. mapped'[1]
  BY <1>1, <1>6 DEF WindowInv
<1> QED BY <1>1, <1>2, <1>5, <1>8, <1>9 DEF WindowInv, TraceExists, GrabWindowExists

LEMMA UnmapWindowKeeps ==
  ASSUME CoreInv, WindowInv, NEW c \in Clients, NEW w \in Windows, UnmapWindow(c, w)
  PROVE  WindowInv'
<1>1. NotRestructuring
  BY EmptySeq DEF UnmapWindow, Request, Idle, NotRestructuring
<1>2. Unmapping(w)
  BY DEF UnmapWindow, Request, Unmapping, sprite
<1>3. todo' \in Seq(EasyFrames)
  BY UnmapFramesEasy DEF UnmapWindow
<1>4. Realized(w) => 2 \in 1 .. Len(todo') /\ todo'[2].op = "restructure"
  BY UnmapFramesEasy DEF UnmapWindow
<1> QED BY <1>1, <1>2, <1>3, <1>4, EasyStackGood, UnmapKeeps

LEMMA DestroyWindowKeeps ==
  ASSUME CoreInv, WindowInv, NEW c \in Clients, NEW w \in Windows, DestroyWindow(c, w)
  PROVE  WindowInv'
<1>1. NotRestructuring
  BY EmptySeq DEF DestroyWindow, Request, Idle, NotRestructuring
<1>2. Unmapping(w)
  BY DEF DestroyWindow, DeleteWindow, Request, Unmapping, sprite
<1>3. <<>> \in Seq(Frames) /\ Len(<<>>) = 0
  BY EmptySeq
<1>4. DeleteWindow(w, <<>>)
  BY DEF DestroyWindow
<1>5. PICK R \in Seq(Frames) : R = <<>> /\ Len(R) = 0
  BY <1>3
<1>6. DeleteWindow(w, R)
  BY <1>4, <1>5
<1>7. Len(R) \in {0, 1} /\ (Len(R) = 1 => R[1].op = "free" /\ R[1].c \in Clients)
  BY <1>5
<1> QED BY <1>1, <1>2, <1>6, <1>7, DeleteWindowKeeps

LEMMA DeleteFramesEasy ==
  ASSUME NEW w \in Windows
  PROVE  /\ DeleteFrames(w) \in Seq(EasyFrames) /\ Len(DeleteFrames(w)) = 2
         /\ \A d \in Devices : \E i \in {1, 2} : /\ DeleteFrames(w)[i].op = "delete"
                                                 /\ DeleteFrames(w)[i].d = d
                                                 /\ DeleteFrames(w)[i].w = w
<1> DEFINE f == WindowFrame("delete", "ptr", w)
           g == WindowFrame("delete", "kbd", w)
<1>1. f \in EasyFrames /\ g \in EasyFrames
  BY EasyFrameType, NoEventType DEF Easy, Ops, Devices
<1>2. /\ f.op = "delete" /\ f.d = "ptr" /\ f.w = w
      /\ g.op = "delete" /\ g.d = "kbd" /\ g.w = w
  BY DEF WindowFrame, Frame
<1>3. DeleteFrames(w) = <<f, g>>
  BY DEF DeleteFrames
<1> HIDE DEF f, g
<1> QED BY <1>1, <1>2, <1>3 DEF Devices

LEMMA UnrealizeTreeKeeps ==
  ASSUME CoreInv, WindowInv, UnrealizeTree
  PROVE  WindowInv'
<1> DEFINE child == Now.w + 1
           next == IF child \in exists /\ mapped[child]
                     THEN <<WindowFrame("unrealize", "ptr", child)>> ELSE <<>>
<1>1. Undisturbed
  BY DEF UnrealizeTree, Doing, Undisturbed, WindowStepUnchanged, Now, sprite, holdings
<1>2. Now.w \in Windows /\ Rest \in Seq(Frames) /\ Rest \in Seq(Frames)
  BY NowType, CoreInvParts DEF UnrealizeTree, Doing
<1>3. next \in Seq(EasyFrames)
  <2>1. child \in exists => WindowFrame("unrealize", "ptr", child) \in EasyFrames
    BY EasyFrameType, NoEventType, CoreInvParts DEF OthersType, Easy, Ops, Devices
  <2> QED BY <2>1, EmptySeq
<1>4. todo' = DeleteFrames(Now.w) \o next \o Rest
  BY DEF UnrealizeTree
<1> HIDE DEF next
<1>5. DeleteFrames(Now.w) \o next \in Seq(EasyFrames)
  BY <1>2, <1>3, DeleteFramesEasy, ConcatProperties
<1>6. Pushes(EasyFrames, Rest)
  BY <1>4, <1>5 DEF Pushes, UnrealizeTree, WindowStepUnchanged
<1>7. GrabsWithin(1 .. traceGood')
  BY DEF GrabsWithin, UnrealizeTree, WindowStepUnchanged
<1> QED BY <1>1, <1>6, <1>7, UndisturbedKeeps

(* The windows inside are crushed first, and a window's grabs are deleted    *)
(* before it vanishes.                                                       *)
LEMMA CrushTreeKeeps ==
  ASSUME CoreInv, WindowInv, CrushTree
  PROVE  WindowInv'
<1>w. PICK w \in Windows : w = Now.w
  BY NowType, CoreInvParts DEF CrushTree, Doing
<1> DEFINE child == w + 1
           next == IF child \in exists THEN <<WindowFrame("crush", "ptr", child)>> ELSE <<>>
           D == DeleteFrames(w)
           f == WindowFrame("vanish", "ptr", w)
           T == next \o D
           fs == T \o <<f>>
           m == Len(next)
<1>1. /\ todo \in Seq(Frames) /\ exists \subseteq Windows /\ traceGood \in Windows
      /\ todo # <<>> /\ Now.op = "crush" /\ WindowStepUnchanged
  BY CoreInvParts DEF CrushTree, Doing, Now, OthersType
<1>2. /\ Rest \in Seq(Frames)
      /\ Len(todo) \in Nat \ {0} /\ Now = todo[1]
  BY <1>1, NowType, RestAt
<1>3. w # 1 /\ Cut(w) /\ traceGood < w
  <2>1. FrameGood(1)
    BY <1>2 DEF WindowInv, StackGood
  <2> QED BY <1>1, <1>2, <1>w, <2>1 DEF FrameGood
<1>u. UNCHANGED <<windows, passive, sync, traceGood, playing>>
  BY <1>1 DEF WindowStepUnchanged, sprite, holdings
<1>4. Cut(w)' /\ traceGood' < w /\ (child \in exists => Cut(child)' /\ traceGood' < child /\ child # 1)
  <2>1. \A v : Cut(v) => Cut(v)'
    BY <1>u DEF Cut, Shown, windows
  <2>2. 2 .. w \subseteq 2 .. child /\ traceGood < child /\ child # 1
    BY <1>1, <1>2, <1>3, GrabsAssumption DEF Windows
  <2>3. Cut(child)
    BY <1>3, <2>2 DEF Cut
  <2> QED BY <1>3, <1>u, <2>1, <2>2, <2>3
<1>5. /\ next \in Seq(Frames) /\ m \in {0, 1}
      /\ m = 1 => child \in exists /\ next[1].op = "crush" /\ next[1].w = child
  <2> DEFINE g == WindowFrame("crush", "ptr", child)
  <2>1. child \in exists => g \in Frames /\ g.op = "crush" /\ g.w = child
    BY <1>1, WindowFrameType DEF Ops, Devices, WindowFrame, Frame
  <2> HIDE DEF g
  <2>2. next = IF child \in exists THEN <<g>> ELSE <<>>
    BY DEF g
  <2> HIDE DEF next
  <2>3. CASE child \in exists
    <3>1. next = <<g>> /\ <<g>> \in Seq(Frames) /\ Len(<<g>>) = 1 /\ <<g>>[1] = g
      BY <2>1, <2>2, <2>3
    <3> QED BY <2>1, <2>3, <3>1
  <2>4. CASE child \notin exists
    BY <2>2, <2>4, EmptySeq
  <2> QED BY <2>3, <2>4
<1>6. /\ D \in Seq(Frames) /\ Len(D) = 2
      /\ \A i \in 1 .. 2 : D[i].op \in Easy
      /\ \A d \in Devices : \E i \in {1, 2} : D[i].op = "delete" /\ D[i].d = d /\ D[i].w = w
  BY <1>2, DeleteFramesEasy, EasyType
<1>7. f \in Frames /\ f.op = "vanish" /\ f.w = w
  BY <1>2, WindowFrameType DEF Ops, Devices, WindowFrame, Frame
<1>8. todo' = fs \o Rest
  BY <1>w DEF CrushTree
<1> HIDE DEF next, D, f
<1>9. <<f>> \in Seq(Frames) /\ Len(<<f>>) = 1 /\ <<f>>[1] = f
  BY <1>7
<1>10. /\ T \in Seq(Frames) /\ Len(T) = m + 2
       /\ \A i \in 1 .. m : T[i] = next[i]
       /\ T[m + 1] = D[1] /\ T[m + 2] = D[2]
  <2>1. /\ T \in Seq(Frames) /\ Len(T) = m + Len(D)
        /\ \A i \in 1 .. m : T[i] = next[i]
        /\ \A i \in 1 .. Len(D) : T[m + i] = D[i]
    BY <1>5, <1>6, ConcatAt
  <2> QED BY <1>6, <2>1
<1> HIDE DEF T
<1>11. /\ fs \in Seq(Frames) /\ Len(fs) = m + 3
       /\ \A i \in 1 .. m + 2 : fs[i] = T[i]
       /\ fs[m + 3] = f
  <2>1. /\ fs \in Seq(Frames) /\ Len(fs) = Len(T) + 1
        /\ \A i \in 1 .. Len(T) : fs[i] = T[i]
        /\ fs[Len(T) + 1] = f
    BY <1>9, <1>10, ConcatAt
  <2>2. (m + 2) + 1 = m + 3
    BY <1>5
  <2> QED BY <1>10, <2>1, <2>2
<1> HIDE DEF fs
<1>12. /\ Len(todo') = m + 3 + Len(Rest) /\ Len(Rest) \in Nat
       /\ \A i \in 1 .. m + 3 : todo'[i] = fs[i]
  <2>1. /\ Len(todo') = Len(fs) + Len(Rest)
        /\ \A i \in 1 .. Len(fs) : todo'[i] = fs[i]
    BY <1>2, <1>8, <1>11, ConcatAt
  <2>2. Len(Rest) \in Nat
    BY <1>2, LenProperties
  <2> QED BY <1>11, <2>1, <2>2
<1>13. /\ m = 1 => todo'[1].op = "crush" /\ todo'[1].w = child
       /\ todo'[m + 1] = D[1] /\ todo'[m + 2] = D[2] /\ todo'[m + 3] = f
  <2>1. m + 1 \in 1 .. m + 2 /\ m + 2 \in 1 .. m + 2 /\ m + 3 \in 1 .. m + 3
        /\ m + 1 \in 1 .. m + 3 /\ m + 2 \in 1 .. m + 3
    BY <1>5
  <2>2. m = 1 => 1 \in 1 .. m /\ 1 \in 1 .. m + 2 /\ 1 \in 1 .. m + 3
    OBVIOUS
  <2> QED BY <1>5, <1>10, <1>11, <1>12, <2>1, <2>2
<1>14. ASSUME NEW i \in 1 .. m + 3 PROVE FrameGood(i)'
  <2>1. CASE i = 1 /\ m = 1
    BY <1>4, <1>5, <1>13, <2>1 DEF FrameGood
  <2>2. CASE i \in {m + 1, m + 2}
    <3>1. todo'[i].op \in Easy
      BY <1>6, <1>13, <2>2
    <3> QED BY <3>1 DEF FrameGood, Easy
  <2>3. CASE i = m + 3
    <3>1. m + 1 \in 1 .. i - 1 /\ m + 2 \in 1 .. i - 1
      BY <1>5, <2>3
    <3>2. \A d \in Devices : \E j \in 1 .. i - 1 : /\ todo'[j].op = "delete"
                                                   /\ todo'[j].d = d /\ todo'[j].w = w
      BY <1>6, <1>13, <3>1
    <3> QED BY <1>3, <1>4, <1>7, <1>13, <2>3, <3>2 DEF FrameGood
  <2>4. (i = 1 /\ m = 1) \/ i \in {m + 1, m + 2} \/ i = m + 3
    <3> HIDE DEF m
    <3> QED BY <1>5
  <2> QED BY <2>1, <2>2, <2>3, <2>4
<1>15. EnvKept /\ Popped
  BY <1>1, <1>u DEF EnvKept, Popped, Cut, Shown, On, windows
<1>16. \A i \in Len(fs) + 1 .. Len(todo') : FrameGood(i)'
  BY <1>1, <1>2, <1>8, <1>11, <1>15, StackKeeps DEF WindowInv
<1>17. StackGood'
  <2>1. \A i \in 1 .. Len(todo') : i \in 1 .. m + 3 \/ i \in m + 3 + 1 .. Len(todo')
    BY <1>5, <1>12
  <2> QED BY <1>11, <1>14, <1>16, <2>1 DEF StackGood
<1>18. TraceShown'
  <2>1. CASE \A v \in 2 .. traceGood : Shown(v)
    BY <1>u, <2>1 DEF TraceShown, Shown, windows
  <2>2. ASSUME NEW i \in 1 .. Len(todo), todo[i].op = "restructure" PROVE TraceShown'
    <3>1. /\ Len(todo) \in Nat /\ Len(Rest) = Len(todo) - 1
          /\ \A j \in 1 .. Len(Rest) : Rest[j] = todo[j + 1]
      BY <1>1, RestAt
    <3>2. i # 1
      BY <1>1, <1>2, <2>2
    <3>3. i - 1 \in 1 .. Len(Rest) /\ (i - 1) + 1 = i
      BY <3>1, <3>2
    <3>4. Rest[i - 1] = todo[i]
      BY <3>1, <3>3
    <3>5. todo'[Len(fs) + (i - 1)] = todo[i]
      BY <1>2, <1>8, <1>11, <3>3, <3>4, ConcatAt
    <3>6. Len(fs) + (i - 1) \in 1 .. Len(todo')
      BY <1>5, <1>11, <1>12, <3>3
    <3> QED BY <2>2, <3>5, <3>6 DEF TraceShown
  <2> QED BY <2>1, <2>2 DEF WindowInv, TraceShown
<1> QED BY <1>17, <1>18, <1>u DEF WindowInv, TraceExists, GrabWindowExists, windows

LEMMA VanishKeeps ==
  ASSUME CoreInv, WindowInv, Vanish
  PROVE  WindowInv'
<1>1. PICK w \in Windows : w = Now.w
  BY NowType, CoreInvParts DEF Vanish, Doing
<1>2. /\ todo \in Seq(Frames) /\ todo # <<>> /\ Now.op = "vanish" /\ traceGood \in Windows
      /\ passive \in [Windows -> [Devices -> PassiveGrabs \cup {NoGrab}]]
  BY CoreInvParts DEF Vanish, Doing, Now, OthersType
<1>3. Rest \in Seq(Frames) /\ Len(todo) \in Nat \ {0} /\ Now = todo[1] /\ todo' = Rest
  BY <1>2, RestAt DEF Vanish
<1>4. w # 1 /\ traceGood < w /\ \A d \in Devices : ~On(d, w)
  <2>1. FrameGood(1)
    BY <1>3 DEF WindowInv, StackGood
  <2> QED BY <1>1, <1>2, <1>3, <2>1 DEF FrameGood
<1>5. /\ exists' = exists \ {w} /\ mapped' = mapped /\ sync' = sync /\ traceGood' = traceGood
      /\ passive' = [passive EXCEPT ![w] = [d \in Devices |-> NoGrab]]
  BY <1>1 DEF Vanish, sprite
<1>6. EnvKept /\ Popped
  <2>1. \A v \in Windows : Cut(v) => Cut(v)'
    BY <1>5 DEF Cut, Shown
  <2> QED BY <1>2, <1>5, <2>1 DEF EnvKept, Popped, On
<1>7. StackGood'
  <2>1. <<>> \in Seq(Frames) /\ Len(<<>>) = 0
    BY EmptySeq
  <2>2. todo' = <<>> \o Rest
    BY <1>3, ConcatEmptySeq
  <2>3. PICK fs \in Seq(Frames) : fs = <<>>
    BY <2>1
  <2>4. \A i \in Len(fs) + 1 .. Len(todo') : FrameGood(i)'
    BY <1>2, <1>3, <1>6, <2>2, <2>3, StackKeeps DEF WindowInv
  <2> QED BY <2>1, <2>3, <2>4 DEF StackGood
<1>8. TraceExists' /\ \A v \in 1 .. traceGood : v # w
  BY <1>2, <1>4, <1>5, GrabsAssumption DEF WindowInv, TraceExists, Windows
<1>9. TraceShown'
  <2>1. CASE \A v \in 2 .. traceGood : Shown(v)
    <3>1. \A v \in 2 .. traceGood : v # w
      BY <1>2, <1>4, GrabsAssumption DEF Windows
    <3> QED BY <1>5, <2>1, <3>1 DEF TraceShown, Shown
  <2>2. ASSUME NEW i \in 1 .. Len(todo), todo[i].op = "restructure" PROVE TraceShown'
    <3>1. /\ Len(Rest) = Len(todo) - 1
          /\ \A j \in 1 .. Len(Rest) : Rest[j] = todo[j + 1]
      BY <1>2, RestAt
    <3>2. i # 1
      BY <1>2, <1>3, <2>2
    <3>3. i - 1 \in 1 .. Len(Rest) /\ (i - 1) + 1 = i
      BY <1>3, <3>1, <3>2
    <3> QED BY <1>3, <2>2, <3>1, <3>3 DEF TraceShown
  <2> QED BY <2>1, <2>2 DEF WindowInv, TraceShown
<1>10. GrabWindowExists'
  BY <1>4, <1>5 DEF WindowInv, GrabWindowExists, On
<1>11. \A v \in Windows, d \in Devices : passive'[v][d] # NoGrab => v \in exists'
  BY <1>2, <1>5 DEF WindowInv
<1> QED BY <1>4, <1>5, <1>7, <1>8, <1>9, <1>10, <1>11 DEF WindowInv

LEMMA WindowOpsKeep ==
  ASSUME CoreInv, WindowInv, WindowOps
  PROVE  WindowInv'
<1>1. todo \in Seq(Frames) /\ hot \in Windows
  BY CoreInvParts DEF OthersType
<1>2. ASSUME DeleteFromDevice PROVE WindowInv'
  <2>1. PICK d \in Devices : d = Now.d
    BY <1>1, <1>2, NowType DEF DeleteFromDevice, Doing
  <2>2. todo # <<>> /\ Now.op = "delete" /\ Rest \in Seq(Frames)
    BY <1>1, <1>2, NowType DEF DeleteFromDevice, Doing, Now
  <2>3. UNCHANGED windows /\ PassiveWithin /\ traceGood' = traceGood
    BY <1>2 DEF DeleteFromDevice, PassiveWithin, holdings, sprite
  <2>4. CASE ComputeFreezes(Deactivated(sync, d), <<>>, Rest)
    <3>1. Pushes(EasyFrames, Rest) /\ NoneNew(sync, sync') /\ sync'[d].grab = NoGrab
      BY <2>2, <2>4, ReleaseKeeps
    <3>2. GrabsWithin(1 .. traceGood')
      BY <3>1 DEF NoneNew, GrabsWithin
    <3>3. ~(sync'[Now.d].grab # NoGrab /\ sync'[Now.d].grab.win = Now.w)
      BY <2>1, <3>1
    <3> QED BY <2>2, <2>3, <3>1, <3>2, <3>3, StepKeeps
  <2>5. CASE /\ ~(sync[d].grab # NoGrab /\ sync[d].grab.win = Now.w)
             /\ todo' = Rest /\ UNCHANGED <<sync, playing>>
    <3>1. Pushes(EasyFrames, Rest)
      BY <2>2, <2>5, PushesNothing
    <3>2. GrabsWithin(1 .. traceGood')
      BY <2>5 DEF GrabsWithin
    <3>3. ~(sync'[Now.d].grab # NoGrab /\ sync'[Now.d].grab.win = Now.w)
      BY <2>1, <2>5
    <3> QED BY <2>2, <2>3, <3>1, <3>2, <3>3, StepKeeps
  <2> QED BY <1>2, <2>1, <2>4, <2>5 DEF DeleteFromDevice
<1>3. ASSUME WindowsRestructured PROVE WindowInv'
  <2>1. /\ todo # <<>> /\ Now.op = "restructure" /\ Rest \in Seq(Frames)
        /\ todo' = Rest /\ UNCHANGED <<windows, playing, sync>>
    BY <1>1, <1>3, NowType DEF WindowsRestructured, Doing, Now
  <2>2. TraceNew /\ PassiveWithin
    BY <1>1, <1>3 DEF WindowsRestructured, TraceNew, PassiveWithin, holdings
  <2>3. Pushes(EasyFrames, Rest)
    BY <2>1, PushesNothing
  <2>4. GrabsWithin(1 .. traceGood')
    BY <2>1 DEF GrabsWithin
  <2> QED BY <2>1, <2>2, <2>3, <2>4, StepKeeps
<1> QED BY <1>2, <1>3, MapWindowKeeps, UnmapWindowKeeps, DestroyWindowKeeps, UnrealizeTreeKeeps,
           CrushTreeKeeps, VanishKeeps DEF WindowOps

-----------------------------------------------------------------------------
(* ... and the clients. *)
LEMMA ClientOpsKeep ==
  ASSUME CoreInv, WindowInv, ClientOps
  PROVE  WindowInv'
<1>1. todo \in Seq(Frames) /\ sync \in SyncType /\ exists \subseteq Windows
  BY CoreInvParts DEF OthersType
<1>2. \A w \in Windows, d \in Devices : passive[w][d] # NoGrab => w \in exists
  BY DEF WindowInv
<1>3. ASSUME NEW c \in Clients, NEW keep \in BOOLEAN, CloseDownClient(c, keep)
      PROVE  WindowInv'
  <2> DEFINE f == ClientFrame("release", c)
             g == ClientFrame(IF keep THEN "retain" ELSE "gone", c)
  <2>1. f.op = "release" /\ g.c = c
    BY DEF ClientFrame, Frame
  <2>2. todo' = <<f, g>>
    BY <1>3 DEF CloseDownClient
  <2>3. g.op \in {"retain", "gone"}
    BY DEF ClientFrame, Frame
  <2> HIDE DEF f, g
  <2>4. StackGood'
    <3>1. Len(todo') = 2 /\ todo'[1] = f /\ todo'[2] = g
      BY <2>2
    <3>2. FrameGood(1)' /\ FrameGood(2)'
      BY <2>1, <2>3, <3>1 DEF FrameGood
    <3> QED BY <3>1, <3>2 DEF StackGood
  <2>5. GrabsWithin(exists) /\ todo = <<>> /\ UNCHANGED <<windows, traceGood, passive>>
    BY <1>3 DEF CloseDownClient, Request, Idle, GrabsWithin, windows, sprite
  <2> QED BY <1>2, <2>4, <2>5, IdleKeeps
<1>4. ASSUME NEW c \in Clients, CloseDownRetained(c) PROVE WindowInv'
  <2> DEFINE f == ClientFrame("free", c)
  <2>1. f.op = "free" /\ f.c = c /\ todo' = <<f>>
    BY <1>4 DEF CloseDownRetained, ClientFrame, Frame
  <2> HIDE DEF f
  <2>2. StackGood'
    <3>1. Len(todo') = 1 /\ todo'[1] = f
      BY <2>1
    <3>2. FrameGood(1)'
      BY <2>1, <3>1 DEF FrameGood
    <3> QED BY <3>1, <3>2 DEF StackGood
  <2>3. GrabsWithin(exists) /\ todo = <<>> /\ UNCHANGED <<windows, traceGood, passive>>
    BY <1>4 DEF CloseDownRetained, ClientUnchanged, Idle, GrabsWithin, sprite
  <2> QED BY <1>2, <2>2, <2>3, IdleKeeps
<1>5. ASSUME ReleaseActiveGrabs PROVE WindowInv'
  <2>1. todo # <<>> /\ Now.op = "release" /\ Rest \in Seq(Frames)
    BY <1>1, <1>5, NowType DEF ReleaseActiveGrabs, Doing, Now
  <2>2. UNCHANGED windows /\ PassiveWithin /\ traceGood' = traceGood
    BY <1>5 DEF ReleaseActiveGrabs, ClientUnchanged, PassiveWithin, holdings, sprite
  <2>3. ASSUME NEW d \in Devices, ComputeFreezes(Deactivated(sync, d), <<>>, todo)
        PROVE  WindowInv'
    <3>1. Pushes(EasyFrames, todo) /\ NoneNew(sync, sync')
      BY <1>1, <2>3, ReleaseKeeps
    <3>2. GrabsWithin(1 .. traceGood')
      BY <3>1 DEF NoneNew, GrabsWithin
    <3> QED BY <1>1, <2>1, <2>2, <3>1, <3>2, StepKeeps
  <2>4. CASE todo' = Rest /\ UNCHANGED <<sync, playing>>
    <3>1. Pushes(EasyFrames, Rest) /\ GrabsWithin(1 .. traceGood')
      BY <2>1, <2>4, PushesNothing DEF GrabsWithin
    <3> QED BY <2>1, <2>2, <3>1, StepKeeps
  <2> QED BY <1>5, <2>3, <2>4 DEF ReleaseActiveGrabs
<1>6. ASSUME RetainClient PROVE WindowInv'
  <2>1. /\ todo # <<>> /\ Now.op = "retain" /\ Rest \in Seq(Frames)
        /\ todo' = Rest /\ UNCHANGED <<windows, playing, sync, traceGood>>
    BY <1>1, <1>6, NowType DEF RetainClient, Doing, Now, ClientUnchanged, sprite
  <2>2. PassiveWithin
    BY <1>6 DEF RetainClient, WithoutPassiveOf, PassiveWithin
  <2>3. Pushes(EasyFrames, Rest) /\ GrabsWithin(1 .. traceGood')
    BY <2>1, PushesNothing DEF GrabsWithin
  <2> QED BY <2>1, <2>2, <2>3, StepKeeps
<1>7. ASSUME todo # <<>>, Now.op \in {"gone", "free"}
      PROVE  /\ Len(todo) = 1 /\ todo[1] = Now /\ Now.c \in Clients
             /\ Rest = <<>> /\ NotRestructuring
  <2>1. /\ Now = todo[1] /\ Len(todo) \in Nat \ {0} /\ Len(Rest) = Len(todo) - 1
        /\ Rest \in Seq(Frames)
    BY <1>1, <1>7, RestAt
  <2>2. FrameGood(1)
    BY <2>1 DEF WindowInv, StackGood
  <2>3. Len(todo) = 1 /\ Now.c \in Clients
    BY <1>7, <2>1, <2>2 DEF FrameGood
  <2>4. NotRestructuring
    BY <1>7, <2>1, <2>3 DEF NotRestructuring
  <2>5. Rest = <<>>
    BY <2>1, <2>3, EmptySeq
  <2> QED BY <2>1, <2>3, <2>4, <2>5
<1>8. ASSUME NotRestructuring, UNCHANGED <<windows, sync, traceGood>>, StackGood',
             \A w \in Windows, d \in Devices : passive'[w][d] # NoGrab => w \in exists
      PROVE  WindowInv'
  <2>1. exists' = exists /\ mapped' = mapped
    BY <1>8 DEF windows
  <2>2. TraceShown'
    BY <1>8, <2>1 DEF WindowInv, TraceShown, NotRestructuring, Shown
  <2> QED BY <1>8, <2>1, <2>2 DEF WindowInv, TraceExists, GrabWindowExists
<1>9. ASSUME ClientGone PROVE WindowInv'
  <2> DEFINE f == ClientFrame("free", Now.c)
  <2>1. todo # <<>> /\ Now.op = "gone"
    BY <1>9 DEF ClientGone, Doing, Now
  <2>2. f.op = "free" /\ f.c \in Clients /\ f \in Frames
    BY <1>7, <2>1, ClientFrameType DEF ClientFrame, Frame, Ops
  <2>p. todo' = <<f>> \o Rest
    BY <1>9 DEF ClientGone
  <2> HIDE DEF f
  <2>e. <<f>> \in Seq(Frames) /\ <<f>> \o <<>> = <<f>>
    BY <2>2, ConcatEmptySeq
  <2>t. todo' = <<f>>
    BY <1>7, <2>1, <2>p, <2>e
  <2>3. PICK g : g = f
    OBVIOUS
  <2>4. StackGood'
    <3>1. Len(todo') = 1 /\ todo'[1] = g
      BY <2>t, <2>3
    <3>2. FrameGood(1)'
      BY <2>2, <2>3, <3>1 DEF FrameGood
    <3> QED BY <3>1, <3>2 DEF StackGood
  <2> QED BY <1>2, <1>7, <1>8, <1>9, <2>1, <2>4 DEF ClientGone, ClientUnchanged, sprite
<1>10. ASSUME FreeClientResource PROVE WindowInv'
  <2>1. todo # <<>> /\ Now.op = "free"
    BY <1>10 DEF FreeClientResource, Doing, Now
  <2>2. /\ Len(todo) = 1 /\ todo[1] = Now /\ Now.c \in Clients /\ Rest = <<>>
        /\ NotRestructuring
    BY <1>7, <2>1
  <2>3. UNCHANGED <<sync, exists, traceGood>>
    BY <1>10 DEF FreeClientResource, ClientUnchanged, sprite
  <2>4. ASSUME NEW w \in exists, NEW d \in Devices,
               passive' = [passive EXCEPT ![w][d] = NoGrab], UNCHANGED <<todo, mapped>>
        PROVE  WindowInv'
    <3>1. StackGood'
      BY <2>3, <2>4 DEF WindowInv, StackGood, FrameGood, Cut, Shown, On
    <3>2. \A v \in Windows, o \in Devices : passive'[v][o] # NoGrab => v \in exists
      BY <1>1, <1>2, <2>4, CoreInvParts DEF OthersType
    <3> QED BY <1>8, <2>2, <2>3, <2>4, <3>1, <3>2 DEF windows
  <2>5. ASSUME NEW w \in exists, Owner[w] = Now.c, DeleteWindow(w, todo), UNCHANGED passive
        PROVE  WindowInv'
    <3>1. w \in Windows /\ w # 1
      BY <1>1, <2>2, <2>5, GrabsAssumption
    <3>2. Unmapping(w)
      BY <2>3, <2>5, <3>1 DEF Unmapping, DeleteWindow
    <3>3. Len(todo) \in {0, 1} /\ (Len(todo) = 1 => todo[1].op = "free" /\ todo[1].c \in Clients)
      BY <2>1, <2>2
    <3> QED BY <1>1, <2>2, <2>5, <3>1, <3>2, <3>3, DeleteWindowKeeps
  <2>6. CASE todo' = Rest /\ UNCHANGED <<passive, mapped>>
    <3>1. StackGood'
      BY <2>2, <2>6, EmptySeq DEF StackGood
    <3> QED BY <1>2, <1>8, <2>2, <2>3, <2>6, <3>1 DEF windows
  <2> QED BY <1>10, <2>4, <2>5, <2>6 DEF FreeClientResource
<1> QED BY <1>3, <1>4, <1>5, <1>6, <1>9, <1>10 DEF ClientOps

-----------------------------------------------------------------------------
LEMMA WindowInvInit ==
  ASSUME Init
  PROVE  WindowInv
<1>1. 1 \in Windows /\ Depth \in Nat
  BY GrabsAssumption DEF Windows
<1>2. \A v \in 1 .. Depth : v \in exists /\ mapped[v]
  BY DEF Init, Windows
<1>3. TraceExists /\ TraceShown
  BY <1>1, <1>2 DEF Init, TraceExists, TraceShown, Shown
<1>4. StackGood
  BY EmptySeq DEF Init, StackGood
<1>5. GrabWindowExists /\ \A w \in Windows, d \in Devices : passive[w][d] = NoGrab
  BY DEF Init, GrabWindowExists
<1> QED BY <1>1, <1>2, <1>3, <1>4, <1>5 DEF WindowInv, Windows

LEMMA WindowInvInductive ==
  ASSUME CoreInv, WindowInv, [Next]_vars
  PROVE  WindowInv'
<1>1. CASE Next
  BY <1>1, InputKeeps, RequestsKeep, WindowOpsKeep, ClientOpsKeep DEF Next
<1>2. CASE UNCHANGED vars
  BY <1>2 DEF vars, sprite, windows, holdings, WindowInv, TraceExists, TraceShown, Shown,
              GrabWindowExists, StackGood, FrameGood, Cut, On
<1> QED BY <1>1, <1>2

(* A grab never outlives its window: UnrealizeTree and FreeWindowResources   *)
(* release the grabs on every window they take away, and no event processed  *)
(* in between activates another on a window already cut off.                 *)
THEOREM NoGrabOutlivesItsWindow == Spec => []GrabWindowExists
<1>1. Spec => []WindowInv
  <2>1. Init => WindowInv
    BY WindowInvInit
  <2>2. CoreInv /\ WindowInv /\ [Next]_vars => WindowInv'
    BY WindowInvInductive
  <2> QED BY <2>1, <2>2, CoreInvAlways, PTL DEF Spec
<1>2. WindowInv => GrabWindowExists
  BY DEF WindowInv
<1> QED BY <1>1, <1>2, PTL

-----------------------------------------------------------------------------
(* Events in order.  Steps that process no event push frames that are not    *)
(* events.                                                                   *)
QuietFrames == {f \in Frames : f.op # "input"}

LEMMA QuietType ==
  /\ QuietFrames \in SUBSET Frames /\ PlayFrame \in QuietFrames
  /\ \A op \in Ops \ {"input"}, e \in Events, d \in Devices, w \in Windows,
        c \in Clients \cup {None}, live \in BOOLEAN :
       Frame(op, e, d, w, c, live) \in QuietFrames
<1>1. ASSUME NEW op \in Ops \ {"input"}, NEW e \in Events, NEW d \in Devices, NEW w \in Windows,
             NEW c \in Clients \cup {None}, NEW live \in BOOLEAN
      PROVE  Frame(op, e, d, w, c, live) \in QuietFrames
  <2>1. Frame(op, e, d, w, c, live) \in Frames
    BY <1>1, FrameType
  <2> QED BY <1>1, <2>1 DEF QuietFrames, Frame
<1>2. PlayFrame \in QuietFrames
  BY <1>1, NoEventType DEF PlayFrame, Ops, Devices
<1> QED BY <1>1, <1>2 DEF QuietFrames

LEMMA QuietSeq ==
  ASSUME NEW fs \in Seq(QuietFrames)
  PROVE  fs \in Seq(Frames) /\ \A i \in 1 .. Len(fs) : fs[i].op # "input"
<1>1. \A i \in 1 .. Len(fs) : fs[i] \in QuietFrames
  BY ElementOfSeq
<1>2. fs \in [1 .. Len(fs) -> Frames] /\ Len(fs) \in Nat
  BY <1>1, LenProperties DEF QuietFrames
<1>3. fs \in Seq(Frames)
  BY <1>2, SeqDef
<1> QED BY <1>1, <1>3 DEF QuietFrames

(* Without an event in flight, what changes neither the queue nor the        *)
(* numbers keeps the order.                                                  *)
LowGood(f) == f.op = "input" => InputGood(f) /\ f.d = "kbd" /\ Repeats

QuietStack ==
  /\ \A i \in 1 .. Len(todo) : LowGood(todo[i])
  /\ playing => \E i \in 1 .. Len(todo) : todo[i].op = "play"

(* On top of such a stack is an event of a repeated key, if any.             *)
LEMMA QuietFlying ==
  ASSUME NEW s \in Seq(Frames), \A i \in 1 .. Len(s) : LowGood(s[i]),
         s # <<>>, Head(s).op = "input"
  PROVE  Head(s).e.dev = "kbd" /\ Repeats
<1>1. Head(s) = s[1] /\ 1 \in 1 .. Len(s)
  <2>1. Len(s) \in Nat /\ Len(s) # 0
    BY EmptySeq, LenProperties
  <2> QED BY <2>1, HeadTailProperties
<1> QED BY <1>1 DEF LowGood, InputGood

LEMMA QuietFlyingNext ==
  ASSUME todo' \in Seq(Frames), QuietStack'
  PROVE  \A d \in Devices : Orderly(d)' => Flying(d)' = {}
<1>1. (InFlight => Now.e.dev = "kbd" /\ Repeats)'
  <2> SUFFICES ASSUME todo' # <<>>, Head(todo').op = "input"
               PROVE  Head(todo').e.dev = "kbd" /\ Repeats'
    BY DEF InFlight, Now
  <2>1. \A i \in 1 .. Len(todo') :
          todo'[i].op = "input" => /\ todo'[i].d = todo'[i].e.dev
                                   /\ todo'[i].d = "kbd" /\ Repeats'
    BY DEF QuietStack, LowGood, InputGood
  <2>2. Head(todo') = todo'[1] /\ 1 \in 1 .. Len(todo')
    <3>1. Len(todo') \in Nat /\ Len(todo') # 0
      BY EmptySeq, LenProperties
    <3> QED BY <3>1, HeadTailProperties
  <2> QED BY <2>1, <2>2
<1> QED BY <1>1 DEF Flying, Repeats

LEMMA QuietKeeps ==
  ASSUME OrderInv, ~InFlight, todo' \in Seq(Frames), QuietStack',
         UNCHANGED <<pending, done, owed, keyLost, down, hwDown, serial>>
  PROVE  OrderInv'
<1>1. \A d \in Devices : Orderly(d)' = Orderly(d) /\ (Orderly(d) => Flying(d)' = {})
  BY QuietFlyingNext DEF Orderly
<1>2. \A d : Queued(d)' = Queued(d) /\ Flying(d) = {}
  BY DEF Queued, Flying
<1>3. \A d \in Devices : Orderly(d) => Coming(d)' = Queued(d) /\ Coming(d) = Queued(d)
  BY <1>1, <1>2 DEF Coming
<1>4. ASSUME NEW d \in Devices, Orderly(d)' PROVE Ordered(d)'
  <2>1. Ordered(d) /\ Coming(d)' = Queued(d) /\ Coming(d) = Queued(d) /\ Flying(d)' = {}
    BY <1>1, <1>3, <1>4 DEF OrderInv
  <2>2. Numbered(d)'
    BY <1>2, <2>1 DEF Ordered, Numbered
  <2>3. QueueOrdered(d)'
    BY <2>1 DEF Ordered, QueueOrdered
  <2>4. FlightOrdered(d)'
    BY <2>1 DEF FlightOrdered
  <2> QED BY <2>2, <2>3, <2>4 DEF Ordered
<1>5. ~Repeats' => Alternates(Coming("kbd"), down["kbd"], hwDown["kbd"])'
  <2>1. "kbd" \in Devices
    BY DEF Devices
  <2>2. ASSUME ~Repeats' PROVE Coming("kbd")' = Coming("kbd") /\ ~Repeats
    BY <1>1, <1>3, <2>1, <2>2 DEF Repeats
  <2> QED BY <2>2 DEF OrderInv
<1>6. /\ \A i \in 2 .. Len(todo') : todo'[i].op = "input" => todo'[i].d = "kbd" /\ Repeats'
      /\ \A i \in 1 .. Len(todo') : todo'[i].op = "input" => InputGood(todo'[i])
  <2>1. Len(todo') \in Nat
    BY LenProperties
  <2> QED BY <2>1 DEF QuietStack, LowGood, InputGood
<1>7. \A i \in 1 .. Len(pending') : pending'[i].type = "motion" => pending'[i].dev = "ptr"
  BY DEF OrderInv
<1> QED BY <1>4, <1>5, <1>6, <1>7 DEF OrderInv, QuietStack, InputGood

(* A step that goes on with the frames below the one it has done, or pushes  *)
(* others on them all.                                                       *)
LEMMA QuietPush ==
  ASSUME CoreInv, OrderInv, Repeats => Repeats', NEW R \in Seq(Frames), Pushes(QuietFrames, R),
         \/ R = todo /\ (todo # <<>> => Now.op # "input")
         \/ todo # <<>> /\ R = Rest /\ (Now.op = "play" => ~playing')
  PROVE  todo' \in Seq(Frames) /\ QuietStack'
<1>1. PICK fs \in Seq(QuietFrames) :
        /\ todo' = fs \o R
        /\ playing' => playing \/ \E i \in 1 .. Len(fs) : fs[i].op = "play"
  BY DEF Pushes
<1>2. fs \in Seq(Frames) /\ \A i \in 1 .. Len(fs) : fs[i].op # "input"
  BY QuietSeq
<1>3. /\ todo' \in Seq(Frames) /\ Len(todo') = Len(fs) + Len(R)
      /\ \A i \in 1 .. Len(fs) : todo'[i] = fs[i]
      /\ \A i \in 1 .. Len(R) : todo'[Len(fs) + i] = R[i]
  BY <1>1, <1>2, ConcatAt
<1>4. Len(fs) \in Nat /\ Len(R) \in Nat
  BY LenProperties
<1>5. todo \in Seq(Frames) /\ Len(todo) \in Nat
  BY CoreInvParts, LenProperties
<1>6. todo # <<>> => /\ Now = todo[1] /\ Len(todo) \in Nat \ {0} /\ Len(Rest) = Len(todo) - 1
                     /\ \A i \in 1 .. Len(Rest) : Rest[i] = todo[i + 1]
  BY <1>5, RestAt
<1>7. /\ \A i \in 1 .. Len(R) : R[i].op = "input" => InputGood(R[i]) /\ R[i].d = "kbd" /\ Repeats
      /\ playing /\ playing' => \E i \in 1 .. Len(R) : R[i].op = "play"
  <2>1. CASE R = todo /\ (todo # <<>> => Now.op # "input")
    <3>1. \A i \in 1 .. Len(R) : i = 1 \/ i \in 2 .. Len(todo)
      BY <1>4, <2>1
    <3>2. \A i \in 1 .. Len(R) : todo # <<>>
      BY <2>1, EmptySeq
    <3> QED BY <1>6, <2>1, <3>1, <3>2 DEF OrderInv
  <2>2. CASE todo # <<>> /\ R = Rest /\ (Now.op = "play" => ~playing')
    <3>1. \A i \in 1 .. Len(R) :
            i + 1 \in 2 .. Len(todo) /\ i + 1 \in 1 .. Len(todo) /\ R[i] = todo[i + 1]
      BY <1>6, <2>2
    <3>2. ASSUME playing, playing' PROVE \E i \in 1 .. Len(R) : R[i].op = "play"
      <4>1. PICK i \in 1 .. Len(todo) : todo[i].op = "play"
        BY <3>2 DEF OrderInv
      <4>2. i # 1
        BY <1>6, <2>2, <3>2, <4>1
      <4>3. i - 1 \in 1 .. Len(R) /\ (i - 1) + 1 = i
        BY <1>6, <2>2, <4>2
      <4> QED BY <3>1, <4>1, <4>3
    <3> QED BY <3>1, <3>2 DEF OrderInv
  <2> QED BY <2>1, <2>2
<1>8. \A i \in 1 .. Len(todo') :
        todo'[i].op = "input" => InputGood(todo'[i]) /\ todo'[i].d = "kbd" /\ Repeats'
  <2>1. ASSUME NEW i \in 1 .. Len(todo'), todo'[i].op = "input"
        PROVE  InputGood(todo'[i]) /\ todo'[i].d = "kbd" /\ Repeats'
    <3>1. i \notin 1 .. Len(fs)
      BY <1>2, <1>3, <2>1
    <3>2. i - Len(fs) \in 1 .. Len(R) /\ Len(fs) + (i - Len(fs)) = i
      BY <1>3, <1>4, <3>1
    <3> QED BY <1>3, <1>7, <2>1, <3>2
  <2> QED BY <2>1
<1>9. playing' => \E i \in 1 .. Len(todo') : todo'[i].op = "play"
  <2>1. \A i \in 1 .. Len(fs) : i \in 1 .. Len(todo') /\ todo'[i] = fs[i]
    BY <1>3, <1>4
  <2>2. \A i \in 1 .. Len(R) : Len(fs) + i \in 1 .. Len(todo') /\ todo'[Len(fs) + i] = R[i]
    BY <1>3, <1>4
  <2> QED BY <1>1, <1>7, <2>1, <2>2
<1> QED BY <1>3, <1>8, <1>9 DEF QuietStack, LowGood, InputGood

Unnumbered == UNCHANGED <<pending, done, owed, keyLost, down, hwDown, serial>>

LEMMA QuietStep ==
  ASSUME CoreInv, OrderInv, ~InFlight, Unnumbered,
         NEW R \in Seq(Frames), Pushes(QuietFrames, R),
         R = todo \/ (todo # <<>> /\ R = Rest /\ (Now.op = "play" => ~playing'))
  PROVE  OrderInv'
<1>1. todo # <<>> => Now.op # "input"
  BY DEF InFlight
<1>2. todo' \in Seq(Frames) /\ QuietStack'
  BY <1>1, QuietPush DEF Unnumbered, Repeats, Orderly
<1> QED BY <1>2, QuietKeeps DEF Unnumbered

LEMMA QuietPop ==
  ASSUME CoreInv, OrderInv, Unnumbered, todo # <<>>, Now.op \notin {"input", "play"},
         todo' = Rest, UNCHANGED playing
  PROVE  OrderInv'
<1>1. Rest \in Seq(Frames)
  BY NowType, CoreInvParts
<1>2. Pushes(QuietFrames, Rest) /\ ~InFlight
  BY <1>1, PushesNothing DEF InFlight
<1> QED BY <1>1, <1>2, QuietStep

(* The procedures that are shared: what they push.                           *)
LEMMA FreezesQuiet ==
  ASSUME NEW s, NEW R \in Seq(Frames), ComputeFreezes(s, <<>>, R)
  PROVE  Pushes(QuietFrames, R)
BY FreezesPush, QuietType, EmptySeq

LEMMA ActivatePassiveQuiet ==
  ASSUME NEW d \in Devices, NEW e \in Events, NEW w \in Windows, NEW live \in BOOLEAN,
         Rest \in Seq(Frames), ActivatePassive(d, e, w, live)
  PROVE  Pushes(QuietFrames, Rest)
<1> DEFINE f == Frame("hold", e, d, w, None, live)
<1>1. f \in QuietFrames /\ f \in Frames
  BY QuietType DEF Ops
<1>2. \E s : ComputeFreezes(s, <<>>, <<f>> \o Rest)
  BY DEF ActivatePassive
<1> HIDE DEF f
<1>3. <<f>> \o Rest \in Seq(Frames)
  BY <1>1, PushType
<1>4. Pushes(QuietFrames, <<f>> \o Rest)
  BY <1>2, <1>3, FreezesQuiet
<1> QED BY <1>1, <1>4, QuietType, PushesBelow

LEMMA DeliverUngrabbedQuiet ==
  ASSUME NEW e, NEW trace, Rest \in Seq(Frames), DeliverUngrabbed(e, trace)
  PROVE  Pushes(QuietFrames, Rest)
<1>1. \/ UNCHANGED playing /\ todo' = Rest
      \/ \E s : ComputeFreezes(s, <<>>, Rest)
  BY DEF DeliverUngrabbed
<1> QED BY <1>1, PushesNothing, FreezesQuiet

LEMMA HoldReplayStopOrder ==
  ASSUME CoreInv, OrderInv, HoldEvent \/ Replay \/ StopPlaying
  PROVE  OrderInv'
<1>1. todo \in Seq(Frames) /\ Unnumbered
  BY CoreInvParts DEF HoldEvent, Replay, StopPlaying, device, hardware, Unnumbered
<1>2. CASE HoldEvent
  BY <1>1, <1>2, QuietPop DEF HoldEvent, Doing, Now
<1>3. CASE Replay
  <2>1. /\ Now.e \in Events /\ Now.d \in Devices /\ Rest \in Seq(Frames)
        /\ todo # <<>> /\ Now.op = "replay"
    BY <1>1, <1>3, NowType DEF Replay, Doing, Now
  <2>2. Pushes(QuietFrames, Rest)
    <3>1. \/ \E w \in Windows : ActivatePassive(Now.d, Now.e, w, FALSE)
          \/ \E e, trace : DeliverUngrabbed(e, trace)
      BY <1>3 DEF Replay
    <3> QED BY <2>1, <3>1, ActivatePassiveQuiet, DeliverUngrabbedQuiet
  <2> QED BY <1>1, <2>1, <2>2, QuietStep DEF InFlight
<1>4. CASE StopPlaying
  <2>1. todo # <<>> /\ Now.op = "play" /\ Rest \in Seq(Frames) /\ todo' = Rest /\ playing' = FALSE
    BY <1>1, <1>4, NowType DEF StopPlaying, Doing, Now
  <2>2. Pushes(QuietFrames, Rest)
    <3>1. <<>> \in Seq(QuietFrames) /\ <<>> \o Rest = Rest
      BY <2>1, EmptySeq, ConcatEmptySeq
    <3> QED BY <2>1, <3>1 DEF Pushes
  <2> QED BY <1>1, <2>1, <2>2, QuietStep DEF InFlight
<1> QED BY <1>2, <1>3, <1>4

LEMMA RequestsOrder ==
  ASSUME CoreInv, OrderInv, Requests
  PROVE  OrderInv'
<1>1. <<>> \in Seq(Frames) /\ <<>> \in Seq(QuietFrames) /\ sync \in SyncType
  BY EmptySeq, CoreInvParts
<1>2. ASSUME NEW c, Request(c), Pushes(QuietFrames, <<>>)
      PROVE  OrderInv'
  <2>1. todo = <<>> /\ Unnumbered
    BY <1>2 DEF Request, Idle, device, hardware, Unnumbered
  <2> QED BY <1>1, <1>2, <2>1, QuietStep DEF InFlight
<1>3. PICK c \in Clients, d \in Devices :
        \/ \E w \in Windows, this, other \in BOOLEAN : GrabDevice(c, d, w, this, other)
        \/ UngrabDevice(c, d)
        \/ \E w \in Windows, this, other \in BOOLEAN : GrabPassively(c, d, w, this, other)
        \/ \E w \in Windows : UngrabPassively(c, d, w)
        \/ \E mode \in Modes : AllowSome(c, d, mode)
  BY DEF Requests
<1>4. CASE \E w \in Windows, this, other \in BOOLEAN : GrabDevice(c, d, w, this, other)
  <2>1. Request(c) /\ \E s : ComputeFreezes(s, <<>>, <<>>)
    BY <1>4 DEF GrabDevice
  <2> QED BY <1>1, <1>2, <2>1, FreezesQuiet
<1>5. CASE UngrabDevice(c, d)
  BY <1>1, <1>2, <1>5, FreezesQuiet DEF UngrabDevice
<1>6. CASE \/ \E w \in Windows, this, other \in BOOLEAN : GrabPassively(c, d, w, this, other)
           \/ \E w \in Windows : UngrabPassively(c, d, w)
  <2>1. Request(c) /\ todo' = <<>> /\ UNCHANGED playing
    BY <1>6 DEF GrabPassively, UngrabPassively, Request, Idle
  <2> QED BY <1>1, <1>2, <2>1, PushesNothing
<1>7. ASSUME NEW mode \in Modes, AllowSome(c, d, mode)
      PROVE  OrderInv'
  <2> DEFINE f == Frame("replay", sync[d].event, d, sync[d].grab.win, None, FALSE)
             replay == IF mode = "Replay" THEN <<f>> ELSE <<>>
  <2>1. replay \in Seq(QuietFrames)
    <3>1. CASE mode = "Replay"
      <4>1. sync[d].grab # NoGrab
        BY <1>7, <3>1 DEF AllowSome, Applies, ThisGrabbed, GrabbedBy
      <4>2. sync[d].event \in Events /\ sync[d].grab.win \in Windows
        BY <1>1, <4>1 DEF SyncType, Syncs, ActiveGrabs
      <4>3. f \in QuietFrames
        BY <4>2, QuietType DEF Ops
      <4> HIDE DEF f
      <4>4. <<f>> \in Seq(QuietFrames)
        BY <4>3
      <4> QED BY <3>1, <4>4, Zenon
    <3>2. CASE mode # "Replay"
      BY <1>1, <3>2
    <3> QED BY <3>1, <3>2
  <2>2. ComputeFreezes(Allowed(c, d, mode), replay, <<>>) /\ Request(c)
    BY <1>7 DEF AllowSome
  <2> HIDE DEF replay
  <2>3. Pushes(QuietFrames, <<>>)
    BY <1>1, <2>1, <2>2, FreezesPush, QuietType
  <2> QED BY <1>2, <2>2, <2>3
<1> QED BY <1>3, <1>4, <1>5, <1>6, <1>7

LEMMA QuietWindowFrame ==
  ASSUME NEW op \in Ops \ {"input"}, NEW d \in Devices, NEW w \in Windows
  PROVE  WindowFrame(op, d, w) \in QuietFrames
BY QuietType, NoEventType DEF WindowFrame

LEMMA QuietClientFrame ==
  ASSUME NEW op \in Ops \ {"input"}, NEW c \in Clients \cup {None}
  PROVE  ClientFrame(op, c) \in QuietFrames
BY QuietType, NoEventType DEF ClientFrame, Devices

LEMMA UnmapFramesQuiet ==
  ASSUME NEW w \in Windows
  PROVE  UnmapFrames(w) \in Seq(QuietFrames)
<1> DEFINE f == WindowFrame("unrealize", "ptr", w)
           g == WindowFrame("restructure", "ptr", w)
<1>1. f \in QuietFrames /\ g \in QuietFrames
  BY QuietWindowFrame DEF Ops, Devices
<1> HIDE DEF f, g
<1>2. <<f, g>> \in Seq(QuietFrames) /\ <<>> \in Seq(QuietFrames)
  BY <1>1
<1>3. UnmapFrames(w) = IF Realized(w) THEN <<f, g>> ELSE <<>>
  BY DEF UnmapFrames, f, g
<1> QED BY <1>2, <1>3

LEMMA DeleteFramesQuiet ==
  ASSUME NEW w \in Windows
  PROVE  DeleteFrames(w) \in Seq(QuietFrames)
<1> DEFINE f == WindowFrame("delete", "ptr", w)
           g == WindowFrame("delete", "kbd", w)
<1>1. f \in QuietFrames /\ g \in QuietFrames
  BY QuietWindowFrame DEF Ops, Devices
<1>2. DeleteFrames(w) = <<f, g>>
  BY DEF DeleteFrames
<1> HIDE DEF f, g
<1> QED BY <1>1, <1>2

(* Frames pushed in place of the one that is done, nothing else changed.     *)
LEMMA QuietFramesPush ==
  ASSUME NEW fs \in Seq(QuietFrames), NEW R \in Seq(Frames), todo' = fs \o R, UNCHANGED playing
  PROVE  Pushes(QuietFrames, R)
BY DEF Pushes

LEMMA DeleteWindowQuiet ==
  ASSUME NEW w \in Windows, NEW R \in Seq(Frames), DeleteWindow(w, R), UNCHANGED playing
  PROVE  Pushes(QuietFrames, R)
<1> DEFINE f == WindowFrame("crush", "ptr", w)
           U == UnmapFrames(w)
<1>1. f \in QuietFrames /\ U \in Seq(QuietFrames)
  BY QuietWindowFrame, UnmapFramesQuiet DEF Ops, Devices
<1>2. todo' = (U \o <<f>>) \o R
  BY DEF DeleteWindow
<1> HIDE DEF f, U
<1>3. <<f>> \in Seq(QuietFrames)
  BY <1>1
<1>4. U \o <<f>> \in Seq(QuietFrames)
  BY <1>1, <1>3, ConcatProperties
<1> QED BY <1>2, <1>4, QuietFramesPush

LEMMA WindowOpsOrder ==
  ASSUME CoreInv, OrderInv, WindowOps
  PROVE  OrderInv'
<1>1. <<>> \in Seq(Frames) /\ <<>> \in Seq(QuietFrames) /\ todo \in Seq(Frames)
  BY EmptySeq, CoreInvParts
<1>e. \A fs \in Seq(QuietFrames) : fs \o <<>> = fs
  BY ConcatEmptySeq
<1>2. ASSUME NEW c, Request(c), Pushes(QuietFrames, <<>>)
      PROVE  OrderInv'
  <2>1. todo = <<>> /\ Unnumbered
    BY <1>2 DEF Request, Idle, device, hardware, Unnumbered
  <2> QED BY <1>1, <1>2, <2>1, QuietStep DEF InFlight
<1>3. ASSUME NEW c \in Clients, NEW w \in Windows, MapWindow(c, w) PROVE OrderInv'
  <2> DEFINE f == WindowFrame("restructure", "ptr", w)
             fs == IF Realized(w - 1) THEN <<f>> ELSE <<>>
  <2>1. f \in QuietFrames
    BY QuietWindowFrame DEF Ops, Devices
  <2>2. todo' = fs /\ UNCHANGED playing /\ Request(c)
    BY <1>3 DEF MapWindow
  <2> HIDE DEF f
  <2>3. fs \in Seq(QuietFrames)
    BY <1>1, <2>1
  <2> HIDE DEF fs
  <2>4. todo' = fs \o <<>>
    BY <1>e, <2>2, <2>3
  <2> QED BY <1>1, <1>2, <2>2, <2>3, <2>4, QuietFramesPush
<1>4. ASSUME NEW c \in Clients, NEW w \in Windows, UnmapWindow(c, w) PROVE OrderInv'
  <2>1. UnmapFrames(w) \in Seq(QuietFrames)
    BY UnmapFramesQuiet
  <2>2. todo' = UnmapFrames(w) \o <<>> /\ UNCHANGED playing /\ Request(c)
    BY <1>4, <1>e, <2>1 DEF UnmapWindow
  <2> QED BY <1>1, <1>2, <2>1, <2>2, QuietFramesPush
<1>5. ASSUME NEW c \in Clients, NEW w \in Windows, DestroyWindow(c, w) PROVE OrderInv'
  BY <1>1, <1>2, <1>5, DeleteWindowQuiet DEF DestroyWindow
<1>6. ASSUME NEW fs \in Seq(QuietFrames), todo # <<>>, Now.op \notin {"input", "play"},
             todo' = fs \o Rest, WindowStepUnchanged
      PROVE  OrderInv'
  <2>1. Rest \in Seq(Frames) /\ Unnumbered /\ UNCHANGED playing
    BY <1>1, <1>6, NowType DEF WindowStepUnchanged, device, hardware, Unnumbered
  <2> QED BY <1>6, <2>1, QuietFramesPush, QuietStep DEF InFlight
<1>7. ASSUME UnrealizeTree PROVE OrderInv'
  <2> DEFINE child == Now.w + 1
             next == IF child \in exists /\ mapped[child]
                       THEN <<WindowFrame("unrealize", "ptr", child)>> ELSE <<>>
  <2>1. todo # <<>> /\ Now.op = "unrealize" /\ Now.w \in Windows
    BY <1>1, <1>7, NowType DEF UnrealizeTree, Doing, Now
  <2>2. next \in Seq(QuietFrames)
    <3>1. child \in exists => WindowFrame("unrealize", "ptr", child) \in QuietFrames
      BY QuietWindowFrame, CoreInvParts DEF OthersType, Ops, Devices
    <3> QED BY <1>1, <3>1
  <2>3. todo' = (DeleteFrames(Now.w) \o next) \o Rest
    BY <1>7 DEF UnrealizeTree
  <2> HIDE DEF next
  <2>4. DeleteFrames(Now.w) \o next \in Seq(QuietFrames)
    BY <2>1, <2>2, DeleteFramesQuiet, ConcatProperties
  <2> QED BY <1>6, <1>7, <2>1, <2>3, <2>4 DEF UnrealizeTree
<1>8. ASSUME CrushTree PROVE OrderInv'
  <2> DEFINE child == Now.w + 1
             next == IF child \in exists THEN <<WindowFrame("crush", "ptr", child)>> ELSE <<>>
             vanish == <<WindowFrame("vanish", "ptr", Now.w)>>
  <2>1. todo # <<>> /\ Now.op = "crush" /\ Now.w \in Windows
    BY <1>1, <1>8, NowType DEF CrushTree, Doing, Now
  <2>2. next \in Seq(QuietFrames)
    <3>1. child \in exists => WindowFrame("crush", "ptr", child) \in QuietFrames
      BY QuietWindowFrame, CoreInvParts DEF OthersType, Ops, Devices
    <3> QED BY <1>1, <3>1
  <2>3. vanish \in Seq(QuietFrames)
    <3>1. WindowFrame("vanish", "ptr", Now.w) \in QuietFrames
      BY <2>1, QuietWindowFrame DEF Ops, Devices
    <3> QED BY <3>1
  <2>4. todo' = ((next \o DeleteFrames(Now.w)) \o vanish) \o Rest
    BY <1>8 DEF CrushTree
  <2> HIDE DEF next, vanish
  <2>5. (next \o DeleteFrames(Now.w)) \in Seq(QuietFrames)
    BY <2>1, <2>2, DeleteFramesQuiet, ConcatProperties
  <2>6. (next \o DeleteFrames(Now.w)) \o vanish \in Seq(QuietFrames)
    BY <2>3, <2>5, ConcatProperties
  <2> QED BY <1>6, <1>8, <2>1, <2>4, <2>6 DEF CrushTree
<1>9. ASSUME Vanish \/ WindowsRestructured PROVE OrderInv'
  <2>1. /\ todo # <<>> /\ Now.op \notin {"input", "play"}
        /\ todo' = Rest /\ UNCHANGED playing /\ Unnumbered
    BY <1>9 DEF Vanish, WindowsRestructured, Doing, Now, device, hardware, Unnumbered
  <2> QED BY <2>1, QuietPop
<1>10. ASSUME DeleteFromDevice PROVE OrderInv'
  <2>1. todo # <<>> /\ Now.op = "delete" /\ Unnumbered /\ Rest \in Seq(Frames)
    BY <1>1, <1>10, NowType DEF DeleteFromDevice, Doing, Now, device, hardware, Unnumbered
  <2>2. \/ \E s : ComputeFreezes(s, <<>>, Rest)
        \/ todo' = Rest /\ UNCHANGED playing
    BY <1>10 DEF DeleteFromDevice
  <2> QED BY <2>1, <2>2, FreezesQuiet, PushesNothing, QuietStep DEF InFlight
<1> QED BY <1>3, <1>4, <1>5, <1>7, <1>8, <1>9, <1>10 DEF WindowOps

LEMMA ClientOpsOrder ==
  ASSUME CoreInv, OrderInv, ClientOps
  PROVE  OrderInv'
<1>1. <<>> \in Seq(Frames) /\ todo \in Seq(Frames)
  BY EmptySeq, CoreInvParts
<1>2. ASSUME Idle, NEW fs \in Seq(QuietFrames), todo' = fs, UNCHANGED playing, ClientUnchanged
      PROVE  OrderInv'
  <2>1. todo = <<>> /\ Unnumbered /\ todo' = fs \o <<>>
    BY <1>2, ConcatEmptySeq DEF Idle, ClientUnchanged, device, hardware, Unnumbered
  <2> QED BY <1>1, <1>2, <2>1, QuietFramesPush, QuietStep DEF InFlight
<1>3. ASSUME NEW c \in Clients, NEW keep \in BOOLEAN, CloseDownClient(c, keep)
      PROVE  OrderInv'
  <2> DEFINE f == ClientFrame("release", c)
             g == ClientFrame(IF keep THEN "retain" ELSE "gone", c)
  <2>1. f \in QuietFrames /\ g \in QuietFrames
    BY QuietClientFrame DEF Ops
  <2>2. todo' = <<f, g>>
    BY <1>3 DEF CloseDownClient
  <2> HIDE DEF f, g
  <2>3. <<f, g>> \in Seq(QuietFrames)
    BY <2>1
  <2> QED BY <1>2, <1>3, <2>2, <2>3 DEF CloseDownClient, Request, ClientUnchanged
<1>4. ASSUME NEW c \in Clients, CloseDownRetained(c) PROVE OrderInv'
  <2> DEFINE f == ClientFrame("free", c)
  <2>1. f \in QuietFrames
    BY QuietClientFrame DEF Ops
  <2>2. todo' = <<f>>
    BY <1>4 DEF CloseDownRetained
  <2> HIDE DEF f
  <2>3. <<f>> \in Seq(QuietFrames)
    BY <2>1
  <2> QED BY <1>2, <1>4, <2>2, <2>3 DEF CloseDownRetained
<1>5. ASSUME ReleaseActiveGrabs PROVE OrderInv'
  <2>1. todo # <<>> /\ Now.op = "release" /\ Unnumbered /\ Rest \in Seq(Frames)
    BY <1>1, <1>5, NowType
    DEF ReleaseActiveGrabs, Doing, Now, ClientUnchanged, device, hardware, Unnumbered
  <2>2. \/ \E s : ComputeFreezes(s, <<>>, todo)
        \/ todo' = Rest /\ UNCHANGED playing
    BY <1>5 DEF ReleaseActiveGrabs
  <2> QED BY <1>1, <2>1, <2>2, FreezesQuiet, PushesNothing, QuietStep DEF InFlight
<1>6. ASSUME RetainClient PROVE OrderInv'
  <2>1. /\ todo # <<>> /\ Now.op = "retain" /\ Unnumbered /\ todo' = Rest /\ UNCHANGED playing
    BY <1>6 DEF RetainClient, Doing, Now, ClientUnchanged, device, hardware, Unnumbered
  <2> QED BY <2>1, QuietPop
<1>7. ASSUME ClientGone PROVE OrderInv'
  <2> DEFINE f == ClientFrame("free", Now.c)
  <2>1. /\ todo # <<>> /\ Now.op = "gone" /\ Unnumbered /\ Rest \in Seq(Frames)
        /\ Now.c \in Clients \cup {None} /\ UNCHANGED playing
    BY <1>1, <1>7, NowType DEF ClientGone, Doing, Now, ClientUnchanged, device, hardware, Unnumbered
  <2>2. f \in QuietFrames
    BY <2>1, QuietClientFrame DEF Ops
  <2>3. todo' = <<f>> \o Rest
    BY <1>7 DEF ClientGone
  <2> HIDE DEF f
  <2>4. <<f>> \in Seq(QuietFrames)
    BY <2>2
  <2> QED BY <2>1, <2>3, <2>4, QuietFramesPush, QuietStep DEF InFlight
<1>8. ASSUME FreeClientResource PROVE OrderInv'
  <2>1. /\ todo # <<>> /\ Now.op = "free" /\ Unnumbered /\ Rest \in Seq(Frames)
        /\ UNCHANGED playing /\ exists \subseteq Windows
    BY <1>1, <1>8, NowType, CoreInvParts
    DEF FreeClientResource, Doing, Now, ClientUnchanged, device, hardware, Unnumbered, OthersType
  <2>2. \/ todo' = todo
        \/ \E w \in Windows : DeleteWindow(w, todo)
        \/ todo' = Rest
    BY <1>8, <2>1 DEF FreeClientResource
  <2> QED BY <1>1, <2>1, <2>2, PushesNothing, DeleteWindowQuiet, QuietStep DEF InFlight
<1> QED BY <1>3, <1>4, <1>5, <1>6, <1>7, <1>8 DEF ClientOps

-----------------------------------------------------------------------------
(* Events that go up and down in turn: the first is taken, one more comes.   *)
LEMMA AlternatesRest ==
  ASSUME NEW E \in SUBSET Events, NEW e \in E, NEW a \in BOOLEAN, NEW b \in BOOLEAN,
         Alternates(E, a, b), NEW F \in SUBSET Events, F = E \ {e}, \A f \in F : e.id < f.id,
         NEW p \in BOOLEAN, p <=> e.type = "press"
  PROVE  Alternates(F, p, b) /\ (e.type = "press" <=> ~a)
<1>1. \A f \in E : f.id \in Int
  BY GrabsAssumption DEF Events
<1>2. \A f \in E : e.id <= f.id /\ (f \in F \/ f = e)
  BY <1>1
<1>3. F = {} => (p <=> b)
  <2>1. F = {} => \A f \in E : f.id <= e.id
    BY <1>1
  <2> QED BY <2>1 DEF Alternates
<1>4. ASSUME NEW f \in F, \A g \in F : f.id <= g.id PROVE f.type = "press" <=> ~p
  <2>1. \A g \in E : g.id <= e.id \/ f.id <= g.id
    BY <1>1, <1>2, <1>4
  <2> QED BY <2>1 DEF Alternates
<1>5. ASSUME NEW f \in F, \A g \in F : g.id <= f.id PROVE f.type = "press" <=> b
  <2>1. \A g \in E : g.id <= f.id
    BY <1>1, <1>5
  <2> QED BY <2>1 DEF Alternates
<1>6. ASSUME NEW f \in F, NEW h \in F, f.id < h.id, \A g \in F : g.id <= f.id \/ h.id <= g.id
      PROVE  f.type = "press" <=> h.type # "press"
  <2>1. \A g \in E : g.id <= f.id \/ h.id <= g.id
    BY <1>1, <1>6
  <2> QED BY <1>6, <2>1 DEF Alternates
<1>7. e.type = "press" <=> ~a
  BY <1>2 DEF Alternates
<1>8. \A f, h \in F : f.id = h.id => f = h
  BY DEF Alternates
<1> QED BY <1>3, <1>4, <1>5, <1>6, <1>7, <1>8 DEF Alternates

LEMMA AlternatesMore ==
  ASSUME NEW E \in SUBSET Events, NEW e \in Events, NEW a \in BOOLEAN, NEW b \in BOOLEAN,
         Alternates(E, a, b), NEW F \in SUBSET Events, F = E \cup {e}, \A f \in E : f.id < e.id,
         NEW p \in BOOLEAN, p <=> e.type = "press", e.type = "press" <=> ~b
  PROVE  Alternates(F, a, p)
<1>1. \A f \in F : f.id \in Int /\ (f \in E \/ f = e)
  BY GrabsAssumption DEF Events
<1>2. F # {} /\ e \in F /\ E \subseteq F
  OBVIOUS
<1>3. ASSUME NEW f \in F, \A g \in F : f.id <= g.id PROVE f.type = "press" <=> ~a
  <2>1. CASE E = {}
    BY <1>1, <2>1 DEF Alternates
  <2>2. CASE E # {}
    <3>1. f \in E /\ \A g \in E : f.id <= g.id
      BY <1>1, <1>3, <2>2
    <3> QED BY <3>1 DEF Alternates
  <2> QED BY <2>1, <2>2
<1>4. ASSUME NEW f \in F, \A g \in F : g.id <= f.id PROVE f.type = "press" <=> p
  BY <1>1, <1>2, <1>4
<1>5. ASSUME NEW f \in F, NEW h \in F, f.id < h.id, \A g \in F : g.id <= f.id \/ h.id <= g.id
      PROVE  f.type = "press" <=> h.type # "press"
  <2>1. f \in E
    BY <1>1, <1>5
  <2>2. CASE h \in E
    BY <1>5, <2>1, <2>2 DEF Alternates
  <2>3. CASE h = e
    <3>1. \A g \in E : g.id <= f.id
      BY <1>1, <1>5, <2>3
    <3> QED BY <2>1, <2>3, <3>1 DEF Alternates
  <2> QED BY <1>1, <2>2, <2>3
<1>6. \A f, h \in F : f.id = h.id => f = h
  BY <1>1 DEF Alternates
<1> QED BY <1>2, <1>3, <1>4, <1>5, <1>6 DEF Alternates

(* What is known when an event is taken up.                                  *)
LEMMA ComingType ==
  ASSUME CoreInv, NEW d
  PROVE  Queued(d) \subseteq Events /\ (\A q \in Queued(d) : q.dev = d)
         /\ Coming(d) \subseteq Events
<1>1. Queued(d) \subseteq Events /\ \A q \in Queued(d) : q.dev = d
  BY PendingType DEF Queued
<1>2. InFlight => Now.e \in Events
  BY NowType, CoreInvParts DEF InFlight
<1> QED BY <1>1, <1>2 DEF Coming, Flying

LEMMA FlightFacts ==
  ASSUME CoreInv, OrderInv, InFlight
  PROVE  /\ Now.e \in Events /\ Now.d = Now.e.dev /\ Now.d \in Devices /\ Rest \in Seq(Frames)
         /\ Coming(Now.d) = Queued(Now.d) \cup {Now.e} /\ Flying(Now.d) = {Now.e}
         /\ \A d \in Devices : d # Now.d => Coming(d) = Queued(d)
         /\ Now.e.type = "motion" => Now.d = "ptr"
<1>1. Now.e \in Events /\ Now.d \in Devices /\ Rest \in Seq(Frames)
  BY NowType, CoreInvParts DEF InFlight
<1>2. InputGood(Now)
  <2>1. todo \in Seq(Frames) /\ todo # <<>>
    BY CoreInvParts DEF InFlight
  <2>2. Now = todo[1] /\ Len(todo) \in Nat \ {0}
    BY <2>1, RestAt
  <2>3. 1 \in 1 .. Len(todo)
    BY <2>2
  <2> QED BY <2>2, <2>3 DEF OrderInv, InFlight
<1> QED BY <1>1, <1>2 DEF Coming, Flying, InputGood

(* What stays for a device when the event in flight, of another device, is   *)
(* done.                                                                     *)
LEMMA OtherKept ==
  ASSUME NEW o \in Devices, Ordered(o), Flying(o) = {}, Flying(o)' = {}, Queued(o)' = Queued(o),
         QueueOrdered(o)', done'[o] = done[o], owed'[o] = owed[o], serial' = serial
  PROVE  Ordered(o)'
<1>1. Coming(o) = Queued(o) /\ Coming(o)' = Queued(o)
  BY DEF Coming
<1>2. Numbered(o)'
  BY <1>1 DEF Ordered, Numbered
<1>3. FlightOrdered(o)'
  BY DEF FlightOrdered
<1> QED BY <1>2, <1>3 DEF Ordered

(* An event that is processed is the first of its device.                    *)
LEMMA ProcessedOrder ==
  ASSUME CoreInv, OrderInv, InFlight, ~sync[Now.e.dev].frozen, Processed,
         UNCHANGED <<hardware, pending>>,
         down' = IF Now.e.type = "motion" THEN down
                 ELSE [down EXCEPT ![Now.d] = (Now.e.type = "press")],
         Pushes(QuietFrames, Rest)
  PROVE  OrderInv' /\ \A o \in Devices : Orderly(o) => done'[o] >= done[o]
<1>0. PICK e \in Events, d \in Devices : e = Now.e /\ d = Now.d /\ d = e.dev
  BY FlightFacts
<1>1. /\ Coming(d) = Queued(d) \cup {e} /\ Flying(d) = {e}
      /\ \A o \in Devices : o # d => Coming(o) = Queued(o) /\ Flying(o) = {}
      /\ Rest \in Seq(Frames) /\ (e.type = "motion" => d = "ptr")
  BY <1>0, FlightFacts DEF Flying
<1>l. keyLost' = keyLost /\ \A o : Orderly(o)' = Orderly(o)
  BY DEF Processed, Orderly
<1>2. todo' \in Seq(Frames) /\ QuietStack'
  <2>1. todo # <<>> /\ Now.op = "input"
    BY DEF InFlight
  <2> QED BY <1>1, <1>l, <2>1, QuietPush DEF Repeats
<1>3. \A o \in Devices : Orderly(o) => Flying(o)' = {} /\ Coming(o)' = Queued(o)
  <2>1. \A o \in Devices : Orderly(o) => Flying(o)' = {}
    BY <1>2, <1>l, QuietFlyingNext
  <2> QED BY <2>1 DEF Coming, Queued
<1>q. \A o : Queued(o)' = Queued(o)
  BY DEF Queued
<1>4. /\ done' = [done EXCEPT ![d] = e.id] /\ serial' = serial /\ hwDown' = hwDown
      /\ owed' = [owed EXCEPT ![d] = IF @ <= e.id THEN 0 ELSE @]
  BY <1>0 DEF Processed, hardware
<1>5. /\ done \in [Devices -> 0 .. MaxEvents] /\ owed \in [Devices -> 0 .. MaxEvents]
      /\ serial \in 0 .. MaxEvents /\ MaxEvents \in Nat
      /\ down \in [Devices -> BOOLEAN] /\ hwDown \in [Devices -> BOOLEAN]
  BY CoreInvParts, GrabsAssumption DEF OthersType
<1>6. /\ Coming(d) \subseteq Events /\ Queued(d) \subseteq Events
      /\ \A q \in Queued(d) : q.dev = d
  BY ComingType
<1>7. ASSUME Orderly(d) PROVE Ordered(d) /\ \A q \in Queued(d) : e.id < q.id
  <2>1. Ordered(d)
    BY <1>7 DEF OrderInv
  <2> QED BY <1>0, <1>1, <2>1 DEF Ordered, FlightOrdered
<1>8. \A x \in Events : x.id \in 0 .. MaxEvents
  BY DEF Events
<1>9. Orderly(d) => done[d] < e.id /\ e.id <= serial
  BY <1>1, <1>7 DEF Ordered, Numbered
<1>10. ASSUME Orderly(d) PROVE Ordered(d)'
  <2>1. done'[d] = e.id /\ serial' = serial /\ owed'[d] = IF owed[d] <= e.id THEN 0 ELSE owed[d]
    BY <1>4, <1>5
  <2>2. Coming(d)' = Queued(d) /\ Queued(d)' = Queued(d) /\ Flying(d)' = {}
    BY <1>3, <1>q, <1>10
  <2>3. \A q \in Queued(d) : e.id < q.id /\ q.id <= serial
    BY <1>1, <1>7, <1>10 DEF Ordered, Numbered
  <2>4. ASSUME owed'[d] # 0 PROVE \E q \in Queued(d) : q.id = owed'[d]
    <3>1. owed[d] # 0 /\ ~(owed[d] <= e.id) /\ owed'[d] = owed[d]
      BY <2>1, <2>4
    <3>2. PICK c \in Coming(d) : c.id = owed[d]
      BY <1>7, <1>10, <3>1 DEF Ordered, Numbered
    <3>3. c # e
      BY <1>8, <3>1, <3>2
    <3> QED BY <1>1, <3>1, <3>2, <3>3
  <2>5. Numbered(d)'
    BY <1>9, <1>10, <2>1, <2>2, <2>3, <2>4 DEF Numbered
  <2>6. QueueOrdered(d)'
    BY <1>7, <1>10 DEF Ordered, QueueOrdered
  <2> QED BY <2>2, <2>5, <2>6 DEF Ordered, FlightOrdered
<1>11. ASSUME NEW o \in Devices, o # d, Orderly(o)' PROVE Ordered(o)'
  <2>1. Ordered(o) /\ Flying(o) = {} /\ Flying(o)' = {} /\ Queued(o)' = Queued(o)
    BY <1>1, <1>3, <1>l, <1>q, <1>11 DEF OrderInv
  <2>2. done'[o] = done[o] /\ owed'[o] = owed[o]
    BY <1>4, <1>5, <1>11
  <2>3. QueueOrdered(o)'
    BY <2>1 DEF Ordered, QueueOrdered
  <2> QED BY <1>4, <2>1, <2>2, <2>3, OtherKept
<1>12. ASSUME ~Repeats' PROVE Alternates(Coming("kbd"), down["kbd"], hwDown["kbd"])'
  <2>k. "kbd" \in Devices /\ "ptr" # "kbd" /\ Orderly("kbd")
    BY <1>l, <1>12 DEF Devices, Repeats
  <2>1. Alternates(Coming("kbd"), down["kbd"], hwDown["kbd"])
    BY <2>k DEF OrderInv, Repeats
  <2>2. CASE d = "kbd"
    <3>1. e.type # "motion"
      BY <1>1, <2>k, <2>2
    <3>2. down' = [down EXCEPT ![d] = (e.type = "press")]
      BY <1>0, <3>1
    <3>3. down'[d] \in BOOLEAN /\ (down'[d] <=> e.type = "press")
      BY <1>5, <3>2
    <3>4. Queued(d) = Coming(d) \ {e} /\ e \in Coming(d)
      <4>1. e \notin Queued(d)
        BY <1>6, <1>7, <1>8, <2>k, <2>2
      <4> QED BY <1>1, <4>1
    <3>5. down[d] \in BOOLEAN /\ hwDown[d] \in BOOLEAN
      BY <1>5
    <3>6. PICK a \in BOOLEAN, b \in BOOLEAN, p \in BOOLEAN, E \in SUBSET Events, F \in SUBSET Events :
            /\ (a <=> down[d]) /\ (b <=> hwDown[d]) /\ (p <=> down'[d])
            /\ a = down[d] /\ b = hwDown[d] /\ p = down'[d]
            /\ E = Coming(d) /\ F = Queued(d)
      BY <1>6, <3>3, <3>5
    <3>7. Alternates(E, a, b)
      BY <2>1, <2>2, <3>6
    <3>8. Alternates(F, p, b)
      BY <1>7, <2>k, <2>2, <3>3, <3>4, <3>6, <3>7, AlternatesRest
    <3> QED BY <1>3, <1>4, <2>k, <2>2, <3>6, <3>8
  <2>3. CASE d # "kbd"
    <3>1. Coming("kbd")' = Coming("kbd")
      BY <1>1, <1>3, <2>k, <2>3
    <3>2. down'["kbd"] = down["kbd"]
      BY <1>0, <1>5, <2>k, <2>3
    <3> QED BY <1>4, <2>1, <3>1, <3>2
  <2> QED BY <2>2, <2>3
<1>13. \A i \in 1 .. Len(pending') : pending'[i].type = "motion" => pending'[i].dev = "ptr"
  BY DEF OrderInv
<1>14. \A i \in 2 .. Len(todo') : i \in 1 .. Len(todo')
  <2>1. Len(todo') \in Nat
    BY <1>2, LenProperties
  <2> QED BY <2>1
<1>15. \A o \in Devices : Orderly(o) => done'[o] >= done[o]
  BY <1>4, <1>5, <1>8, <1>9
<1>16. \A o \in Devices : Orderly(o)' => Ordered(o)'
  BY <1>10, <1>11, <1>l
<1> QED BY <1>2, <1>12, <1>13, <1>14, <1>15, <1>16 DEF OrderInv, QuietStack, LowGood, InputGood

(* A key that is pressed is up: no press is taken for a repeated one, when   *)
(* the driver repeats none and no event of a key has been lost.              *)
LEMMA NoRepeat ==
  ASSUME CoreInv, OrderInv, InFlight, ~sync[Now.e.dev].frozen, Now.d = "kbd", ~Repeats
  PROVE  Now.e.type = "press" <=> ~down["kbd"]
<1>0. PICK e \in Events : e = Now.e
  BY FlightFacts
<1>1. Coming("kbd") = Queued("kbd") \cup {e} /\ Coming("kbd") \subseteq Events
  BY <1>0, FlightFacts, ComingType
<1>2. \A q \in Queued("kbd") : e.id < q.id
  <2>1. "kbd" \in Devices /\ Orderly("kbd") /\ Now.e.dev = "kbd" /\ Flying("kbd") = {e}
    BY <1>0, FlightFacts DEF Repeats
  <2>2. FlightOrdered("kbd")
    BY <2>1 DEF OrderInv, Ordered
  <2> QED BY <2>1, <2>2 DEF FlightOrdered
<1>3. \A x \in Events : x.id \in Int
  BY GrabsAssumption DEF Events
<1>4. \A q \in Coming("kbd") : e.id <= q.id
  BY <1>1, <1>2, <1>3
<1>5. Alternates(Coming("kbd"), down["kbd"], hwDown["kbd"])
  BY DEF OrderInv
<1> QED BY <1>0, <1>1, <1>4, <1>5 DEF Alternates

(* A press that is taken for a repeated one leaves the pointer's events      *)
(* alone.                                                                    *)
LEMMA ProcessRepeatOrder ==
  ASSUME CoreInv, OrderInv, ProcessRepeat
  PROVE  OrderInv' /\ done' = done
<1>1. /\ InFlight /\ ~sync[Now.e.dev].frozen /\ Now.d = "kbd" /\ down["kbd"]
      /\ Now.e.type = "press"
      /\ UNCHANGED <<sync, playing, pending, device, hardware>>
  BY DEF ProcessRepeat, Process, Doing, InFlight, Now
<1>2. Repeats /\ Repeats'
  <2>1. Repeats
    BY <1>1, NoRepeat
  <2> QED BY <1>1, <2>1 DEF Repeats, Orderly, device
<1>3. /\ Now.e \in Events /\ Now.e.dev = "kbd" /\ Rest \in Seq(Frames)
      /\ \A d \in Devices : d # "kbd" => Flying(d) = {}
  BY <1>1, FlightFacts DEF Flying
<1>4. PICK r \in Events : r = [Now.e EXCEPT !.type = "release"]
  BY <1>3 DEF Events, EventTypes
<1>5. r.dev = "kbd" /\ r.type = "release"
  BY <1>3, <1>4 DEF Events
<1> DEFINE f == InputFrame(r)
           g == InputFrame(Now.e)
<1>6. f \in Frames /\ g \in Frames /\ f.e = r /\ g.e = Now.e /\ f.d = "kbd" /\ g.d = "kbd"
  BY <1>3, <1>5, InputFrameType DEF InputFrame, Frame
<1>7. todo' = <<f, g>> \o Rest
  BY <1>4 DEF ProcessRepeat
<1> HIDE DEF f, g
<1>8. InputGood(f) /\ InputGood(g)
  BY <1>1, <1>3, <1>5, <1>6 DEF InputGood
<1>9. <<f, g>> \in Seq(Frames) /\ Len(<<f, g>>) = 2 /\ <<f, g>>[1] = f /\ <<f, g>>[2] = g
  BY <1>6
<1>10. /\ todo' \in Seq(Frames) /\ Len(todo') = 2 + Len(Rest) /\ Len(Rest) \in Nat
       /\ todo'[1] = f /\ todo'[2] = g
       /\ \A i \in 1 .. Len(Rest) : todo'[2 + i] = Rest[i]
  <2>1. /\ todo' \in Seq(Frames) /\ Len(todo') = 2 + Len(Rest)
        /\ \A i \in 1 .. 2 : todo'[i] = <<f, g>>[i]
        /\ \A i \in 1 .. Len(Rest) : todo'[2 + i] = Rest[i]
    BY <1>3, <1>7, <1>9, ConcatAt
  <2> QED BY <1>3, <1>9, <2>1, LenProperties
<1>11. /\ Len(todo) \in Nat \ {0} /\ Len(Rest) = Len(todo) - 1 /\ Now = todo[1]
       /\ \A i \in 1 .. Len(Rest) : Rest[i] = todo[i + 1]
  <2>1. todo \in Seq(Frames) /\ todo # <<>>
    BY <1>1, CoreInvParts DEF InFlight
  <2> QED BY <2>1, RestAt
<1>12. \A i \in 1 .. Len(Rest) : Rest[i].op = "input" => InputGood(Rest[i]) /\ Rest[i].d = "kbd"
  <2>1. \A i \in 1 .. Len(Rest) : i + 1 \in 2 .. Len(todo) /\ i + 1 \in 1 .. Len(todo)
    BY <1>10, <1>11
  <2> QED BY <1>11, <2>1 DEF OrderInv
<1>13. \A i \in 1 .. Len(todo') : i = 1 \/ i = 2 \/ (i - 2 \in 1 .. Len(Rest) /\ 2 + (i - 2) = i)
  BY <1>10
<1>14. \A i \in 1 .. Len(todo') :
         todo'[i].op = "input" => InputGood(todo'[i]) /\ todo'[i].d = "kbd"
  BY <1>6, <1>8, <1>10, <1>12, <1>13
<1>15. playing' => \E i \in 1 .. Len(todo') : todo'[i].op = "play"
  <2> SUFFICES ASSUME playing PROVE \E i \in 1 .. Len(todo') : todo'[i].op = "play"
    BY <1>1
  <2>1. PICK i \in 1 .. Len(todo) : todo[i].op = "play"
    BY DEF OrderInv
  <2>2. i # 1
    BY <1>1, <1>11, <2>1 DEF InFlight
  <2>3. i - 1 \in 1 .. Len(Rest) /\ Rest[i - 1] = todo[i]
    BY <1>11, <2>2
  <2>4. 2 + (i - 1) \in 1 .. Len(todo') /\ todo'[2 + (i - 1)] = Rest[i - 1]
    BY <1>10, <2>3
  <2> QED BY <2>1, <2>3, <2>4
<1>16. QuietStack'
  BY <1>2, <1>14, <1>15 DEF QuietStack, LowGood, InputGood
<1>17. ASSUME NEW o \in Devices, Orderly(o)' PROVE Ordered(o)'
  <2>1. o # "kbd" /\ Orderly(o)
    BY <1>2, <1>17 DEF Repeats, Orderly
  <2>2. /\ Ordered(o) /\ Flying(o) = {} /\ Flying(o)' = {} /\ Queued(o)' = Queued(o)
        /\ done' = done /\ owed' = owed /\ serial' = serial
    BY <1>1, <1>3, <1>10, <1>16, <1>17, <2>1, QuietFlyingNext
    DEF OrderInv, Queued, device, hardware
  <2>3. QueueOrdered(o)'
    BY <1>1, <2>2 DEF Ordered, QueueOrdered
  <2> QED BY <2>2, <2>3, OtherKept
<1>18. \A i \in 1 .. Len(pending') : pending'[i].type = "motion" => pending'[i].dev = "ptr"
  BY <1>1 DEF OrderInv
<1>19. \A i \in 2 .. Len(todo') : i \in 1 .. Len(todo')
  BY <1>10
<1> QED BY <1>1, <1>2, <1>14, <1>15, <1>17, <1>18, <1>19 DEF OrderInv, device, InputGood

(* A frozen device's event goes behind those that are queued, or is lost.    *)
LEMMA EnqueueOrder ==
  ASSUME CoreInv, OrderInv, EnqueueEvent
  PROVE  OrderInv'
<1> DEFINE n == Len(pending)
<1>a. InFlight /\ todo' = Rest /\ sync[Now.e.dev].frozen
      /\ UNCHANGED <<sync, down, done, hardware, playing>>
  BY DEF EnqueueEvent, Doing, InFlight, Now
<1>0. PICK e \in Events, d \in Devices : e = Now.e /\ d = Now.d /\ d = e.dev
  BY <1>a, FlightFacts
<1>1. /\ Coming(d) = Queued(d) \cup {e} /\ Flying(d) = {e}
      /\ \A o \in Devices : o # d => Coming(o) = Queued(o) /\ Flying(o) = {}
      /\ Rest \in Seq(Frames) /\ (e.type = "motion" => d = "ptr")
  BY <1>0, <1>a, FlightFacts DEF Flying
<1>b. \/ n > 0 /\ Compresses(pending[n], e) /\ KeptAs([pending EXCEPT ![n] = e])
      \/ KeptAs(Append(pending, e))
      \/ LostForWantOfMemory
  BY <1>0 DEF EnqueueEvent
<1>l. keyLost \in BOOLEAN /\ (keyLost => keyLost')
  BY <1>b, CoreInvParts DEF OthersType, KeptAs, LostForWantOfMemory
<1>m. (\A o : Orderly(o)' => Orderly(o)) /\ (Repeats => Repeats')
  BY <1>l DEF Orderly, Repeats
<1>2. todo' \in Seq(Frames) /\ QuietStack'
  <2>1. todo # <<>> /\ Now.op = "input" /\ Pushes(QuietFrames, Rest)
    BY <1>1, <1>a, PushesNothing DEF InFlight
  <2> QED BY <1>1, <1>m, <2>1, QuietPush
<1>3. \A o \in Devices : Orderly(o)' => Flying(o)' = {} /\ Coming(o)' = Queued(o)'
  <2>1. \A o \in Devices : Orderly(o)' => Flying(o)' = {}
    BY <1>2, QuietFlyingNext
  <2> QED BY <2>1 DEF Coming
<1>4. pending \in Seq(Events) /\ n \in Nat /\ \A i \in 1 .. n : pending[i] \in Events
  BY CoreInvParts, LenProperties, ElementOfSeq
<1>5. \A x \in Events : x.id \in 0 .. MaxEvents /\ x.dev \in Devices
  BY DEF Events
<1>6. MaxEvents \in Nat
  BY GrabsAssumption
<1>7. ASSUME Orderly(d) PROVE Ordered(d) /\ \A q \in Queued(d) : q.id < e.id
  <2>1. Ordered(d)
    BY <1>7 DEF OrderInv
  <2> QED BY <1>0, <1>1, <1>a, <2>1 DEF Ordered, FlightOrdered
<1>8. /\ owed \in [Devices -> 0 .. MaxEvents]
      /\ sync' = sync /\ done' = done /\ serial' = serial /\ down' = down /\ hwDown' = hwDown
  BY <1>a, CoreInvParts DEF OthersType, hardware
(* What is the same of the other device's part of the queue ...              *)
<1>9. ASSUME \/ pending' = pending
             \/ pending' = Append(pending, e)
             \/ d = "ptr" /\ n > 0 /\ pending[n].dev = d /\ pending' = [pending EXCEPT ![n] = e],
             NEW o \in Devices, o # d, Ordered(o)
      PROVE  Queued(o)' = Queued(o) /\ QueueOrdered(o)'
  <2>1. CASE pending' = pending
    BY <1>9, <2>1 DEF Queued, Ordered, QueueOrdered
  <2>2. CASE pending' = Append(pending, e)
    <3>1. /\ Len(pending') = n + 1 /\ pending'[n + 1] = e
          /\ \A i \in 1 .. n : pending'[i] = pending[i]
      BY <1>4, <2>2, AppendProperties
    <3>2. n + 1 \in 1 .. Len(pending') /\ \A i \in 1 .. Len(pending') : i \in 1 .. n \/ i = n + 1
      BY <1>4, <3>1
    <3>3. \A i \in 1 .. n : i \in 1 .. Len(pending')
      BY <1>4, <3>1
    <3>4. Queued(o)' = Queued(o)
      BY <1>0, <1>9, <3>1, <3>2, <3>3 DEF Queued
    <3>5. QueueOrdered(o)'
      BY <1>0, <1>9, <3>1, <3>2 DEF Ordered, QueueOrdered
    <3> QED BY <3>4, <3>5
  <2>3. CASE n > 0 /\ pending[n].dev = d /\ pending' = [pending EXCEPT ![n] = e]
    <3>1. /\ Len(pending') = n /\ pending'[n] = e
          /\ \A i \in 1 .. n : i # n => pending'[i] = pending[i]
      BY <1>0, <1>4, <2>3, ExceptSeq
    <3>2. \A i \in 1 .. n : pending[i].dev = o \/ pending'[i].dev = o => i # n
      BY <1>0, <1>9, <2>3, <3>1
    <3>3. Queued(o)' = Queued(o)
      BY <3>1, <3>2 DEF Queued
    <3>4. QueueOrdered(o)'
      BY <1>9, <3>1, <3>2 DEF Ordered, QueueOrdered
    <3> QED BY <3>3, <3>4
  <2> QED BY <1>9, <2>1, <2>2, <2>3
<1>10. ASSUME NEW o \in Devices, o # d, Orderly(o)', Queued(o)' = Queued(o), QueueOrdered(o)',
              owed'[o] = owed[o], Ordered(o)
       PROVE  Ordered(o)'
  <2>1. Flying(o) = {} /\ Flying(o)' = {} /\ done'[o] = done[o]
    BY <1>1, <1>3, <1>8, <1>10
  <2> QED BY <1>8, <1>10, <2>1, OtherKept
<1>11. \A i \in 2 .. Len(todo') : i \in 1 .. Len(todo')
  <2>1. Len(todo') \in Nat
    BY <1>2, LenProperties
  <2> QED BY <2>1
<1>12. \A i \in 1 .. n : pending[i].type = "motion" => pending[i].dev = "ptr"
  BY DEF OrderInv
<1>13. ASSUME \A o \in Devices : Orderly(o)' => Ordered(o)',
              ~Repeats' => Alternates(Coming("kbd"), down["kbd"], hwDown["kbd"])',
              \A i \in 1 .. Len(pending') : pending'[i].type = "motion" => pending'[i].dev = "ptr"
       PROVE  OrderInv'
  BY <1>2, <1>11, <1>13 DEF OrderInv, QuietStack, LowGood, InputGood
(* ... and what comes of each of the three ways.                             *)
<1>14. CASE LostForWantOfMemory
  <2>1. pending' = pending /\ owed' = owed /\ keyLost' = (keyLost \/ d = "kbd")
    BY <1>0, <1>14 DEF LostForWantOfMemory
  <2>2. Queued(d)' = Queued(d)
    BY <2>1 DEF Queued
  <2>3. ASSUME Orderly(d)' PROVE Ordered(d)'
    <3>1. Orderly(d) /\ Ordered(d) /\ Flying(d)' = {} /\ Coming(d)' = Queued(d)
      BY <1>3, <1>7, <1>m, <2>2, <2>3
    <3>2. owed[d] # 0 => \E q \in Queued(d) : q.id = owed[d]
      <4>1. owed[d] # 0 => \E q \in Coming(d) : q.id = owed[d] /\ (q \in Queued(d) \/ ~sync[d].frozen)
        BY <3>1 DEF Ordered, Numbered
      <4> QED BY <1>0, <1>a, <4>1
    <3>3. Numbered(d)'
      BY <1>1, <1>8, <2>1, <2>2, <3>1, <3>2 DEF Ordered, Numbered
    <3>4. QueueOrdered(d)'
      BY <2>1, <3>1 DEF Ordered, QueueOrdered
    <3> QED BY <3>1, <3>3, <3>4 DEF Ordered, FlightOrdered
  <2>4. ASSUME NEW o \in Devices, o # d, Orderly(o)' PROVE Ordered(o)'
    <3>1. Ordered(o)
      BY <1>m, <2>4 DEF OrderInv
    <3> QED BY <1>9, <1>10, <2>1, <2>4, <3>1
  <2>5. ASSUME ~Repeats' PROVE Alternates(Coming("kbd"), down["kbd"], hwDown["kbd"])'
    <3>1. "kbd" \in Devices /\ Orderly("kbd")' /\ ~Repeats
      BY <1>m, <2>5 DEF Devices, Repeats
    <3>2. d # "kbd"
      BY <2>1, <3>1 DEF Orderly
    <3>3. Queued("kbd")' = Queued("kbd")
      BY <2>1 DEF Queued
    <3>4. Coming("kbd")' = Coming("kbd")
      BY <1>1, <1>3, <3>1, <3>2, <3>3
    <3> QED BY <1>8, <3>1, <3>4 DEF OrderInv
  <2> QED BY <1>12, <1>13, <2>1, <2>3, <2>4, <2>5
<1>15. ASSUME UNCHANGED keyLost, owed' = [owed EXCEPT ![d] = IF @ < e.id THEN e.id ELSE @],
              \/ pending' = Append(pending, e)
              \/ d = "ptr" /\ n > 0 /\ pending[n].dev = d /\ pending' = [pending EXCEPT ![n] = e],
              e \in Queued(d)', Queued(d)' \subseteq Coming(d), Orderly(d) => QueueOrdered(d)',
              d = "kbd" => Queued(d)' = Coming(d),
              \A i \in 1 .. Len(pending') : pending'[i].type = "motion" => pending'[i].dev = "ptr"
       PROVE  OrderInv'
  <2>1. \A o \in Devices : Orderly(o)' = Orderly(o)
    BY <1>15 DEF Orderly
  <2>2. ASSUME Orderly(d)' PROVE Ordered(d)'
    <3>1. Orderly(d) /\ Ordered(d) /\ Flying(d)' = {} /\ Coming(d)' = Queued(d)'
      BY <1>3, <1>7, <1>m, <2>2
    <3>2. owed[d] # 0 => owed[d] <= e.id
      <4>1. owed[d] # 0 => \E q \in Coming(d) : q.id = owed[d]
        BY <3>1 DEF Ordered, Numbered
      <4>2. \A q \in Coming(d) : q.id <= e.id
        BY <1>1, <1>5, <1>6, <1>7, <3>1, ComingType
      <4> QED BY <4>1, <4>2
    <3>3. owed'[d] = e.id
      <4>1. owed[d] \in 0 .. MaxEvents /\ e.id \in 0 .. MaxEvents
        BY <1>5, <1>8
      <4>2. owed'[d] = IF owed[d] < e.id THEN e.id ELSE owed[d]
        BY <1>8, <1>15
      <4> QED BY <1>6, <3>2, <4>1, <4>2
    <3>4. Numbered(d)'
      <4>1. \A q \in Coming(d)' : done'[d] < q.id /\ q.id <= serial' /\ done'[d] <= serial'
        BY <1>8, <1>15, <3>1 DEF Ordered, Numbered
      <4>2. e \in Coming(d)' /\ e \in Queued(d)' /\ e.id = owed'[d]
        BY <1>15, <3>1, <3>3
      <4> QED BY <4>1, <4>2 DEF Numbered
    <3> QED BY <1>15, <3>1, <3>4 DEF Ordered, FlightOrdered
  <2>3. ASSUME NEW o \in Devices, o # d, Orderly(o)' PROVE Ordered(o)'
    <3>1. Ordered(o) /\ owed'[o] = owed[o]
      BY <1>8, <1>15, <1>m, <2>3 DEF OrderInv
    <3> QED BY <1>9, <1>10, <1>15, <2>3, <3>1
  <2>4. ASSUME ~Repeats' PROVE Alternates(Coming("kbd"), down["kbd"], hwDown["kbd"])'
    <3>1. "kbd" \in Devices /\ Orderly("kbd")' /\ ~Repeats
      BY <1>m, <2>4 DEF Devices, Repeats
    <3>2. Coming("kbd")' = Coming("kbd")
      <4>1. CASE d = "kbd"
        BY <1>3, <1>15, <3>1, <4>1
      <4>2. CASE d # "kbd"
        <5>1. Ordered("kbd")
          BY <2>1, <3>1 DEF OrderInv
        <5> QED BY <1>1, <1>3, <1>9, <1>15, <3>1, <4>2, <5>1
      <4> QED BY <4>1, <4>2
    <3> QED BY <1>8, <3>1, <3>2 DEF OrderInv
  <2> QED BY <1>13, <1>15, <2>2, <2>3, <2>4
<1>16. CASE KeptAs(Append(pending, e))
  <2>1. /\ pending' = Append(pending, e) /\ UNCHANGED keyLost
        /\ owed' = [owed EXCEPT ![d] = IF @ < e.id THEN e.id ELSE @]
    BY <1>0, <1>16 DEF KeptAs
  <2>2. /\ Len(pending') = n + 1 /\ pending'[n + 1] = e
        /\ \A i \in 1 .. n : pending'[i] = pending[i]
    BY <1>4, <2>1, AppendProperties
  <2>3. /\ n + 1 \in 1 .. Len(pending') /\ \A i \in 1 .. Len(pending') : i \in 1 .. n \/ i = n + 1
        /\ \A i \in 1 .. n : i \in 1 .. Len(pending')
    BY <1>4, <2>2
  <2>4. e \in Queued(d)'
    BY <1>0, <2>2, <2>3 DEF Queued
  <2>5. Queued(d)' \subseteq Coming(d) /\ Queued(d) \subseteq Queued(d)'
    BY <1>1, <2>2, <2>3 DEF Queued
  <2>6. ASSUME Orderly(d) PROVE QueueOrdered(d)'
    <3> SUFFICES ASSUME NEW i \in 1 .. Len(pending'), NEW j \in 1 .. Len(pending'), i < j,
                        pending'[i].dev = d, pending'[j].dev = d
                 PROVE  pending'[i].id < pending'[j].id
      BY DEF QueueOrdered
    <3>1. i \in 1 .. n
      BY <1>4, <2>3
    <3>2. CASE j \in 1 .. n
      BY <1>7, <2>2, <2>6, <3>1, <3>2 DEF Ordered, QueueOrdered
    <3>3. CASE j = n + 1
      <4>1. pending[i] \in Queued(d)
        BY <2>2, <3>1 DEF Queued
      <4> QED BY <1>7, <2>2, <2>6, <3>1, <3>3, <4>1
    <3> QED BY <2>3, <3>2, <3>3
  <2>7. \A i \in 1 .. Len(pending') : pending'[i].type = "motion" => pending'[i].dev = "ptr"
    BY <1>0, <1>1, <1>12, <2>2, <2>3
  <2> QED BY <1>1, <1>15, <2>1, <2>4, <2>5, <2>6, <2>7
<1>17. CASE n > 0 /\ Compresses(pending[n], e) /\ KeptAs([pending EXCEPT ![n] = e])
  <2>1. /\ n > 0 /\ pending' = [pending EXCEPT ![n] = e] /\ UNCHANGED keyLost
        /\ owed' = [owed EXCEPT ![d] = IF @ < e.id THEN e.id ELSE @]
        /\ e.type = "motion" /\ pending[n].type = "motion"
    BY <1>0, <1>17 DEF KeptAs, Compresses
  <2>2. /\ Len(pending') = n /\ pending'[n] = e
        /\ \A i \in 1 .. n : i # n => pending'[i] = pending[i]
    BY <1>0, <1>4, <2>1, ExceptSeq
  <2>3. n \in 1 .. n
    BY <1>4, <2>1
  <2>4. d = "ptr" /\ pending[n].dev = d
    BY <1>1, <1>12, <2>1, <2>3
  <2>5. e \in Queued(d)'
    BY <1>0, <2>2, <2>3 DEF Queued
  <2>6. Queued(d)' \subseteq Coming(d)
    BY <1>1, <2>2 DEF Queued
  <2>7. ASSUME Orderly(d) PROVE QueueOrdered(d)'
    <3> SUFFICES ASSUME NEW i \in 1 .. n, NEW j \in 1 .. n, i < j,
                        pending'[i].dev = d, pending'[j].dev = d
                 PROVE  pending'[i].id < pending'[j].id
      BY <2>2 DEF QueueOrdered
    <3>1. i # n /\ pending'[i] = pending[i]
      BY <1>4, <2>2
    <3>2. CASE j # n
      BY <1>7, <2>2, <2>7, <3>1, <3>2 DEF Ordered, QueueOrdered
    <3>3. CASE j = n
      <4>1. pending[i] \in Queued(d)
        BY <3>1 DEF Queued
      <4> QED BY <1>7, <2>2, <2>7, <3>1, <3>3, <4>1
    <3> QED BY <3>2, <3>3
  <2>8. \A i \in 1 .. Len(pending') : pending'[i].type = "motion" => pending'[i].dev = "ptr"
    BY <1>0, <1>12, <2>2, <2>4
  <2>9. d # "kbd"
    BY <2>4
  <2> QED BY <1>15, <2>1, <2>4, <2>5, <2>6, <2>7, <2>8, <2>9
<1> QED BY <1>b, <1>14, <1>16, <1>17

(* A queue without one of its events.                                        *)
LEMMA WithoutAt ==
  ASSUME NEW s \in Seq(Events), NEW i \in 1 .. Len(s)
  PROVE  /\ Len(Without(s, i)) = Len(s) - 1
         /\ \A j \in 1 .. Len(s) - 1 : Without(s, i)[j] = IF j < i THEN s[j] ELSE s[j + 1]
<1> DEFINE a == SubSeq(s, 1, i - 1)
           b == SubSeq(s, i + 1, Len(s))
<1>1. Len(s) \in Nat /\ \A j \in 1 .. Len(s) : s[j] \in Events
  BY LenProperties, ElementOfSeq
<1>2. a \in Seq(Events) /\ Len(a) = i - 1 /\ \A j \in 1 .. i - 1 : a[j] = s[j]
  BY <1>1, SubSeqProperties
<1>3. b \in Seq(Events) /\ Len(b) = Len(s) - i /\ \A j \in 1 .. Len(s) - i : b[j] = s[i + j]
  BY <1>1, SubSeqProperties
<1> HIDE DEF a, b
<1>4. /\ Len(a \o b) = Len(a) + Len(b)
      /\ \A j \in 1 .. Len(a) + Len(b) : (a \o b)[j] = IF j <= Len(a) THEN a[j] ELSE b[j - Len(a)]
  BY <1>2, <1>3, ConcatProperties
<1>5. Without(s, i) = a \o b
  BY DEF Without, a, b
<1>6. Len(a) + Len(b) = Len(s) - 1
  BY <1>1, <1>2, <1>3
<1>7. ASSUME NEW j \in 1 .. Len(s) - 1
      PROVE  (a \o b)[j] = IF j < i THEN s[j] ELSE s[j + 1]
  <2>1. CASE j < i
    BY <1>1, <1>2, <1>4, <1>6, <2>1
  <2>2. CASE ~(j < i)
    <3>1. j - (i - 1) \in 1 .. Len(s) - i /\ i + (j - (i - 1)) = j + 1 /\ ~(j <= i - 1)
      BY <1>1, <2>2
    <3>2. (a \o b)[j] = b[j - (i - 1)]
      BY <1>2, <1>4, <1>6, <3>1
    <3> QED BY <1>3, <2>2, <3>1, <3>2
  <2> QED BY <2>1, <2>2
<1> QED BY <1>4, <1>5, <1>6, <1>7

(* Of a device that is thawed, the event that is played is the first.        *)
LEMMA PlayOneOrder ==
  ASSUME CoreInv, OrderInv, PlayOne
  PROVE  OrderInv'
<1> DEFINE n == Len(pending)
<1>1. PICK i \in 1 .. n :
        /\ NextPlayable(i) /\ pending' = Without(pending, i)
        /\ todo' = <<InputFrame(pending[i])>> \o todo
  BY DEF PlayOne
<1>2. PICK e \in Events, d \in Devices : e = pending[i] /\ d = e.dev
  BY PendingType
<1>3. pending \in Seq(Events) /\ n \in Nat /\ todo \in Seq(Frames)
  BY CoreInvParts, LenProperties
<1>4. /\ Len(pending') = n - 1
      /\ \A j \in 1 .. n - 1 : pending'[j] = IF j < i THEN pending[j] ELSE pending[j + 1]
  BY <1>1, <1>3, WithoutAt
<1>5. /\ todo # <<>> /\ Now.op = "play" /\ playing' = playing /\ sync' = sync
      /\ done' = done /\ owed' = owed /\ keyLost' = keyLost
      /\ serial' = serial /\ down' = down /\ hwDown' = hwDown
  BY DEF PlayOne, Doing, Now, device, hardware
<1> DEFINE f == InputFrame(e)
<1>6. f \in Frames /\ f.op = "input" /\ f.e = e /\ f.d = d
  BY <1>2, InputFrameType DEF InputFrame, Frame
<1>7. todo' = <<f>> \o todo
  BY <1>1, <1>2
<1> HIDE DEF f
<1>8. /\ Len(todo') = 1 + Len(todo) /\ todo'[1] = f /\ Len(todo) \in Nat
      /\ \A j \in 1 .. Len(todo) : todo'[1 + j] = todo[j]
      /\ todo' \in Seq(Frames)
  <2>1. <<f>> \in Seq(Frames) /\ Len(<<f>>) = 1 /\ <<f>>[1] = f
    BY <1>6
  <2>2. /\ Len(todo') = 1 + Len(todo) /\ \A j \in 1 .. 1 : todo'[j] = <<f>>[j]
        /\ \A j \in 1 .. Len(todo) : todo'[1 + j] = todo[j]
        /\ todo' \in Seq(Frames)
    BY <1>3, <1>7, <2>1, ConcatAt
  <2> QED BY <1>3, <2>1, <2>2, LenProperties
<1>9. InFlight' /\ Now' = f
  <2>1. todo' # <<>> /\ Head(todo') = todo'[1]
    BY <1>8, EmptySeq, HeadTailProperties
  <2> QED BY <1>6, <1>8, <2>1 DEF InFlight, Now
<1>10. ~InFlight /\ \A o : Coming(o) = Queued(o)
  BY <1>5 DEF InFlight, Coming, Flying
<1>l. \A o : Orderly(o)' = Orderly(o)
  BY <1>5 DEF Orderly
<1>11. /\ \A o \in Devices : Coming(o)' = Queued(o)' \cup (IF o = d THEN {e} ELSE {})
  BY <1>2, <1>6, <1>9 DEF Coming, Flying
<1>12. \A j \in 1 .. n - 1 :
         \E k \in 1 .. n : k # i /\ pending'[j] = pending[k] /\ (k = j \/ k = j + 1)
  <2> SUFFICES ASSUME NEW j \in 1 .. n - 1
               PROVE  \E k \in 1 .. n : k # i /\ pending'[j] = pending[k] /\ (k = j \/ k = j + 1)
    OBVIOUS
  <2>1. CASE j < i
    <3>1. j \in 1 .. n /\ j # i
      BY <1>3, <2>1
    <3> QED BY <1>4, <2>1, <3>1
  <2>2. CASE ~(j < i)
    <3>1. j + 1 \in 1 .. n /\ j + 1 # i
      BY <1>3, <2>2
    <3> QED BY <1>4, <2>2, <3>1
  <2> QED BY <2>1, <2>2
<1>13. \A k \in 1 .. n : k # i => \E j \in 1 .. n - 1 : pending'[j] = pending[k]
  <2> SUFFICES ASSUME NEW k \in 1 .. n, k # i PROVE \E j \in 1 .. n - 1 : pending'[j] = pending[k]
    OBVIOUS
  <2>1. CASE k < i
    <3>1. k \in 1 .. n - 1
      BY <1>3, <2>1
    <3> QED BY <1>4, <2>1, <3>1
  <2>2. CASE ~(k < i)
    <3>1. k - 1 \in 1 .. n - 1 /\ ~(k - 1 < i) /\ (k - 1) + 1 = k
      BY <1>3, <2>2
    <3> QED BY <1>4, <3>1
  <2> QED BY <2>1, <2>2
<1>14. \A o \in Devices : Coming(o)' = Coming(o)
  <2> SUFFICES ASSUME NEW o \in Devices PROVE Coming(o)' = Queued(o)
    BY <1>10
  <2>1. \A q \in Queued(o)' : q \in Queued(o)
    <3>1. \A q \in Queued(o)' : \E j \in 1 .. n - 1 : pending'[j].dev = o /\ q = pending'[j]
      BY <1>4 DEF Queued
    <3>2. ASSUME NEW j \in 1 .. n - 1, pending'[j].dev = o PROVE pending'[j] \in Queued(o)
      <4>1. PICK k \in 1 .. n : pending'[j] = pending[k]
        BY <1>12
      <4> QED BY <3>2, <4>1 DEF Queued
    <3> QED BY <3>1, <3>2
  <2>2. o = d => e \in Queued(o)
    BY <1>2 DEF Queued
  <2>3. \A q \in Queued(o) : q \in Queued(o)' \/ (o = d /\ q = e)
    <3>1. ASSUME NEW k \in 1 .. n, pending[k].dev = o
          PROVE  pending[k] \in Queued(o)' \/ (o = d /\ pending[k] = e)
      <4>1. CASE k = i
        BY <1>2, <3>1, <4>1
      <4>2. CASE k # i
        <5>1. PICK j \in 1 .. n - 1 : pending'[j] = pending[k]
          BY <1>13, <4>2
        <5> QED BY <1>4, <3>1, <5>1 DEF Queued
      <4> QED BY <4>1, <4>2
    <3> QED BY <3>1 DEF Queued
  <2> QED BY <1>11, <2>1, <2>2, <2>3
<1>15. ~Repeats' => Alternates(Coming("kbd"), down["kbd"], hwDown["kbd"])'
  BY <1>5, <1>14, <1>l DEF OrderInv, Devices, Repeats
<1>17. \A q \in Events : q.id \in Int
  BY GrabsAssumption DEF Events
<1>18. ASSUME NEW o \in Devices, QueueOrdered(o) PROVE QueueOrdered(o)'
  <2> SUFFICES ASSUME NEW j \in 1 .. n - 1, NEW m \in 1 .. n - 1, j < m,
                      pending'[j].dev = o, pending'[m].dev = o
               PROVE  pending'[j].id < pending'[m].id
    BY <1>4 DEF QueueOrdered
  <2> DEFINE v(x) == IF x < i THEN x ELSE x + 1
  <2>1. \A x \in 1 .. n - 1 : v(x) \in 1 .. n /\ pending'[x] = pending[v(x)]
    BY <1>3, <1>4
  <2>2. v(j) < v(m)
    BY <1>3
  <2> HIDE DEF v
  <2> QED BY <1>18, <2>1, <2>2 DEF QueueOrdered
<1>19. ASSUME NEW o \in Devices, Orderly(o)' PROVE Ordered(o)'
  <2>o. Ordered(o)
    BY <1>l, <1>19 DEF OrderInv
  <2>1. /\ ~sync[d].frozen
        /\ \A k \in 1 .. n : ~sync[pending[k].dev].frozen => i <= k
    BY <1>1, <1>2 DEF NextPlayable, First, Playable
  <2>2. ASSUME NEW j \in 1 .. n - 1, pending'[j].dev = d, o = d PROVE e.id < pending'[j].id
    <3>1. PICK k \in 1 .. n : k # i /\ pending'[j] = pending[k]
      BY <1>12
    <3>2. i <= k
      BY <2>1, <2>2, <3>1
    <3>3. i < k
      BY <1>3, <3>1, <3>2
    <3> QED BY <1>2, <2>2, <2>o, <3>1, <3>3 DEF Ordered, QueueOrdered
  <2>3. o = d => \A q \in Queued(d)' : e.id < q.id
    BY <1>4, <2>2 DEF Queued
  <2>4. Flying(o)' = IF o = d THEN {e} ELSE {}
    BY <1>2, <1>6, <1>9 DEF Flying
  <2>5. FlightOrdered(o)'
    BY <1>5, <2>1, <2>3, <2>4 DEF FlightOrdered
  <2>6. owed[o] # 0 =>
          \E q \in Coming(o)' : q.id = owed[o] /\ (q \in Queued(o)' \/ ~sync[o].frozen)
    <3>1. CASE o = d
      BY <1>14, <2>1, <2>o, <3>1 DEF Ordered, Numbered
    <3>2. CASE o # d
      <4>1. Queued(o)' = Queued(o)
        BY <1>10, <1>11, <1>14, <3>2
      <4> QED BY <1>14, <2>o, <4>1 DEF Ordered, Numbered
    <3> QED BY <3>1, <3>2
  <2>7. Numbered(o)'
    BY <1>5, <1>14, <2>6, <2>o DEF Ordered, Numbered
  <2> QED BY <1>18, <2>5, <2>7, <2>o DEF Ordered
<1>16. InputGood(f)
  <2>1. i \in 1 .. Len(pending)
    OBVIOUS
  <2> QED BY <1>2, <1>6, <2>1 DEF OrderInv, InputGood
<1>20. /\ \A j \in 1 .. Len(todo') : todo'[j].op = "input" => InputGood(todo'[j])
       /\ \A j \in 2 .. Len(todo') :
            todo'[j].op = "input" => todo'[j].d = "kbd" /\ Repeats'
  <2>1. ASSUME NEW j \in 2 .. Len(todo'), todo'[j].op = "input"
        PROVE  InputGood(todo'[j]) /\ todo'[j].d = "kbd" /\ Repeats'
    <3>1. j - 1 \in 1 .. Len(todo) /\ 1 + (j - 1) = j
      BY <1>8
    <3>2. todo[1].op = "play"
      BY <1>3, <1>5, RestAt
    <3>3. j - 1 \in 2 .. Len(todo) /\ todo'[j] = todo[j - 1]
      BY <1>8, <2>1, <3>1, <3>2
    <3> QED BY <1>l, <2>1, <3>1, <3>3 DEF OrderInv, Repeats
  <2>2. \A j \in 1 .. Len(todo') : j = 1 \/ j \in 2 .. Len(todo')
    BY <1>8
  <2> QED BY <1>8, <1>16, <2>1, <2>2
<1>22. \A j \in 1 .. Len(pending') : pending'[j].type = "motion" => pending'[j].dev = "ptr"
  BY <1>4, <1>12 DEF OrderInv
<1>21. playing' => \E j \in 1 .. Len(todo') : todo'[j].op = "play"
  <2>1. 1 \in 1 .. Len(todo) /\ todo[1].op = "play"
    BY <1>3, <1>5, RestAt
  <2>2. 2 \in 1 .. Len(todo') /\ todo'[2] = todo[1]
    BY <1>8, <2>1
  <2> QED BY <2>1, <2>2
<1> QED BY <1>15, <1>19, <1>20, <1>21, <1>22 DEF OrderInv, InputGood

(* A new event is the last of its device; if that is not frozen it is the    *)
(* only one.                                                                 *)
LEMMA DeviceEventOrder ==
  ASSUME CoreInv, OrderInv,
         NEW d \in Devices, NEW type \in EventTypes, NEW at \in Windows, DeviceEvent(d, type, at)
  PROVE  OrderInv' /\ done' = done
<1> DEFINE n == Len(pending)
<1>1. /\ todo = <<>> /\ serial < MaxEvents /\ serial' = serial + 1
      /\ pending' = pending /\ sync' = sync /\ playing' = playing
      /\ done' = done /\ owed' = owed /\ keyLost' = keyLost /\ down' = down
  BY DEF DeviceEvent, Idle, device
<1>l. \A o : Orderly(o)' = Orderly(o)
  BY <1>1 DEF Orderly
<1>2. /\ done \in [Devices -> 0 .. MaxEvents] /\ owed \in [Devices -> 0 .. MaxEvents]
      /\ serial \in 0 .. MaxEvents /\ MaxEvents \in Nat
      /\ down \in [Devices -> BOOLEAN] /\ hwDown \in [Devices -> BOOLEAN]
  BY CoreInvParts, GrabsAssumption DEF OthersType
<1>3. PICK e \in Events : e = [dev |-> d, type |-> type, id |-> serial + 1, at |-> at]
  <2>1. serial + 1 \in 0 .. MaxEvents
    BY <1>1, <1>2
  <2>2. [dev |-> d, type |-> type, id |-> serial + 1, at |-> at] \in Events
    BY <2>1 DEF Events
  <2> QED BY <2>2
<1> DEFINE f == InputFrame(e)
<1>4. f \in Frames /\ f.op = "input" /\ f.e = e /\ f.d = d
  BY <1>3, InputFrameType DEF InputFrame, Frame
<1>5. todo' = <<f>>
  BY <1>1, <1>3 DEF DeviceEvent
<1> HIDE DEF f
<1>6. /\ Len(todo') = 1 /\ todo'[1] = f /\ InFlight' /\ Now' = f
  BY <1>4, <1>5 DEF InFlight, Now
<1>7. ~InFlight /\ \A o : Coming(o) = Queued(o) /\ Flying(o) = {}
  BY <1>1 DEF InFlight, Coming, Flying
<1>8. \A o : Queued(o)' = Queued(o)
  BY <1>1 DEF Queued
<1>9. /\ Coming(d)' = Queued(d) \cup {e} /\ Flying(d)' = {e}
      /\ \A o \in Devices : o # d => Coming(o)' = Coming(o) /\ Flying(o)' = {}
  BY <1>3, <1>4, <1>6, <1>7, <1>8 DEF Coming, Flying
<1>10. ~playing
  BY <1>1 DEF OrderInv
<1>11. ~sync[d].frozen => Queued(d) = {}
  BY <1>10, CoreInvParts DEF NothingLeftBehind, Queued
<1>12. Queued(d) \subseteq Events /\ \A q \in Queued(d) : q.dev = d
  BY ComingType
<1>13. \A x \in Events : x.id \in 0 .. MaxEvents
  BY DEF Events
<1>14. Orderly(d) => Ordered(d)
  BY DEF OrderInv
<1>15. Orderly(d) => /\ done[d] <= serial
                     /\ \A q \in Queued(d) : done[d] < q.id /\ q.id <= serial
  BY <1>7, <1>14 DEF Ordered, Numbered
<1>16. Orderly(d) => \A q \in Queued(d) : q.id < e.id
  BY <1>2, <1>3, <1>12, <1>13, <1>15
<1>17. type = "motion" => d = "ptr"
  BY DEF DeviceEvent, Devices
<1>18. ASSUME Orderly(d)' PROVE Ordered(d)'
  <2>1. Orderly(d) /\ Ordered(d) /\ e.id = serial + 1
    BY <1>3, <1>14, <1>l, <1>18
  <2>2. done[d] <= serial + 1 /\ done[d] < e.id /\ e.id <= serial + 1
    BY <1>2, <1>15, <2>1
  <2>3. \A q \in Queued(d) : done[d] < q.id /\ q.id <= serial + 1
    BY <1>2, <1>12, <1>13, <1>15, <2>1
  <2>4. owed[d] # 0 => \E q \in Queued(d) : q.id = owed[d]
    BY <1>7, <2>1 DEF Ordered, Numbered
  <2>5. Numbered(d)'
    <3>1. \A q \in Coming(d)' : done'[d] < q.id /\ q.id <= serial'
      BY <1>1, <1>9, <2>2, <2>3
    <3>2. owed'[d] # 0 => \E q \in Coming(d)' : q.id = owed'[d] /\ q \in Queued(d)'
      BY <1>1, <1>8, <1>9, <2>4
    <3> QED BY <1>1, <2>2, <3>1, <3>2 DEF Numbered
  <2>6. QueueOrdered(d)'
    BY <1>1, <2>1 DEF Ordered, QueueOrdered
  <2>7. FlightOrdered(d)'
    BY <1>1, <1>8, <1>9, <1>11, <1>16, <2>1 DEF FlightOrdered
  <2> QED BY <2>5, <2>6, <2>7 DEF Ordered
<1>19. ASSUME NEW o \in Devices, o # d, Orderly(o)' PROVE Ordered(o)'
  <2>1. /\ Coming(o)' = Coming(o) /\ Queued(o)' = Queued(o) /\ Flying(o)' = {}
        /\ done' = done /\ owed' = owed /\ sync' = sync
    BY <1>1, <1>8, <1>9, <1>19
  <2>2. Ordered(o)
    BY <1>l, <1>19 DEF OrderInv
  <2>3. /\ done[o] <= serial /\ done[o] \in Int /\ serial \in Int
        /\ \A q \in Coming(o) : q.id <= serial /\ q.id \in Int
    BY <1>2, <1>13, <2>2, ComingType DEF Ordered, Numbered
  <2>4. /\ done[o] <= serial + 1
        /\ \A q \in Coming(o) : q.id <= serial + 1
    BY <2>3
  <2>5. Numbered(o)'
    BY <1>1, <2>1, <2>2, <2>4 DEF Ordered, Numbered
  <2>6. QueueOrdered(o)'
    BY <1>1, <2>2 DEF Ordered, QueueOrdered
  <2> QED BY <2>1, <2>5, <2>6 DEF Ordered, FlightOrdered
<1>20. ASSUME ~Repeats' PROVE Alternates(Coming("kbd"), down["kbd"], hwDown["kbd"])'
  <2>k. "kbd" \in Devices /\ "ptr" # "kbd" /\ ~Repeats /\ Orderly("kbd") /\ ~Autorepeat
    BY <1>l, <1>20 DEF Devices, Repeats, Orderly
  <2>1. Alternates(Coming("kbd"), down["kbd"], hwDown["kbd"])
    BY <2>k DEF OrderInv
  <2>2. CASE d = "kbd"
    <3>1. type # "motion" /\ (type = "press" => ~hwDown[d]) /\ (type = "release" => hwDown[d])
      BY <2>2, <2>k DEF DeviceEvent
    <3>2. hwDown' = [hwDown EXCEPT ![d] = (type = "press")]
      BY <3>1 DEF DeviceEvent
    <3>3. hwDown'[d] \in BOOLEAN /\ (hwDown'[d] <=> e.type = "press") /\ (e.type = "press" <=> ~hwDown[d])
      BY <1>2, <1>3, <3>1, <3>2 DEF EventTypes
    <3>4. PICK a \in BOOLEAN, b \in BOOLEAN, p \in BOOLEAN, E \in SUBSET Events, F \in SUBSET Events :
            /\ (b <=> hwDown[d]) /\ (p <=> hwDown'[d])
            /\ a = down[d] /\ b = hwDown[d] /\ p = hwDown'[d]
            /\ E = Queued(d) /\ F = Queued(d) \cup {e}
      BY <1>2, <1>12, <3>3
    <3>5. Alternates(E, a, b)
      BY <1>7, <2>1, <2>2, <3>4
    <3>6. Alternates(F, a, p)
      BY <1>16, <2>k, <2>2, <3>3, <3>4, <3>5, AlternatesMore
    <3> QED BY <1>1, <1>9, <2>2, <3>4, <3>6
  <2>3. CASE d # "kbd"
    <3>1. hwDown'["kbd"] = hwDown["kbd"]
      BY <1>2, <2>k, <2>3 DEF DeviceEvent
    <3>2. Coming("kbd")' = Coming("kbd")
      BY <1>9, <2>k, <2>3
    <3> QED BY <1>1, <2>1, <3>1, <3>2
  <2> QED BY <2>2, <2>3
<1>21. InputGood(f)
  BY <1>3, <1>4, <1>17 DEF InputGood
<1>22. /\ \A i \in 1 .. Len(todo') : todo'[i].op = "input" => InputGood(todo'[i])
       /\ \A i \in 2 .. Len(todo') : FALSE
  BY <1>6, <1>21
<1>23. \A i \in 1 .. Len(pending') : pending'[i].type = "motion" => pending'[i].dev = "ptr"
  BY <1>1 DEF OrderInv
<1> QED BY <1>1, <1>10, <1>18, <1>19, <1>20, <1>22, <1>23 DEF OrderInv, InputGood

LEMMA DeliverGrabbedQuiet ==
  ASSUME NEW d, NEW e, Rest \in Seq(Frames), DeliverGrabbed(d, e)
  PROVE  Pushes(QuietFrames, Rest)
<1>1. UNCHANGED playing /\ todo' = Rest
  BY DEF DeliverGrabbed
<1> QED BY <1>1, PushesNothing

LEMMA ProcessOrder ==
  ASSUME CoreInv, OrderInv, ProcessMotion \/ ProcessRepeat \/ ProcessPress \/ ProcessRelease
  PROVE  OrderInv' /\ \A o \in Devices : Orderly(o) => done'[o] >= done[o]
<1>1. InFlight /\ ~sync[Now.e.dev].frozen /\ UNCHANGED <<hardware, pending>>
  BY DEF ProcessMotion, ProcessRepeat, ProcessPress, ProcessRelease, Process, Doing, InFlight, Now
<1>2. Now.e \in Events /\ Now.d \in Devices /\ Rest \in Seq(Frames)
  BY <1>1, FlightFacts
<1>3. CASE ProcessMotion
  <2>1. Now.e.type = "motion" /\ down' = down /\ Processed /\ todo' = Rest /\ UNCHANGED playing
    BY <1>3 DEF ProcessMotion, Process
  <2> QED BY <1>1, <1>2, <2>1, PushesNothing, ProcessedOrder
<1>4. CASE ProcessRepeat
  <2>1. \A o \in Devices : done[o] \in Int
    BY CoreInvParts DEF OthersType
  <2> QED BY <1>4, <2>1, ProcessRepeatOrder
<1>5. CASE ProcessPress
  <2>1. Now.e.type = "press" /\ down' = [down EXCEPT ![Now.d] = TRUE] /\ Processed
    BY <1>5 DEF ProcessPress, Process
  <2> DEFINE e == [Now.e EXCEPT !.at = hot]
  <2>2. e \in Events
    BY <1>2, CoreInvParts DEF OthersType, Events
  <2>3. \/ \E w \in Windows : ActivatePassive(Now.d, e, w, TRUE)
        \/ DeliverUngrabbed(e, traceGood)
        \/ DeliverGrabbed(Now.d, e)
    BY <1>5 DEF ProcessPress
  <2> HIDE DEF e
  <2>4. Pushes(QuietFrames, Rest)
    BY <1>2, <2>2, <2>3, ActivatePassiveQuiet, DeliverUngrabbedQuiet, DeliverGrabbedQuiet
  <2>5. down' = [down EXCEPT ![Now.d] = (Now.e.type = "press")]
    BY <2>1
  <2> QED BY <1>1, <2>1, <2>4, <2>5, ProcessedOrder
<1>6. CASE ProcessRelease
  <2>1. Now.e.type = "release" /\ down' = [down EXCEPT ![Now.d] = FALSE] /\ Processed
    BY <1>6 DEF ProcessRelease, Process
  <2>2. \/ todo' = Rest /\ UNCHANGED playing
        \/ \E s : ComputeFreezes(s, <<>>, Rest)
        \/ \E e : DeliverGrabbed(Now.d, e)
    BY <1>6 DEF ProcessRelease
  <2>3. Pushes(QuietFrames, Rest)
    BY <1>2, <2>2, FreezesQuiet, PushesNothing, DeliverGrabbedQuiet
  <2>4. down' = [down EXCEPT ![Now.d] = (Now.e.type = "press")]
    BY <2>1
  <2> QED BY <1>1, <2>1, <2>3, <2>4, ProcessedOrder
<1> QED BY <1>3, <1>4, <1>5, <1>6

(* Only an event that is processed changes done.                             *)
LEMMA DoneUnchanged ==
  ASSUME \/ EnqueueEvent \/ HoldEvent \/ Replay \/ PlayOne \/ StopPlaying
         \/ Requests \/ WindowOps \/ ClientOps
  PROVE  done' = done
<1>1. CASE EnqueueEvent \/ HoldEvent \/ Replay \/ PlayOne \/ StopPlaying
  BY <1>1 DEF EnqueueEvent, HoldEvent, Replay, PlayOne, StopPlaying, device
<1>2. CASE Requests
  <2>1. PICK c \in Clients, d \in Devices :
          \/ \E w \in Windows, this, other \in BOOLEAN : GrabDevice(c, d, w, this, other)
          \/ UngrabDevice(c, d)
          \/ \E w \in Windows, this, other \in BOOLEAN : GrabPassively(c, d, w, this, other)
          \/ \E w \in Windows : UngrabPassively(c, d, w)
          \/ \E mode \in Modes : AllowSome(c, d, mode)
    BY <1>2 DEF Requests
  <2>2. Request(c)
    BY <2>1 DEF GrabDevice, UngrabDevice, GrabPassively, UngrabPassively, AllowSome
  <2> QED BY <2>2 DEF Request, device
<1>3. CASE WindowOps
  BY <1>3 DEF WindowOps, MapWindow, UnmapWindow, DestroyWindow, UnrealizeTree, CrushTree, Vanish,
              DeleteFromDevice, WindowsRestructured, WindowStepUnchanged, Request, device
<1>4. CASE ClientOps
  BY <1>4 DEF ClientOps, CloseDownClient, CloseDownRetained, ReleaseActiveGrabs, RetainClient,
              ClientGone, FreeClientResource, ClientUnchanged, Request, device
<1> QED BY <1>1, <1>2, <1>3, <1>4

LEMMA OrderInvInit ==
  ASSUME Init
  PROVE  OrderInv
<1>1. /\ Len(todo) = 0 /\ Len(pending) = 0 /\ ~playing /\ ~InFlight
      /\ serial = 0 /\ done = [d \in Devices |-> 0] /\ owed = [d \in Devices |-> 0]
      /\ down = [d \in Devices |-> FALSE] /\ hwDown = [d \in Devices |-> FALSE]
  BY EmptySeq DEF Init, InFlight
<1>2. \A d : Coming(d) = {}
  BY <1>1 DEF Coming, Queued, Flying
<1>3. \A d \in Devices : Ordered(d)
  BY <1>1, <1>2 DEF Ordered, Numbered, QueueOrdered, FlightOrdered, Flying
<1>4. Alternates(Coming("kbd"), down["kbd"], hwDown["kbd"])
  BY <1>1, <1>2 DEF Alternates, Devices
<1>5. /\ \A i \in 1 .. Len(pending) : FALSE
      /\ \A i \in 1 .. Len(todo) : FALSE
      /\ \A i \in 2 .. Len(todo) : FALSE
  BY <1>1
<1> QED BY <1>1, <1>3, <1>4, <1>5 DEF OrderInv

LEMMA OrderInvInductive ==
  ASSUME CoreInv, OrderInv, [Next]_vars
  PROVE  OrderInv' /\ \A d \in Devices : Orderly(d) => done'[d] >= done[d]
<1>1. \A d \in Devices : done[d] \in Int /\ done[d] >= done[d]
  BY CoreInvParts DEF OthersType
<1>2. CASE \E d \in Devices, type \in EventTypes, at \in Windows : DeviceEvent(d, type, at)
  BY <1>1, <1>2, DeviceEventOrder
<1>3. CASE ProcessMotion \/ ProcessRepeat \/ ProcessPress \/ ProcessRelease
  BY <1>3, ProcessOrder
<1>4. CASE \/ EnqueueEvent \/ HoldEvent \/ Replay \/ PlayOne \/ StopPlaying
           \/ Requests \/ WindowOps \/ ClientOps
  BY <1>1, <1>4, EnqueueOrder, HoldReplayStopOrder, PlayOneOrder, RequestsOrder, WindowOpsOrder,
     ClientOpsOrder, DoneUnchanged
<1>5. CASE UNCHANGED vars
  <2>1. UNCHANGED <<pending, playing, todo, done, owed, keyLost, down, hwDown, serial, sync>>
    BY <1>5 DEF vars, device, hardware
  <2>2. /\ InFlight' = InFlight /\ Now' = Now /\ \A d : Orderly(d)' = Orderly(d)
        /\ \A d : Queued(d)' = Queued(d) /\ Flying(d)' = Flying(d) /\ Coming(d)' = Coming(d)
    BY <2>1 DEF InFlight, Now, Queued, Flying, Coming, Orderly
  <2>3. \A d \in Devices : Orderly(d)' => Ordered(d)'
    BY <2>1, <2>2 DEF OrderInv, Ordered, Numbered, QueueOrdered, FlightOrdered
  <2>4. ~Repeats' => Alternates(Coming("kbd"), down["kbd"], hwDown["kbd"])'
    BY <2>1, <2>2 DEF OrderInv, Repeats
  <2> QED BY <1>1, <2>1, <2>2, <2>3, <2>4 DEF OrderInv, Repeats, InputGood
<1> QED BY <1>2, <1>3, <1>4, <1>5 DEF Next, Input

LEMMA OrderInvAlways == Spec => []OrderInv
<1>1. Init => OrderInv
  BY OrderInvInit
<1>2. CoreInv /\ OrderInv /\ [Next]_vars => OrderInv'
  BY OrderInvInductive
<1> QED BY <1>1, <1>2, CoreInvAlways, PTL DEF Spec

(* The pointer's events are processed in the order they came in, whatever    *)
(* freezes it, thaws it, or plays events in between, and so are the          *)
(* keyboard's until a press is taken for a repeated one (then                *)
(* ProcessKeyboardEvent's second call for it comes back to the queue behind  *)
(* events that came later): if the driver repeats no key, until EnqueueEvent *)
(* has had no memory for a key's event.                                      *)
THEOREM EventsStayInOrder == Spec => InOrder
<1>1. CoreInv /\ OrderInv /\ [Next]_vars =>
        [\A d \in Devices : Orderly(d) => done'[d] >= done[d]]_vars
  BY OrderInvInductive
<1> QED BY <1>1, CoreInvAlways, OrderInvAlways, PTL DEF Spec, InOrder

(* ... and when the server is idle such a device, not frozen, owes none of   *)
(* the events it queued: ComputeFreezes plays every event it thaws before    *)
(* the request or the event that thawed it is done.  What EnqueueEvent has   *)
(* no memory for is lost, and not counted as owed.                           *)
THEOREM ThawedDevicesAreCurrent == Spec => []ThawedIsCurrent
<1>1. CoreInv /\ OrderInv => ThawedIsCurrent
  <2> SUFFICES ASSUME CoreInv, OrderInv, Idle,
                      NEW d \in Devices, ~sync[d].frozen, Orderly(d)
               PROVE  owed[d] = 0
    BY DEF ThawedIsCurrent
  <2>1. Len(todo) = 0 /\ ~InFlight
    BY EmptySeq DEF Idle, InFlight
  <2>2. ~playing
    BY <2>1 DEF OrderInv
  <2>3. Coming(d) = {}
    BY <2>1, <2>2, CoreInvParts DEF NothingLeftBehind, Coming, Queued, Flying
  <2> QED BY <2>3 DEF OrderInv, Ordered, Numbered
<1> QED BY <1>1, CoreInvAlways, OrderInvAlways, PTL

=============================================================================
