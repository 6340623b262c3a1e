----------------------------- MODULE GrabsProofs -----------------------------
(***************************************************************************)
(* Proofs about Grabs for every set of clients, chain of windows and bound: *)
(* type correctness, the accounting of freezes, and that no path leaves    *)
(* the events of a thawed device in the queue.                             *)
(***************************************************************************)
EXTENDS Grabs, SequenceTheorems, FiniteSetTheorems, TLAPS

(* What FreezesAccounted says of everything but the flag frozen, of a        *)
(* function s from devices to sync records.                                  *)
Coherent(s) ==
  \A d \in Devices :
    /\ s[d].grab = NoGrab <=> s[d].state = "NOT_GRABBED"
    /\ s[d].fromPassive => s[d].grab # NoGrab
    /\ s[d].other # None => s[d].other # d /\ s[s[d].other].grab # NoGrab

(* ... and of the flag. *)
Flagged(s) == \A d \in Devices : s[d].frozen <=> s[d].other # None \/ s[d].state \in FROZEN

SyncType == [Devices -> Syncs]

-----------------------------------------------------------------------------
(* Frames and grabs are what the operators that build them say.              *)
LEMMA FrameType ==
  ASSUME NEW op \in Ops, NEW e \in Events, NEW d \in Devices, NEW w \in Windows,
         NEW c \in Clients \cup {None}, NEW live \in BOOLEAN
  PROVE  Frame(op, e, d, w, c, live) \in Frames
BY DEF Frame, Frames

LEMMA NoEventType == NoEvent \in Events /\ 1 \in Windows
BY GrabsAssumption DEF NoEvent, Events, Devices, EventTypes, Windows

LEMMA ActiveGrabType ==
  ASSUME NEW c \in Clients, NEW w \in Windows
  PROVE  /\ [client |-> c, win |-> w] \in ActiveGrabs
         /\ [client |-> c, win |-> w] # NoGrab
BY GrabsAssumption DEF ActiveGrabs

(* A frame pushed on a stack of frames. *)
LEMMA PushType ==
  ASSUME NEW f \in Frames, NEW s \in Seq(Frames)
  PROVE  <<f>> \o s \in Seq(Frames)
<1>1. <<f>> \in Seq(Frames)
  OBVIOUS
<1> QED BY <1>1, ConcatProperties

-----------------------------------------------------------------------------
(* The functions of sync records: they yield sync records, and coherent ones *)
(* from coherent ones.                                                       *)
LEMMA RefrozenType ==
  ASSUME NEW s \in SyncType
  PROVE  /\ Refrozen(s) \in SyncType
         /\ Flagged(Refrozen(s))
         /\ Coherent(s) => Coherent(Refrozen(s))
<1>1. Refrozen(s) \in SyncType
  BY NoEventType, ZenonT(40) DEF SyncType, Refrozen, Syncs
<1>2. \A d \in Devices :
        /\ Refrozen(s)[d].grab = s[d].grab
        /\ Refrozen(s)[d].state = s[d].state
        /\ Refrozen(s)[d].other = s[d].other
        /\ Refrozen(s)[d].fromPassive = s[d].fromPassive
        /\ Refrozen(s)[d].frozen = (s[d].other # None \/ s[d].state \in FROZEN)
  BY DEF SyncType, Refrozen, Syncs
<1>3. \A d \in Devices : s[d].other \in Devices \cup {None}
  BY DEF SyncType, Syncs
<1>4. Flagged(Refrozen(s))
  BY <1>2 DEF Flagged
<1>5. Coherent(s) => Coherent(Refrozen(s))
  BY <1>2, <1>3 DEF Coherent
<1> QED BY <1>1, <1>4, <1>5

LEMMA ActivatedType ==
  ASSUME NEW s \in SyncType, NEW d \in Devices, NEW g \in ActiveGrabs, g # NoGrab,
         NEW thisSync \in BOOLEAN, NEW otherSync \in BOOLEAN, NEW passively \in BOOLEAN
  PROVE  /\ Activated(s, d, g, thisSync, otherSync, passively) \in SyncType
         /\ Coherent(s) => Coherent(Activated(s, d, g, thisSync, otherSync, passively))
<1> DEFINE t == [s EXCEPT ![d].grab = g, ![d].fromPassive = passively]
           a == CheckGrabForSyncs(t, d, thisSync, otherSync)
<1>1. /\ t \in SyncType
      /\ t[d].grab = g /\ t[d].fromPassive = passively /\ t[d].other = s[d].other
      /\ \A o \in Devices \ {d} : t[o] = s[o]
  BY DEF SyncType, Syncs
<1>2. a \in SyncType
  <2> HIDE DEF t
  <2> DEFINE freed(o) == IF OtherOf(t, o, t[d].grab.client) THEN None ELSE t[o].other
             row(o) == IF o = d
                         THEN IF thisSync THEN [t[o] EXCEPT !.state = "FROZEN_NO_EVENT"]
                                          ELSE [t[o] EXCEPT !.state = "THAWED", !.other = freed(o)]
                         ELSE [t[o] EXCEPT !.other = IF otherSync THEN d ELSE freed(o)]
  <2>1. a = [o \in Devices |-> row(o)]
    BY DEF CheckGrabForSyncs
  <2>2. \A o \in Devices : t[o] \in Syncs /\ freed(o) \in Devices \cup {None}
    BY <1>1 DEF SyncType, Syncs
  <2> HIDE DEF freed
  <2>3. \A o \in Devices : row(o) \in Syncs
    BY <2>2 DEF Syncs, States, FROZEN
  <2> QED BY <2>1, <2>3, ZenonT(40) DEF SyncType
<1>3. /\ a[d].grab = g /\ a[d].fromPassive = passively
      /\ a[d].state \in {"FROZEN_NO_EVENT", "THAWED"}
      /\ a[d].other \in {s[d].other, None}
  BY <1>1 DEF SyncType, CheckGrabForSyncs, Syncs
<1>4. \A o \in Devices \ {d} :
        /\ a[o].grab = s[o].grab /\ a[o].fromPassive = s[o].fromPassive
        /\ a[o].state = s[o].state
        /\ a[o].other \in {s[o].other, d, None}
  BY <1>1 DEF SyncType, CheckGrabForSyncs, Syncs
<1>5. \A o \in Devices : s[o].other \in Devices \cup {None}
  BY DEF SyncType, Syncs
<1>6. Coherent(s) => Coherent(a)
  <2> SUFFICES ASSUME Coherent(s), NEW o \in Devices
               PROVE  /\ a[o].grab = NoGrab <=> a[o].state = "NOT_GRABBED"
                      /\ a[o].fromPassive => a[o].grab # NoGrab
                      /\ a[o].other # None => a[o].other # o /\ a[a[o].other].grab # NoGrab
    BY DEF Coherent
  <2> HIDE DEF a
  <2>1. \A x \in Devices : s[x].grab # NoGrab => a[x].grab # NoGrab
    BY <1>3, <1>4
  <2>2. s[o].other # None => s[o].other # o /\ a[s[o].other].grab # NoGrab
    BY <1>5, <2>1 DEF Coherent
  <2>3. CASE o = d
    BY <2>3, <2>2, <1>3
  <2>4. CASE o # d
    BY <2>4, <2>2, <1>3, <1>4 DEF Coherent
  <2> QED BY <2>3, <2>4
<1> QED BY <1>2, <1>6 DEF Activated

LEMMA DeactivatedType ==
  ASSUME NEW s \in SyncType, NEW d \in Devices
  PROVE  /\ Deactivated(s, d) \in SyncType
         /\ Coherent(s) => Coherent(Deactivated(s, d))
<1> DEFINE t == [s EXCEPT ![d].grab = NoGrab, ![d].state = "NOT_GRABBED", ![d].fromPassive = FALSE]
           u == Unlinked(t, d)
<1>1. /\ t \in SyncType
      /\ t[d].grab = NoGrab /\ t[d].state = "NOT_GRABBED" /\ t[d].fromPassive = FALSE
      /\ t[d].other = s[d].other
      /\ \A o \in Devices \ {d} : t[o] = s[o]
  BY ZenonT(40) DEF SyncType, Syncs, States
<1>2. u \in SyncType
  BY <1>1 DEF SyncType, Unlinked, Syncs
<1>3. u[d].grab = NoGrab /\ u[d].state = "NOT_GRABBED" /\ u[d].fromPassive = FALSE
  BY <1>1 DEF SyncType, Unlinked, Syncs
<1>4. \A o \in Devices \ {d} :
        /\ u[o].grab = s[o].grab /\ u[o].fromPassive = s[o].fromPassive
        /\ u[o].state = s[o].state
  BY <1>1 DEF SyncType, Unlinked, Syncs
<1>5. \A o \in Devices : u[o].other = IF s[o].other = d THEN None ELSE s[o].other
  BY <1>1 DEF SyncType, Unlinked, Syncs
<1>6. \A o \in Devices : s[o].other \in Devices \cup {None}
  BY DEF SyncType, Syncs
<1>7. Coherent(s) => Coherent(u)
  <2> SUFFICES ASSUME Coherent(s), NEW o \in Devices
               PROVE  /\ u[o].grab = NoGrab <=> u[o].state = "NOT_GRABBED"
                      /\ u[o].fromPassive => u[o].grab # NoGrab
                      /\ u[o].other # None => u[o].other # o /\ u[u[o].other].grab # NoGrab
    BY DEF Coherent
  <2> HIDE DEF u
  <2>1. u[o].other # None => s[o].other # d /\ u[o].other = s[o].other
    BY <1>5
  <2>2. s[o].other # None => s[o].other # o /\ s[s[o].other].grab # NoGrab
    BY DEF Coherent
  <2>3. u[o].other # None => u[o].other # o /\ u[u[o].other].grab # NoGrab
    BY <2>1, <2>2, <1>4, <1>6
  <2>4. CASE o = d
    BY <2>4, <2>3, <1>3
  <2>5. CASE o # d
    BY <2>5, <2>3, <1>4 DEF Coherent
  <2> QED BY <2>4, <2>5
<1> QED BY <1>2, <1>7 DEF Deactivated

LEMMA ThawedType ==
  ASSUME sync \in SyncType, NEW ds \in SUBSET Devices, NEW c,
         NEW state \in States,
         state = "NOT_GRABBED" => \A d \in ds : sync[d].state = "NOT_GRABBED"
  PROVE  /\ Thawed(ds, c, state) \in SyncType
         /\ Coherent(sync) => Coherent(Thawed(ds, c, state))
<1> DEFINE t == Thawed(ds, c, state)
<1>1. t \in SyncType
  BY ZenonT(40) DEF SyncType, Thawed, Syncs
<1>2. \A d \in Devices :
        /\ t[d].grab = sync[d].grab /\ t[d].fromPassive = sync[d].fromPassive
        /\ t[d].other \in {sync[d].other, None}
        /\ \/ t[d].state = sync[d].state
           \/ t[d].state = state /\ d \in ds /\ sync[d].grab # NoGrab
  BY DEF SyncType, Thawed, Syncs, GrabbedBy
<1>3. Coherent(sync) => Coherent(t)
  BY <1>2 DEF Coherent, SyncType, Syncs
<1> QED BY <1>1, <1>3

LEMMA HeldType ==
  ASSUME NEW s \in SyncType, NEW d \in Devices, NEW e \in Events, s[d].grab # NoGrab
  PROVE  /\ HeldAfterDelivery(s, d, e) \in SyncType
         /\ Coherent(s) => Coherent(HeldAfterDelivery(s, d, e))
         /\ Flagged(s) => Flagged(HeldAfterDelivery(s, d, e))
         /\ \A o \in Devices : s[o].frozen => HeldAfterDelivery(s, d, e)[o].frozen
<1> DEFINE h == HeldAfterDelivery(s, d, e)
           held == [s EXCEPT ![d].state = "FROZEN_WITH_EVENT", ![d].frozen = TRUE, ![d].event = e]
<1>1. /\ held \in SyncType
      /\ held[d].grab = s[d].grab /\ held[d].fromPassive = s[d].fromPassive
      /\ held[d].other = s[d].other
      /\ held[d].state = "FROZEN_WITH_EVENT" /\ held[d].frozen
      /\ \A o \in Devices \ {d} : held[o] = s[o]
  BY ZenonT(40) DEF SyncType, Syncs, States, FROZEN
<1>2. CASE s[d].state \notin {"FREEZE_BOTH_NEXT_EVENT", "FREEZE_NEXT_EVENT"}
  BY <1>2, Zenon DEF HeldAfterDelivery
<1>3. CASE s[d].state = "FREEZE_NEXT_EVENT"
  <2>1. h = held
    BY <1>3 DEF HeldAfterDelivery
  <2>2. s[d].other \in Devices \cup {None} /\ s[d].state # "NOT_GRABBED"
    BY <1>3 DEF SyncType, Syncs
  <2> HIDE DEF held, h
  <2>3. \A o \in Devices : h[o].grab = s[o].grab /\ h[o].other = s[o].other
                            /\ h[o].fromPassive = s[o].fromPassive
    BY <1>1, <2>1
  <2>4. \A o \in Devices \ {d} : h[o] = s[o]
    BY <1>1, <2>1
  <2>5. h[d].state = "FROZEN_WITH_EVENT" /\ h[d].frozen
    BY <1>1, <2>1
  <2>6. Coherent(s) => Coherent(h)
    <3> SUFFICES ASSUME Coherent(s), NEW o \in Devices
                 PROVE  /\ h[o].grab = NoGrab <=> h[o].state = "NOT_GRABBED"
                        /\ h[o].fromPassive => h[o].grab # NoGrab
                        /\ h[o].other # None => h[o].other # o /\ h[h[o].other].grab # NoGrab
      BY DEF Coherent
    <3>1. s[o].other \in Devices \cup {None}
      BY DEF SyncType, Syncs
    <3> QED BY <2>2, <2>3, <2>4, <2>5, <3>1 DEF Coherent
  <2>7. Flagged(s) => Flagged(h)
    BY <2>3, <2>4, <2>5 DEF Flagged, FROZEN
  <2>8. \A o \in Devices : s[o].frozen => h[o].frozen
    BY <2>4, <2>5
  <2> QED BY <2>1, <1>1, <2>6, <2>7, <2>8 DEF h
<1>4. CASE s[d].state = "FREEZE_BOTH_NEXT_EVENT"
  <2> DEFINE both(o) ==
        IF s[o].state = "FREEZE_BOTH_NEXT_EVENT" /\ s[o].grab.client = s[d].grab.client
          THEN [s[o] EXCEPT !.state = "FROZEN_NO_EVENT", !.frozen = TRUE]
          ELSE [s[o] EXCEPT !.other = d, !.frozen = TRUE]
  <2>a. h = [o \in Devices |-> IF o = d THEN held[d] ELSE both(o)]
    BY <1>4 DEF HeldAfterDelivery
  <2>b. \A o \in Devices :
          /\ both(o) \in Syncs
          /\ both(o).grab = s[o].grab /\ both(o).fromPassive = s[o].fromPassive
          /\ both(o).frozen
          /\ \/ /\ s[o].state = "FREEZE_BOTH_NEXT_EVENT" /\ both(o).state = "FROZEN_NO_EVENT"
                /\ both(o).other = s[o].other
             \/ both(o).state = s[o].state /\ both(o).other = d
    BY ZenonT(40) DEF SyncType, Syncs, States, FROZEN
  <2> HIDE DEF both
  <2>c. held[d] \in Syncs
    BY <1>1 DEF SyncType
  <2> HIDE DEF held
  <2>d. h \in SyncType
    BY <2>a, <2>b, <2>c DEF SyncType
  <2>1. /\ h[d] = held[d]
        /\ \A o \in Devices \ {d} :
             /\ h[o].grab = s[o].grab /\ h[o].fromPassive = s[o].fromPassive
             /\ h[o].frozen
             /\ \/ /\ s[o].state = "FREEZE_BOTH_NEXT_EVENT" /\ h[o].state = "FROZEN_NO_EVENT"
                   /\ h[o].other = s[o].other
                \/ h[o].state = s[o].state /\ h[o].other = d
    BY <2>a, <2>b
  <2>2. \A o \in Devices : s[o].other \in Devices \cup {None}
    BY DEF SyncType, Syncs
  <2>3. Coherent(s) => Coherent(h)
    <3> SUFFICES ASSUME Coherent(s), NEW o \in Devices
                 PROVE  /\ h[o].grab = NoGrab <=> h[o].state = "NOT_GRABBED"
                        /\ h[o].fromPassive => h[o].grab # NoGrab
                        /\ h[o].other # None => h[o].other # o /\ h[h[o].other].grab # NoGrab
      BY DEF Coherent
    <3> HIDE DEF h
    <3>1. \A x \in Devices : h[x].grab = s[x].grab
      BY <2>1, <1>1
    <3>2. s[o].other # None => s[o].other # o /\ h[s[o].other].grab # NoGrab
      BY <3>1, <2>2 DEF Coherent
    <3>3. CASE o = d
      BY <3>3, <3>2, <2>1, <1>1, <1>4 DEF Coherent
    <3>4. CASE o # d
      BY <3>4, <3>1, <3>2, <2>1 DEF Coherent
    <3> QED BY <3>3, <3>4
  <2>4. Flagged(h)
    BY <2>1, <1>1, GrabsAssumption DEF Flagged, FROZEN, Devices
  <2> QED BY <2>d, <2>1, <2>3, <2>4, <1>1
<1> QED BY <1>2, <1>3, <1>4

-----------------------------------------------------------------------------
(* The inductive invariant. *)
CoreInv == TypeOK /\ Coherent(sync) /\ Flagged(sync) /\ NothingLeftBehind

(* Its two halves, as a step has to re-establish them: what the procedures   *)
(* of this model share, and the state each of them changes on its own.       *)
SyncStep ==
  /\ sync' \in SyncType /\ Coherent(sync') /\ Flagged(sync')
  /\ todo' \in Seq(Frames) /\ playing' \in BOOLEAN
  /\ NothingLeftBehind'

OthersType ==
  /\ activatingKey \in BOOLEAN
  /\ down \in [Devices -> BOOLEAN] /\ hwDown \in [Devices -> BOOLEAN]
  /\ passive \in [Windows -> [Devices -> PassiveGrabs \cup {NoGrab}]]
  /\ exists \subseteq Windows
  /\ mapped \in [Windows -> BOOLEAN]
  /\ hot \in Windows /\ traceGood \in Windows
  /\ client \in [Clients -> {"running", "gone", "retained"}]
  /\ serial \in 0 .. MaxEvents
  /\ done \in [Devices -> 0 .. MaxEvents] /\ owed \in [Devices -> 0 .. MaxEvents]
  /\ keyLost \in BOOLEAN
  /\ changes \in 0 .. MaxChanges

LEMMA CoreInvStep ==
  ASSUME SyncStep, pending' \in Seq(Events), OthersType'
  PROVE  CoreInv'
BY DEF SyncStep, OthersType, CoreInv, TypeOK, SyncType

LEMMA NowType ==
  ASSUME todo \in Seq(Frames), todo # <<>>
  PROVE  /\ Now.e \in Events /\ Now.d \in Devices /\ Now.w \in Windows
         /\ Now.c \in Clients \cup {None} /\ Now.live \in BOOLEAN
         /\ Rest \in Seq(Frames)
<1>1. Head(todo) \in Frames /\ Tail(todo) \in Seq(Frames)
  BY HeadTailProperties
<1> QED BY <1>1 DEF Now, Rest, Frames

LEMMA TraceType ==
  ASSUME NEW p \in Windows
  PROVE  TraceAt(p) \in Windows
<1> DEFINE ns == {n \in 1 .. p : \A v \in 2 .. n : v \in exists /\ mapped[v]}
<1>1. IsFiniteSet(1 .. p) /\ Cardinality(1 .. p) = p
  BY FS_Interval, GrabsAssumption DEF Windows
<1>2. ns \in SUBSET (1 .. p) /\ 1 \in ns
  BY GrabsAssumption DEF Windows
<1> HIDE DEF ns
<1>3. IsFiniteSet(ns) /\ Cardinality(ns) <= p
  BY <1>1, <1>2, FS_Subset
<1>4. Cardinality(ns) \in Nat /\ Cardinality(ns) # 0
  BY <1>2, <1>3, FS_CardinalityType, FS_EmptySet
<1>5. Cardinality(ns) \in Windows
  BY <1>3, <1>4, GrabsAssumption DEF Windows
<1> QED BY <1>5 DEF TraceAt, ns

LEMMA InputFrameType ==
  ASSUME NEW e \in Events
  PROVE  InputFrame(e) \in Frames
BY FrameType, NoEventType DEF InputFrame, Events, Ops

LEMMA WindowFrameType ==
  ASSUME NEW op \in Ops, NEW d \in Devices, NEW w \in Windows
  PROVE  WindowFrame(op, d, w) \in Frames
BY FrameType, NoEventType DEF WindowFrame

LEMMA ClientFrameType ==
  ASSUME NEW op \in Ops, NEW c \in Clients \cup {None}
  PROVE  ClientFrame(op, c) \in Frames
BY FrameType, NoEventType DEF ClientFrame, Devices

LEMMA PassiveType ==
  ASSUME OthersType, NEW w \in Windows, NEW d \in Devices, passive[w][d] # NoGrab
  PROVE  /\ passive[w][d].client \in Clients
         /\ passive[w][d].this \in BOOLEAN /\ passive[w][d].other \in BOOLEAN
BY DEF OthersType, PassiveGrabs

LEMMA CoreInvParts ==
  ASSUME CoreInv
  PROVE  /\ sync \in SyncType /\ Coherent(sync) /\ Flagged(sync)
         /\ pending \in Seq(Events) /\ playing \in BOOLEAN /\ todo \in Seq(Frames)
         /\ OthersType /\ NothingLeftBehind
BY DEF CoreInv, TypeOK, SyncType, OthersType

LEMMA PendingType ==
  ASSUME CoreInv, NEW i \in 1 .. Len(pending)
  PROVE  pending[i] \in Events /\ pending[i].dev \in Devices
<1>1. pending \in Seq(Events)
  BY CoreInvParts
<1>2. pending[i] \in Events
  BY <1>1, ElementOfSeq
<1> QED BY <1>2 DEF Events

(* A procedure that ends with ComputeFreezes.                                *)
LEMMA ComputeFreezesStep ==
  ASSUME NEW s \in SyncType, Coherent(s),
         NEW replay \in Seq(Frames), NEW rest \in Seq(Frames),
         playing \in BOOLEAN, pending \in Seq(Events), UNCHANGED pending,
         ComputeFreezes(s, replay, rest)
  PROVE  SyncStep
<1>1. sync' \in SyncType /\ Coherent(sync') /\ Flagged(sync')
  BY RefrozenType DEF ComputeFreezes
<1>2. PlayFrame \in Frames
  BY FrameType, NoEventType DEF PlayFrame, Ops, Devices
<1>3. replay \o <<PlayFrame>> \o rest \in Seq(Frames)
  <2>1. <<PlayFrame>> \in Seq(Frames)
    BY <1>2
  <2>2. replay \o <<PlayFrame>> \in Seq(Frames)
    BY <2>1, ConcatProperties
  <2> QED BY <2>2, ConcatProperties
<1>4. todo' \in Seq(Frames) /\ playing' \in BOOLEAN
  BY <1>3 DEF ComputeFreezes
<1>5. NothingLeftBehind'
  <2>1. CASE playing
    BY <2>1 DEF ComputeFreezes, NothingLeftBehind
  <2>2. CASE ~playing /\ pending = <<>>
    BY <2>2 DEF NothingLeftBehind
  <2>3. CASE ~playing /\ pending # <<>>
    BY <2>3 DEF ComputeFreezes, NothingLeftBehind
  <2> QED BY <2>1, <2>2, <2>3
<1> QED BY <1>1, <1>4, <1>5 DEF SyncStep

(* A procedure that changes the stack alone.                                 *)
LEMMA StackStep ==
  ASSUME CoreInv, todo' \in Seq(Frames), UNCHANGED <<sync, playing, pending>>
  PROVE  SyncStep
BY CoreInvParts DEF SyncStep, NothingLeftBehind

LEMMA ActivatePassiveStep ==
  ASSUME CoreInv, NEW d \in Devices, NEW e \in Events, NEW w \in Windows, NEW live \in BOOLEAN,
         passive[w][d] # NoGrab, Rest \in Seq(Frames), UNCHANGED pending,
         ActivatePassive(d, e, w, live)
  PROVE  SyncStep
<1> DEFINE p == passive[w][d]
           g == [client |-> p.client, win |-> w]
           s == Activated(sync, d, g, p.this, p.other, TRUE)
           rest == <<Frame("hold", e, d, w, None, live)>> \o Rest
<1>1. p.client \in Clients /\ p.this \in BOOLEAN /\ p.other \in BOOLEAN
  BY CoreInvParts, PassiveType
<1>2. g \in ActiveGrabs /\ g # NoGrab
  BY <1>1, ActiveGrabType
<1>3. s \in SyncType /\ Coherent(s)
  BY <1>1, <1>2, ActivatedType, CoreInvParts
<1>4. rest \in Seq(Frames)
  BY FrameType, PushType DEF Ops
<1>5. <<>> \in Seq(Frames)
  BY EmptySeq
<1>6. ComputeFreezes(s, <<>>, rest)
  BY DEF ActivatePassive
<1> HIDE DEF s, rest
<1> QED BY <1>3, <1>4, <1>5, <1>6, ComputeFreezesStep, CoreInvParts

LEMMA ReleaseStep ==
  ASSUME CoreInv, NEW d \in Devices, NEW rest \in Seq(Frames), UNCHANGED pending,
         ComputeFreezes(Deactivated(sync, d), <<>>, rest)
  PROVE  SyncStep
<1>1. Deactivated(sync, d) \in SyncType /\ Coherent(Deactivated(sync, d))
  BY DeactivatedType, CoreInvParts
<1> QED BY <1>1, EmptySeq, ComputeFreezesStep, CoreInvParts

LEMMA DeliverUngrabbedStep ==
  ASSUME CoreInv, NEW e, NEW trace \in Windows, Rest \in Seq(Frames), UNCHANGED pending,
         DeliverUngrabbed(e, trace)
  PROVE  SyncStep
<1>1. CASE UNCHANGED <<sync, playing>> /\ todo' = Rest
  BY <1>1, StackStep
<1>2. ASSUME NEW c \in Clients, NEW w \in 1 .. trace,
             ComputeFreezes(Activated(sync, "ptr", [client |-> c, win |-> w], FALSE, FALSE, TRUE),
                            <<>>, Rest)
      PROVE  SyncStep
  <2> DEFINE s == Activated(sync, "ptr", [client |-> c, win |-> w], FALSE, FALSE, TRUE)
  <2>1. w \in Windows
    BY GrabsAssumption DEF Windows
  <2>2. s \in SyncType /\ Coherent(s)
    BY <2>1, ActiveGrabType, ActivatedType, CoreInvParts DEF Devices
  <2> HIDE DEF s
  <2>3. ComputeFreezes(s, <<>>, Rest)
    BY <1>2 DEF s
  <2> QED BY <2>2, <2>3, EmptySeq, ComputeFreezesStep, CoreInvParts
<1> QED BY <1>1, <1>2 DEF DeliverUngrabbed

LEMMA DeliverGrabbedStep ==
  ASSUME CoreInv, NEW d \in Devices, NEW e \in Events, sync[d].grab # NoGrab,
         Rest \in Seq(Frames), UNCHANGED pending, DeliverGrabbed(d, e)
  PROVE  SyncStep
<1> DEFINE h == HeldAfterDelivery(sync, d, e)
<1>1. /\ h \in SyncType /\ Coherent(h) /\ Flagged(h)
      /\ \A o \in Devices : sync[o].frozen => h[o].frozen
  BY HeldType, CoreInvParts
<1>2. sync' \in {h, sync} /\ todo' = Rest /\ UNCHANGED playing
  BY DEF DeliverGrabbed
<1> HIDE DEF h
<1>3. \A o \in Devices : sync[o].frozen => sync'[o].frozen
  BY <1>1, <1>2
<1>4. \A i \in 1 .. Len(pending) : pending[i].dev \in Devices
  BY PendingType
<1>5. NothingLeftBehind'
  BY <1>2, <1>3, <1>4, CoreInvParts DEF NothingLeftBehind
<1> QED BY <1>1, <1>2, <1>5, CoreInvParts DEF SyncStep

-----------------------------------------------------------------------------
(* Device events. *)
LEMMA DeviceEventStep ==
  ASSUME CoreInv, NEW d \in Devices, NEW type \in EventTypes, NEW at \in Windows,
         DeviceEvent(d, type, at)
  PROVE  CoreInv'
<1> DEFINE e == [dev |-> d, type |-> type, id |-> serial', at |-> at]
<1>1. serial' \in 0 .. MaxEvents
  BY CoreInvParts, GrabsAssumption DEF DeviceEvent, OthersType
<1>2. e \in Events
  BY <1>1 DEF Events
<1>3. todo' \in Seq(Frames)
  <2>1. InputFrame(e) \in Frames
    BY <1>2, InputFrameType
  <2> QED BY <2>1 DEF DeviceEvent
<1>4. SyncStep
  BY <1>3, StackStep DEF DeviceEvent
<1>5. OthersType'
  BY <1>1, CoreInvParts
  DEF DeviceEvent, OthersType, device, hardware, sprite, windows, holdings
<1> QED BY <1>4, <1>5, CoreInvStep, CoreInvParts DEF DeviceEvent

LEMMA EnqueueEventStep ==
  ASSUME CoreInv, EnqueueEvent
  PROVE  CoreInv'
<1> DEFINE n == Len(pending)
           e == Now.e
<1>1. e \in Events /\ Rest \in Seq(Frames)
  BY NowType, CoreInvParts DEF EnqueueEvent, Doing
<1>2. pending \in Seq(Events) /\ n \in Nat
  BY CoreInvParts, LenProperties
<1>3. sync[e.dev].frozen /\ sync' = sync /\ playing' = playing /\ todo' = Rest
  BY DEF EnqueueEvent
<1>4. \/ n > 0 /\ KeptAs([pending EXCEPT ![n] = e])
      \/ KeptAs(Append(pending, e))
      \/ LostForWantOfMemory
  BY DEF EnqueueEvent
<1>5. /\ pending' \in Seq(Events)
      /\ \A i \in 1 .. Len(pending') :
           \/ pending'[i] = e
           \/ i \in 1 .. n /\ pending'[i] = pending[i]
  <2>1. CASE n > 0 /\ pending' = [pending EXCEPT ![n] = e]
    BY <2>1, <1>1, <1>2, ExceptSeq
  <2>2. CASE pending' = Append(pending, e)
    BY <2>2, <1>1, <1>2, AppendProperties
  <2>3. CASE pending' = pending
    BY <2>3, <1>2
  <2> QED BY <2>1, <2>2, <2>3, <1>4 DEF KeptAs, LostForWantOfMemory
<1>6. NothingLeftBehind'
  BY <1>3, <1>5, CoreInvParts DEF NothingLeftBehind
<1>7. SyncStep
  BY <1>1, <1>3, <1>6, CoreInvParts DEF SyncStep
<1>8. owed' \in [Devices -> 0 .. MaxEvents] /\ keyLost' \in BOOLEAN
  <2>1. e.id \in 0 .. MaxEvents /\ owed \in [Devices -> 0 .. MaxEvents] /\ keyLost \in BOOLEAN
    BY <1>1, CoreInvParts DEF Events, OthersType
  <2> QED BY <1>4, <2>1 DEF KeptAs, LostForWantOfMemory
<1>9. OthersType'
  BY <1>8, CoreInvParts DEF EnqueueEvent, OthersType, hardware, sprite, windows, holdings
<1> QED BY <1>5, <1>7, <1>9, CoreInvStep

LEMMA ProcessedType ==
  ASSUME CoreInv, Processed, Now.e.id \in 0 .. MaxEvents
  PROVE  /\ done' \in [Devices -> 0 .. MaxEvents] /\ owed' \in [Devices -> 0 .. MaxEvents]
         /\ keyLost' \in BOOLEAN
<1>1. /\ done \in [Devices -> 0 .. MaxEvents] /\ owed \in [Devices -> 0 .. MaxEvents]
      /\ keyLost \in BOOLEAN
  BY CoreInvParts DEF OthersType
<1>2. \A d \in Devices : owed'[d] \in 0 .. MaxEvents
  <2> SUFFICES ASSUME NEW d \in Devices PROVE owed'[d] \in 0 .. MaxEvents
    OBVIOUS
  <2>1. owed[d] \in 0 .. MaxEvents /\ 0 \in 0 .. MaxEvents
    BY <1>1, GrabsAssumption
  <2>2. owed'[d] = owed[d] \/ owed'[d] = 0
    BY <1>1 DEF Processed
  <2> QED BY <2>1, <2>2
<1>3. owed' = [d \in Devices |-> owed'[d]]
  BY <1>1 DEF Processed
<1>4. owed' \in [Devices -> 0 .. MaxEvents]
  BY <1>2, <1>3
<1> QED BY <1>1, <1>4 DEF Processed

LEMMA ProcessMotionStep ==
  ASSUME CoreInv, ProcessMotion
  PROVE  CoreInv'
<1>1. Now.e \in Events /\ Rest \in Seq(Frames)
  BY NowType, CoreInvParts DEF ProcessMotion, Process, Doing
<1>2. Now.e.at \in Windows /\ Now.e.id \in 0 .. MaxEvents
  BY <1>1 DEF Events
<1>3. TraceAt(Now.e.at) \in Windows
  BY <1>2, TraceType
<1>4. SyncStep
  BY <1>1, StackStep DEF ProcessMotion, Process
<1>5. OthersType'
  <2>1. Processed
    BY DEF ProcessMotion
  <2> QED BY <1>2, <1>3, <2>1, ProcessedType, CoreInvParts
          DEF ProcessMotion, Process, OthersType, hardware, windows, holdings
<1> QED BY <1>4, <1>5, CoreInvStep, CoreInvParts DEF ProcessMotion, Process

LEMMA ProcessRepeatStep ==
  ASSUME CoreInv, ProcessRepeat
  PROVE  CoreInv'
<1>1. Now.e \in Events /\ Rest \in Seq(Frames)
  BY NowType, CoreInvParts DEF ProcessRepeat, Process, Doing
<1>2. [Now.e EXCEPT !.type = "release"] \in Events
  BY <1>1 DEF Events, EventTypes
<1>3. /\ InputFrame([Now.e EXCEPT !.type = "release"]) \in Frames
      /\ InputFrame(Now.e) \in Frames
  BY <1>1, <1>2, InputFrameType
<1>4. <<InputFrame([Now.e EXCEPT !.type = "release"]), InputFrame(Now.e)>> \in Seq(Frames)
  BY <1>3
<1>5. todo' \in Seq(Frames)
  BY <1>1, <1>4, ConcatProperties DEF ProcessRepeat
<1>6. SyncStep
  BY <1>5, StackStep DEF ProcessRepeat, Process
<1>7. OthersType'
  BY CoreInvParts
  DEF ProcessRepeat, Process, OthersType, device, hardware, sprite, windows, holdings
<1> QED BY <1>6, <1>7, CoreInvStep, CoreInvParts DEF ProcessRepeat, Process

(* What ProcessPress and ProcessRelease have in common.                      *)
LEMMA ProcessKeyOrButton ==
  ASSUME CoreInv, NEW type, Process(type), Processed, NEW pressed \in BOOLEAN,
         down' = [down EXCEPT ![Now.d] = pressed], UNCHANGED <<activatingKey, sprite>>
  PROVE  /\ Now.d \in Devices /\ [Now.e EXCEPT !.at = hot] \in Events
         /\ Rest \in Seq(Frames)
         /\ OthersType' /\ UNCHANGED pending /\ pending \in Seq(Events)
         /\ Triggers(Now.d, 1, traceGood) \subseteq
              {w \in Windows : passive[w][Now.d] # NoGrab}
         /\ traceGood \in Windows
<1>1. Now.e \in Events /\ Now.d \in Devices /\ Rest \in Seq(Frames)
  BY NowType, CoreInvParts DEF Process, Doing
<1>2. Now.e.id \in 0 .. MaxEvents
  BY <1>1 DEF Events
<1>3. OthersType'
  BY <1>2, ProcessedType, CoreInvParts
  DEF Process, OthersType, sprite, hardware, windows, holdings
<1>4. hot \in Windows /\ traceGood \in Windows
  BY CoreInvParts DEF OthersType
<1>5. [Now.e EXCEPT !.at = hot] \in Events
  BY <1>1, <1>4 DEF Events
<1>6. Triggers(Now.d, 1, traceGood) \subseteq {w \in Windows : passive[w][Now.d] # NoGrab}
  BY <1>4, GrabsAssumption DEF Triggers, Windows
<1> QED BY <1>1, <1>3, <1>4, <1>5, <1>6, CoreInvParts DEF Process

LEMMA ProcessPressStep ==
  ASSUME CoreInv, ProcessPress
  PROVE  CoreInv'
<1> DEFINE d == Now.d
           e == [Now.e EXCEPT !.at = hot]
           ws == Triggers(d, 1, traceGood)
<1>1. /\ d \in Devices /\ e \in Events /\ Rest \in Seq(Frames)
      /\ OthersType' /\ UNCHANGED pending /\ pending \in Seq(Events)
      /\ ws \subseteq {w \in Windows : passive[w][d] # NoGrab}
      /\ traceGood \in Windows
  BY ProcessKeyOrButton DEF ProcessPress
<1>2. \/ \E w \in Windows : First(w, ws) /\ ActivatePassive(d, e, w, TRUE)
      \/ DeliverUngrabbed(e, traceGood)
      \/ sync[d].grab # NoGrab /\ DeliverGrabbed(d, e)
  BY DEF ProcessPress
<1> HIDE DEF d, e, ws
<1>3. CASE \E w \in Windows : First(w, ws) /\ ActivatePassive(d, e, w, TRUE)
  <2>1. PICK w \in Windows : First(w, ws) /\ ActivatePassive(d, e, w, TRUE)
    BY <1>3
  <2>2. passive[w][d] # NoGrab
    BY <2>1, <1>1 DEF First
  <2>3. SyncStep
    BY <1>1, <2>1, <2>2, ActivatePassiveStep
  <2> QED BY <2>3, <1>1, CoreInvStep
<1>4. CASE DeliverUngrabbed(e, traceGood)
  BY <1>4, <1>1, DeliverUngrabbedStep, CoreInvStep
<1>5. CASE sync[d].grab # NoGrab /\ DeliverGrabbed(d, e)
  BY <1>5, <1>1, DeliverGrabbedStep, CoreInvStep
<1> QED BY <1>2, <1>3, <1>4, <1>5

LEMMA HoldEventStep ==
  ASSUME CoreInv, HoldEvent
  PROVE  CoreInv'
<1> DEFINE d == Now.d
           h == [sync EXCEPT ![d].state = "FROZEN_WITH_EVENT", ![d].event = Now.e]
<1>1. /\ Now.e \in Events /\ d \in Devices /\ Now.live \in BOOLEAN
      /\ Rest \in Seq(Frames)
  BY NowType, CoreInvParts DEF HoldEvent, Doing
<1>2. sync' = sync \/ (sync[d].state = "FROZEN_NO_EVENT" /\ sync' = h)
  BY DEF HoldEvent
<1>3. /\ sync' \in SyncType /\ Coherent(sync') /\ Flagged(sync')
      /\ \A o \in Devices : sync'[o].frozen = sync[o].frozen
  <2>1. CASE sync' = sync
    BY <2>1, CoreInvParts
  <2>2. CASE sync[d].state = "FROZEN_NO_EVENT" /\ sync' = h
    <3>1. h \in SyncType
      <4> DEFINE r == [sync[d] EXCEPT !.state = "FROZEN_WITH_EVENT", !.event = Now.e]
      <4>1. "FROZEN_WITH_EVENT" \in States
        BY DEF States, FROZEN
      <4>2. sync[d] \in Syncs
        BY <1>1, CoreInvParts DEF SyncType
      <4>3. r \in Syncs
        BY <1>1, <4>1, <4>2 DEF Syncs
      <4>4. h = [sync EXCEPT ![d] = r]
        BY Zenon
      <4> HIDE DEF r, h
      <4> QED BY <1>1, <4>3, <4>4, CoreInvParts DEF SyncType
    <3>2. \A o \in Devices :
            /\ h[o].grab = sync[o].grab /\ h[o].fromPassive = sync[o].fromPassive
            /\ h[o].other = sync[o].other /\ h[o].frozen = sync[o].frozen
            /\ \/ h[o].state = sync[o].state
               \/ h[o].state = "FROZEN_WITH_EVENT" /\ sync[o].state = "FROZEN_NO_EVENT"
      BY <1>1, <2>2, CoreInvParts DEF SyncType, Syncs
    <3>3. \A o \in Devices : sync[o].other \in Devices \cup {None}
      BY CoreInvParts DEF SyncType, Syncs
    <3> HIDE DEF h
    <3>4. Coherent(h)
      BY <3>2, <3>3, CoreInvParts DEF Coherent
    <3>5. Flagged(h)
      BY <3>2, CoreInvParts DEF Flagged, FROZEN
    <3> QED BY <2>2, <3>1, <3>2, <3>4, <3>5
  <2> QED BY <1>2, <2>1, <2>2
<1>4. NothingLeftBehind'
  BY <1>3, PendingType, CoreInvParts DEF HoldEvent, NothingLeftBehind
<1>5. SyncStep
  BY <1>1, <1>3, <1>4, CoreInvParts DEF HoldEvent, SyncStep
<1>6. OthersType'
  BY <1>1, CoreInvParts
  DEF HoldEvent, OthersType, hardware, sprite, windows, holdings
<1> QED BY <1>5, <1>6, CoreInvStep, CoreInvParts DEF HoldEvent

LEMMA ProcessReleaseStep ==
  ASSUME CoreInv, ProcessRelease
  PROVE  CoreInv'
<1> DEFINE d == Now.d
           e == [Now.e EXCEPT !.at = hot]
<1>1. /\ d \in Devices /\ e \in Events /\ Rest \in Seq(Frames)
      /\ OthersType' /\ UNCHANGED pending /\ pending \in Seq(Events)
  BY ProcessKeyOrButton DEF ProcessRelease
<1>2. \/ todo' = Rest /\ UNCHANGED <<sync, playing>>
      \/ ComputeFreezes(Deactivated(sync, d), <<>>, Rest)
      \/ sync[d].grab # NoGrab /\ DeliverGrabbed(d, e)
  BY DEF ProcessRelease
<1> HIDE DEF d, e
<1>3. CASE todo' = Rest /\ UNCHANGED <<sync, playing>>
  BY <1>3, <1>1, StackStep, CoreInvStep
<1>4. CASE ComputeFreezes(Deactivated(sync, d), <<>>, Rest)
  BY <1>4, <1>1, ReleaseStep, CoreInvStep
<1>5. CASE sync[d].grab # NoGrab /\ DeliverGrabbed(d, e)
  BY <1>5, <1>1, DeliverGrabbedStep, CoreInvStep
<1> QED BY <1>2, <1>3, <1>4, <1>5
LEMMA ReplayStep ==
  ASSUME CoreInv, Replay
  PROVE  CoreInv'
<1> DEFINE e == Now.e
           d == Now.d
           trace == TraceAt(e.at)
           ws == IF e.type = "press" /\ Now.w <= trace /\ (d = "ptr" => down["ptr"])
                   THEN Triggers(d, Now.w + 1, trace) ELSE {}
<1>1. /\ e \in Events /\ d \in Devices /\ Now.w \in Windows /\ Rest \in Seq(Frames)
  BY NowType, CoreInvParts DEF Replay, Doing
<1>2. trace \in Windows
  BY <1>1, TraceType DEF Events
<1>3. ws \subseteq {w \in Windows : passive[w][d] # NoGrab}
  BY <1>1, <1>2, GrabsAssumption DEF Triggers, Windows
<1>4. UNCHANGED pending /\ pending \in Seq(Events)
  BY CoreInvParts DEF Replay
<1>5. OthersType'
  BY <1>2, CoreInvParts DEF Replay, OthersType, device, hardware, windows, holdings
<1>6. \/ \E w \in Windows : First(w, ws) /\ ActivatePassive(d, e, w, FALSE)
      \/ DeliverUngrabbed(e, trace)
  BY DEF Replay
<1> HIDE DEF d, e, ws, trace
<1>7. CASE \E w \in Windows : First(w, ws) /\ ActivatePassive(d, e, w, FALSE)
  <2>1. PICK w \in Windows : First(w, ws) /\ ActivatePassive(d, e, w, FALSE)
    BY <1>7
  <2>2. passive[w][d] # NoGrab
    BY <2>1, <1>3 DEF First
  <2>3. SyncStep
    BY <1>1, <1>4, <2>1, <2>2, ActivatePassiveStep
  <2> QED BY <2>3, <1>4, <1>5, CoreInvStep
<1>8. CASE DeliverUngrabbed(e, trace)
  BY <1>8, <1>1, <1>2, <1>4, <1>5, DeliverUngrabbedStep, CoreInvStep
<1> QED BY <1>6, <1>7, <1>8

(* The queue without one of its events.                                      *)
LEMMA WithoutType ==
  ASSUME NEW s \in Seq(Events), NEW i \in 1 .. Len(s)
  PROVE  Without(s, i) \in Seq(Events)
<1>1. Len(s) \in Nat /\ \A j \in 1 .. Len(s) : s[j] \in Events
  BY LenProperties, ElementOfSeq
<1>2. SubSeq(s, 1, i - 1) \in Seq(Events)
  BY <1>1, SubSeqProperties
<1>3. SubSeq(s, i + 1, Len(s)) \in Seq(Events)
  BY <1>1, SubSeqProperties
<1> QED BY <1>2, <1>3, ConcatProperties DEF Without

LEMMA PlayOneStep ==
  ASSUME CoreInv, PlayOne
  PROVE  CoreInv'
<1>1. PICK i \in 1 .. Len(pending) :
        /\ NextPlayable(i) /\ pending' = Without(pending, i)
        /\ todo' = <<InputFrame(pending[i])>> \o todo
  BY DEF PlayOne
<1>2. playing
  BY <1>1, CoreInvParts DEF NextPlayable, First, Playable, NothingLeftBehind
<1>3. pending' \in Seq(Events)
  BY <1>1, WithoutType, CoreInvParts
<1>4. InputFrame(pending[i]) \in Frames
  BY PendingType, InputFrameType
<1>5. todo' \in Seq(Frames)
  BY <1>1, <1>4, PushType, CoreInvParts
<1>6. SyncStep
  BY <1>2, <1>5, CoreInvParts DEF PlayOne, SyncStep, NothingLeftBehind
<1>7. OthersType'
  BY CoreInvParts DEF PlayOne, OthersType, device, hardware, sprite, windows, holdings
<1> QED BY <1>3, <1>6, <1>7, CoreInvStep

LEMMA StopPlayingStep ==
  ASSUME CoreInv, StopPlaying
  PROVE  CoreInv'
<1>1. Rest \in Seq(Frames)
  BY NowType, CoreInvParts DEF StopPlaying, Doing
<1>2. NothingLeftBehind'
  BY DEF StopPlaying, NothingLeftBehind, Playable
<1>3. SyncStep
  BY <1>1, <1>2, CoreInvParts DEF StopPlaying, SyncStep
<1>4. OthersType'
  BY CoreInvParts DEF StopPlaying, OthersType, device, hardware, sprite, windows, holdings
<1> QED BY <1>3, <1>4, CoreInvStep, CoreInvParts DEF StopPlaying

LEMMA InputStep ==
  ASSUME CoreInv, Input
  PROVE  CoreInv'
BY DeviceEventStep, EnqueueEventStep, ProcessMotionStep, ProcessRepeatStep, ProcessPressStep,
   HoldEventStep, ProcessReleaseStep, ReplayStep, PlayOneStep, StopPlayingStep DEF Input

-----------------------------------------------------------------------------
(* Requests. *)
LEMMA RequestUnchanged ==
  ASSUME CoreInv, NEW c, Request(c), UNCHANGED <<mapped, changes>>,
         passive' \in [Windows -> [Devices -> PassiveGrabs \cup {NoGrab}]]
  PROVE  OthersType' /\ pending' \in Seq(Events) /\ UNCHANGED pending
BY CoreInvParts DEF Request, OthersType, device, hardware, sprite

LEMMA GrabDeviceStep ==
  ASSUME CoreInv, NEW c \in Clients, NEW d \in Devices, NEW w \in Windows,
         NEW thisSync \in BOOLEAN, NEW otherSync \in BOOLEAN,
         GrabDevice(c, d, w, thisSync, otherSync)
  PROVE  CoreInv'
<1> DEFINE s == Activated(sync, d, [client |-> c, win |-> w], thisSync, otherSync, FALSE)
<1>1. s \in SyncType /\ Coherent(s)
  BY ActiveGrabType, ActivatedType, CoreInvParts
<1>2. ComputeFreezes(s, <<>>, <<>>)
  BY DEF GrabDevice
<1> HIDE DEF s
<1>3. OthersType' /\ pending' \in Seq(Events) /\ UNCHANGED pending
  BY RequestUnchanged, CoreInvParts DEF GrabDevice, OthersType
<1>4. SyncStep
  BY <1>1, <1>2, <1>3, EmptySeq, ComputeFreezesStep, CoreInvParts
<1> QED BY <1>3, <1>4, CoreInvStep

LEMMA UngrabDeviceStep ==
  ASSUME CoreInv, NEW c \in Clients, NEW d \in Devices, UngrabDevice(c, d)
  PROVE  CoreInv'
<1>1. OthersType' /\ pending' \in Seq(Events) /\ UNCHANGED pending
  BY RequestUnchanged, CoreInvParts DEF UngrabDevice, OthersType
<1>2. SyncStep
  BY <1>1, EmptySeq, ReleaseStep DEF UngrabDevice
<1> QED BY <1>1, <1>2, CoreInvStep

LEMMA GrabPassivelyStep ==
  ASSUME CoreInv, NEW c \in Clients, NEW d \in Devices, NEW w \in Windows,
         NEW thisSync \in BOOLEAN, NEW otherSync \in BOOLEAN,
         GrabPassively(c, d, w, thisSync, otherSync)
  PROVE  CoreInv'
<1> DEFINE p == [client |-> c, this |-> thisSync, other |-> otherSync]
<1>1. p \in PassiveGrabs
  BY DEF PassiveGrabs
<1>2. passive' = [passive EXCEPT ![w][d] = p]
  BY DEF GrabPassively
<1> HIDE DEF p
<1>3. passive' \in [Windows -> [Devices -> PassiveGrabs \cup {NoGrab}]]
  BY <1>1, <1>2, CoreInvParts DEF OthersType
<1>4. OthersType' /\ pending' \in Seq(Events) /\ UNCHANGED pending
  BY <1>3, RequestUnchanged DEF GrabPassively
<1>5. SyncStep
  BY <1>4, StackStep, CoreInvParts DEF GrabPassively
<1> QED BY <1>4, <1>5, CoreInvStep

LEMMA UngrabPassivelyStep ==
  ASSUME CoreInv, NEW c \in Clients, NEW d \in Devices, NEW w \in Windows,
         UngrabPassively(c, d, w)
  PROVE  CoreInv'
<1>1. passive' \in [Windows -> [Devices -> PassiveGrabs \cup {NoGrab}]]
  BY CoreInvParts DEF UngrabPassively, OthersType
<1>2. OthersType' /\ pending' \in Seq(Events) /\ UNCHANGED pending
  BY <1>1, RequestUnchanged DEF UngrabPassively
<1>3. SyncStep
  BY <1>2, StackStep, CoreInvParts DEF UngrabPassively
<1> QED BY <1>2, <1>3, CoreInvStep

LEMMA AllowedType ==
  ASSUME CoreInv, NEW c \in Clients, NEW d \in Devices, NEW mode \in Modes
  PROVE  Allowed(c, d, mode) \in SyncType /\ Coherent(Allowed(c, d, mode))
<1>1. CASE mode = "Replay"
  <2> DEFINE t == Thawed({d}, c, sync[d].state)
  <2>1. sync[d].state \in States
    BY CoreInvParts DEF SyncType, Syncs
  <2>2. t \in SyncType /\ Coherent(t)
    BY <2>1, ThawedType, CoreInvParts
  <2> HIDE DEF t
  <2>3. Deactivated(t, d) \in SyncType /\ Coherent(Deactivated(t, d))
    BY <2>2, DeactivatedType
  <2>4. Allowed(c, d, mode) = Deactivated(t, d)
    BY <1>1, Zenon DEF Allowed, t
  <2> QED BY <2>3, <2>4
<1>2. CASE mode # "Replay"
  <2>1. NewState(mode) \in States /\ NewState(mode) # "NOT_GRABBED"
    BY <1>2 DEF NewState, Modes, States
  <2>2. \A ds \in SUBSET Devices :
          /\ Thawed(ds, c, NewState(mode)) \in SyncType
          /\ Coherent(Thawed(ds, c, NewState(mode)))
    BY <2>1, ThawedType, CoreInvParts
  <2>3. \E ds \in SUBSET Devices : Allowed(c, d, mode) = Thawed(ds, c, NewState(mode))
    BY <1>2 DEF Allowed
  <2> QED BY <2>2, <2>3
<1> QED BY <1>1, <1>2

LEMMA AllowSomeStep ==
  ASSUME CoreInv, NEW c \in Clients, NEW d \in Devices, NEW mode \in Modes,
         AllowSome(c, d, mode)
  PROVE  CoreInv'
<1> DEFINE replay == IF mode = "Replay"
                       THEN <<Frame("replay", sync[d].event, d, sync[d].grab.win, None, FALSE)>>
                       ELSE <<>>
<1>1. Allowed(c, d, mode) \in SyncType /\ Coherent(Allowed(c, d, mode))
  BY AllowedType
<1>2. replay \in Seq(Frames)
  <2>1. CASE mode = "Replay"
    <3>1. sync[d].grab # NoGrab
      BY <2>1 DEF AllowSome, Applies, ThisGrabbed, GrabbedBy
    <3>2. sync[d].event \in Events /\ sync[d].grab.win \in Windows
      BY <3>1, CoreInvParts DEF SyncType, Syncs, ActiveGrabs
    <3>3. Frame("replay", sync[d].event, d, sync[d].grab.win, None, FALSE) \in Frames
      BY <3>2, FrameType DEF Ops
    <3>4. <<Frame("replay", sync[d].event, d, sync[d].grab.win, None, FALSE)>> \in Seq(Frames)
      <4> DEFINE f == Frame("replay", sync[d].event, d, sync[d].grab.win, None, FALSE)
      <4>1. f \in Frames
        BY <3>3
      <4> HIDE DEF f
      <4>2. <<f>> \in Seq(Frames)
        BY <4>1
      <4> QED BY <4>2, Zenon DEF f
    <3> QED BY <3>4, <2>1, Zenon
  <2>2. CASE mode # "Replay"
    BY <2>2, EmptySeq
  <2> QED BY <2>1, <2>2
<1>3. ComputeFreezes(Allowed(c, d, mode), replay, <<>>)
  BY DEF AllowSome
<1> HIDE DEF replay
<1>4. OthersType' /\ pending' \in Seq(Events) /\ UNCHANGED pending
  BY RequestUnchanged, CoreInvParts DEF AllowSome, OthersType
<1>5. SyncStep
  BY <1>1, <1>2, <1>3, <1>4, EmptySeq, ComputeFreezesStep, CoreInvParts
<1> QED BY <1>4, <1>5, CoreInvStep

LEMMA RequestsStep ==
  ASSUME CoreInv, Requests
  PROVE  CoreInv'
BY GrabDeviceStep, UngrabDeviceStep, GrabPassivelyStep, UngrabPassivelyStep, AllowSomeStep
DEF Requests
-----------------------------------------------------------------------------
(* Windows. *)
LEMMA UnmapFramesType ==
  ASSUME NEW w \in Windows
  PROVE  UnmapFrames(w) \in Seq(Frames)
<1>1. /\ WindowFrame("unrealize", "ptr", w) \in Frames
      /\ WindowFrame("restructure", "ptr", w) \in Frames
  BY WindowFrameType DEF Ops, Devices
<1> QED BY <1>1 DEF UnmapFrames

LEMMA DeleteFramesType ==
  ASSUME NEW w \in Windows
  PROVE  DeleteFrames(w) \in Seq(Frames)
<1>1. WindowFrame("delete", "ptr", w) \in Frames /\ WindowFrame("delete", "kbd", w) \in Frames
  BY WindowFrameType DEF Ops, Devices
<1> QED BY <1>1 DEF DeleteFrames

LEMMA DeleteWindowType ==
  ASSUME NEW w \in Windows, NEW rest \in Seq(Frames), CoreInv, DeleteWindow(w, rest)
  PROVE  todo' \in Seq(Frames) /\ mapped' \in [Windows -> BOOLEAN]
<1>1. WindowFrame("crush", "ptr", w) \in Frames
  BY WindowFrameType DEF Ops, Devices
<1>2. UnmapFrames(w) \o <<WindowFrame("crush", "ptr", w)>> \in Seq(Frames)
  <2>1. <<WindowFrame("crush", "ptr", w)>> \in Seq(Frames)
    BY <1>1
  <2> QED BY <2>1, UnmapFramesType, ConcatProperties
<1>3. todo' \in Seq(Frames)
  BY <1>2, ConcatProperties DEF DeleteWindow
<1> QED BY <1>3, CoreInvParts DEF DeleteWindow, Unmapped, OthersType

(* An operation on windows or clients that a request or a frame starts.      *)
LEMMA ChangeUnchanged ==
  ASSUME CoreInv, NEW c, Request(c), Change, UNCHANGED passive,
         mapped' \in [Windows -> BOOLEAN]
  PROVE  OthersType' /\ pending' \in Seq(Events) /\ UNCHANGED pending
BY CoreInvParts, GrabsAssumption DEF Request, Change, OthersType, device, hardware, sprite

LEMMA MapWindowStep ==
  ASSUME CoreInv, NEW c \in Clients, NEW w \in Windows, MapWindow(c, w)
  PROVE  CoreInv'
<1>1. WindowFrame("restructure", "ptr", w) \in Frames
  BY WindowFrameType DEF Ops, Devices
<1>2. todo' \in Seq(Frames)
  BY <1>1, EmptySeq DEF MapWindow
<1>3. mapped' \in [Windows -> BOOLEAN]
  BY CoreInvParts DEF MapWindow, OthersType
<1>4. OthersType' /\ pending' \in Seq(Events) /\ UNCHANGED pending
  BY <1>3, ChangeUnchanged DEF MapWindow
<1>5. SyncStep
  BY <1>2, <1>4, StackStep DEF MapWindow
<1> QED BY <1>4, <1>5, CoreInvStep

LEMMA UnmapWindowStep ==
  ASSUME CoreInv, NEW c \in Clients, NEW w \in Windows, UnmapWindow(c, w)
  PROVE  CoreInv'
<1>1. todo' \in Seq(Frames)
  BY UnmapFramesType DEF UnmapWindow
<1>2. mapped' \in [Windows -> BOOLEAN]
  BY CoreInvParts DEF UnmapWindow, Unmapped, OthersType
<1>3. OthersType' /\ pending' \in Seq(Events) /\ UNCHANGED pending
  BY <1>2, ChangeUnchanged DEF UnmapWindow
<1>4. SyncStep
  BY <1>1, <1>3, StackStep DEF UnmapWindow
<1> QED BY <1>3, <1>4, CoreInvStep

LEMMA DestroyWindowStep ==
  ASSUME CoreInv, NEW c \in Clients, NEW w \in Windows, DestroyWindow(c, w)
  PROVE  CoreInv'
<1>1. todo' \in Seq(Frames) /\ mapped' \in [Windows -> BOOLEAN]
  BY DeleteWindowType, EmptySeq DEF DestroyWindow
<1>2. OthersType' /\ pending' \in Seq(Events) /\ UNCHANGED pending
  BY <1>1, ChangeUnchanged DEF DestroyWindow
<1>3. SyncStep
  BY <1>1, <1>2, StackStep DEF DestroyWindow
<1> QED BY <1>2, <1>3, CoreInvStep

(* A frame that pushes others in its place.                                  *)
LEMMA FrameStep ==
  ASSUME CoreInv, todo' \in Seq(Frames), WindowStepUnchanged
  PROVE  CoreInv'
<1>1. SyncStep
  BY StackStep DEF WindowStepUnchanged
<1>2. OthersType'
  BY CoreInvParts DEF WindowStepUnchanged, OthersType, device, hardware, sprite, windows, holdings
<1> QED BY <1>1, <1>2, CoreInvStep, CoreInvParts DEF WindowStepUnchanged

LEMMA UnrealizeTreeStep ==
  ASSUME CoreInv, UnrealizeTree
  PROVE  CoreInv'
<1> DEFINE child == Now.w + 1
           next == IF child \in exists /\ mapped[child]
                     THEN <<WindowFrame("unrealize", "ptr", child)>> ELSE <<>>
<1>1. Now.w \in Windows /\ Rest \in Seq(Frames)
  BY NowType, CoreInvParts DEF UnrealizeTree, Doing
<1>2. next \in Seq(Frames)
  <2>1. child \in exists => WindowFrame("unrealize", "ptr", child) \in Frames
    BY WindowFrameType, CoreInvParts DEF OthersType, Ops, Devices
  <2> QED BY <2>1, EmptySeq
<1>3. todo' = DeleteFrames(Now.w) \o next \o Rest
  BY DEF UnrealizeTree
<1> HIDE DEF next
<1>4. DeleteFrames(Now.w) \o next \in Seq(Frames)
  BY <1>1, <1>2, DeleteFramesType, ConcatProperties
<1>5. todo' \in Seq(Frames)
  BY <1>1, <1>3, <1>4, ConcatProperties
<1> QED BY <1>5, FrameStep DEF UnrealizeTree

LEMMA CrushTreeStep ==
  ASSUME CoreInv, CrushTree
  PROVE  CoreInv'
<1> DEFINE child == Now.w + 1
           next == IF child \in exists THEN <<WindowFrame("crush", "ptr", child)>> ELSE <<>>
           vanish == <<WindowFrame("vanish", "ptr", Now.w)>>
<1>1. Now.w \in Windows /\ Rest \in Seq(Frames)
  BY NowType, CoreInvParts DEF CrushTree, Doing
<1>2. next \in Seq(Frames)
  <2>1. child \in exists => WindowFrame("crush", "ptr", child) \in Frames
    BY WindowFrameType, CoreInvParts DEF OthersType, Ops, Devices
  <2> QED BY <2>1, EmptySeq
<1>3. vanish \in Seq(Frames)
  <2>1. WindowFrame("vanish", "ptr", Now.w) \in Frames
    BY <1>1, WindowFrameType DEF Ops, Devices
  <2> QED BY <2>1
<1>4. todo' = next \o DeleteFrames(Now.w) \o vanish \o Rest
  BY DEF CrushTree
<1> HIDE DEF next, vanish
<1>5. next \o DeleteFrames(Now.w) \in Seq(Frames)
  BY <1>1, <1>2, DeleteFramesType, ConcatProperties
<1>6. next \o DeleteFrames(Now.w) \o vanish \in Seq(Frames)
  BY <1>3, <1>5, ConcatProperties
<1>7. todo' \in Seq(Frames)
  BY <1>1, <1>4, <1>6, ConcatProperties
<1> QED BY <1>7, FrameStep DEF CrushTree

LEMMA VanishStep ==
  ASSUME CoreInv, Vanish
  PROVE  CoreInv'
<1>1. Rest \in Seq(Frames)
  BY NowType, CoreInvParts DEF Vanish, Doing
<1>2. SyncStep
  BY <1>1, StackStep DEF Vanish
<1>3. OthersType'
  BY CoreInvParts DEF Vanish, OthersType, device, hardware, sprite
<1> QED BY <1>2, <1>3, CoreInvStep, CoreInvParts DEF Vanish

LEMMA DeleteFromDeviceStep ==
  ASSUME CoreInv, DeleteFromDevice
  PROVE  CoreInv'
<1>1. Now.d \in Devices /\ Rest \in Seq(Frames)
  BY NowType, CoreInvParts DEF DeleteFromDevice, Doing
<1>2. UNCHANGED pending
  BY DEF DeleteFromDevice
<1>3. OthersType'
  BY CoreInvParts DEF DeleteFromDevice, OthersType, device, hardware, sprite, windows, holdings
<1>4. CASE ComputeFreezes(Deactivated(sync, Now.d), <<>>, Rest)
  BY <1>1, <1>2, <1>3, <1>4, ReleaseStep, CoreInvStep, CoreInvParts
<1>5. CASE todo' = Rest /\ UNCHANGED <<sync, playing>>
  BY <1>1, <1>2, <1>3, <1>5, StackStep, CoreInvStep, CoreInvParts
<1> QED BY <1>4, <1>5 DEF DeleteFromDevice

LEMMA WindowsRestructuredStep ==
  ASSUME CoreInv, WindowsRestructured
  PROVE  CoreInv'
<1>1. Rest \in Seq(Frames)
  BY NowType, CoreInvParts DEF WindowsRestructured, Doing
<1>2. TraceAt(hot) \in Windows
  BY TraceType, CoreInvParts DEF OthersType
<1>3. SyncStep
  BY <1>1, StackStep DEF WindowsRestructured
<1>4. OthersType'
  BY <1>2, CoreInvParts DEF WindowsRestructured, OthersType, device, hardware, windows, holdings
<1> QED BY <1>3, <1>4, CoreInvStep, CoreInvParts DEF WindowsRestructured

LEMMA WindowOpsStep ==
  ASSUME CoreInv, WindowOps
  PROVE  CoreInv'
BY MapWindowStep, UnmapWindowStep, DestroyWindowStep, UnrealizeTreeStep, CrushTreeStep, VanishStep,
   DeleteFromDeviceStep, WindowsRestructuredStep DEF WindowOps

-----------------------------------------------------------------------------
(* Clients. *)
LEMMA CloseDownClientStep ==
  ASSUME CoreInv, NEW c \in Clients, NEW keep \in BOOLEAN, CloseDownClient(c, keep)
  PROVE  CoreInv'
<1>1. /\ ClientFrame("release", c) \in Frames
      /\ ClientFrame(IF keep THEN "retain" ELSE "gone", c) \in Frames
  BY ClientFrameType DEF Ops
<1>2. todo' \in Seq(Frames)
  BY <1>1 DEF CloseDownClient
<1>3. OthersType' /\ pending' \in Seq(Events) /\ UNCHANGED pending
  BY ChangeUnchanged, CoreInvParts DEF CloseDownClient, OthersType
<1>4. SyncStep
  BY <1>2, <1>3, StackStep DEF CloseDownClient
<1> QED BY <1>3, <1>4, CoreInvStep

LEMMA CloseDownRetainedStep ==
  ASSUME CoreInv, NEW c \in Clients, CloseDownRetained(c)
  PROVE  CoreInv'
<1>1. ClientFrame("free", c) \in Frames
  BY ClientFrameType DEF Ops
<1>2. todo' \in Seq(Frames)
  BY <1>1 DEF CloseDownRetained
<1>3. SyncStep
  BY <1>2, StackStep DEF CloseDownRetained, ClientUnchanged
<1>4. OthersType'
  BY CoreInvParts
  DEF CloseDownRetained, ClientUnchanged, OthersType, device, hardware, sprite, windows
<1> QED BY <1>3, <1>4, CoreInvStep, CoreInvParts DEF CloseDownRetained, ClientUnchanged

LEMMA ReleaseActiveGrabsStep ==
  ASSUME CoreInv, ReleaseActiveGrabs
  PROVE  CoreInv'
<1>1. Rest \in Seq(Frames) /\ todo \in Seq(Frames)
  BY NowType, CoreInvParts DEF ReleaseActiveGrabs, Doing
<1>2. UNCHANGED pending
  BY DEF ReleaseActiveGrabs, ClientUnchanged
<1>3. OthersType'
  BY CoreInvParts
  DEF ReleaseActiveGrabs, ClientUnchanged, OthersType, device, hardware, sprite, windows, holdings
<1>4. ASSUME NEW d \in Devices, ComputeFreezes(Deactivated(sync, d), <<>>, todo)
      PROVE  CoreInv'
  BY <1>1, <1>2, <1>3, <1>4, ReleaseStep, CoreInvStep, CoreInvParts
<1>5. CASE todo' = Rest /\ UNCHANGED <<sync, playing>>
  BY <1>1, <1>2, <1>3, <1>5, StackStep, CoreInvStep, CoreInvParts
<1> QED BY <1>4, <1>5 DEF ReleaseActiveGrabs

LEMMA WithoutPassiveOfType ==
  ASSUME OthersType, NEW c
  PROVE  WithoutPassiveOf(c) \in [Windows -> [Devices -> PassiveGrabs \cup {NoGrab}]]
BY DEF WithoutPassiveOf, OthersType

LEMMA RetainClientStep ==
  ASSUME CoreInv, RetainClient
  PROVE  CoreInv'
<1>1. Rest \in Seq(Frames)
  BY NowType, CoreInvParts DEF RetainClient, Doing
<1>2. SyncStep
  BY <1>1, StackStep DEF RetainClient, ClientUnchanged
<1>3. OthersType'
  BY WithoutPassiveOfType, CoreInvParts
  DEF RetainClient, ClientUnchanged, OthersType, device, hardware, sprite, windows
<1> QED BY <1>2, <1>3, CoreInvStep, CoreInvParts DEF RetainClient, ClientUnchanged

LEMMA ClientGoneStep ==
  ASSUME CoreInv, ClientGone
  PROVE  CoreInv'
<1>1. Rest \in Seq(Frames) /\ Now.c \in Clients \cup {None}
  BY NowType, CoreInvParts DEF ClientGone, Doing
<1>2. ClientFrame("free", Now.c) \in Frames
  BY <1>1, ClientFrameType DEF Ops
<1>3. todo' \in Seq(Frames)
  BY <1>1, <1>2, PushType DEF ClientGone
<1>4. SyncStep
  BY <1>3, StackStep DEF ClientGone, ClientUnchanged
<1>5. OthersType'
  BY CoreInvParts DEF ClientGone, ClientUnchanged, OthersType, device, hardware, sprite, windows
<1> QED BY <1>4, <1>5, CoreInvStep, CoreInvParts DEF ClientGone, ClientUnchanged

LEMMA FreeClientResourceStep ==
  ASSUME CoreInv, FreeClientResource
  PROVE  CoreInv'
<1>1. Rest \in Seq(Frames) /\ todo \in Seq(Frames) /\ exists \subseteq Windows
  BY NowType, CoreInvParts DEF FreeClientResource, Doing, OthersType
<1>2. /\ todo' \in Seq(Frames)
      /\ mapped' \in [Windows -> BOOLEAN]
      /\ passive' \in [Windows -> [Devices -> PassiveGrabs \cup {NoGrab}]]
  <2>1. ASSUME NEW w \in exists, NEW d \in Devices,
               passive' = [passive EXCEPT ![w][d] = NoGrab], UNCHANGED <<todo, mapped>>
        PROVE  <1>2!:
    BY <2>1, <1>1, CoreInvParts DEF OthersType
  <2>2. ASSUME NEW w \in exists, DeleteWindow(w, todo), UNCHANGED passive
        PROVE  <1>2!:
    BY <2>2, <1>1, DeleteWindowType, CoreInvParts DEF OthersType
  <2>3. CASE todo' = Rest /\ UNCHANGED <<passive, mapped>>
    BY <2>3, <1>1, CoreInvParts DEF OthersType
  <2> QED BY <2>1, <2>2, <2>3 DEF FreeClientResource
<1>3. SyncStep
  BY <1>2, StackStep DEF FreeClientResource, ClientUnchanged
<1>4. OthersType'
  BY <1>2, CoreInvParts
  DEF FreeClientResource, ClientUnchanged, OthersType, device, hardware, sprite
<1> QED BY <1>3, <1>4, CoreInvStep, CoreInvParts DEF FreeClientResource, ClientUnchanged

LEMMA ClientOpsStep ==
  ASSUME CoreInv, ClientOps
  PROVE  CoreInv'
BY CloseDownClientStep, CloseDownRetainedStep, ReleaseActiveGrabsStep, RetainClientStep,
   ClientGoneStep, FreeClientResourceStep DEF ClientOps

-----------------------------------------------------------------------------
LEMMA CoreInvInit ==
  ASSUME Init
  PROVE  CoreInv
<1>1. sync \in SyncType /\ Coherent(sync) /\ Flagged(sync)
  BY NoEventType DEF Init, SyncType, Syncs, States, Coherent, Flagged, FROZEN
<1>2. pending \in Seq(Events) /\ todo \in Seq(Frames) /\ playing \in BOOLEAN
  BY EmptySeq DEF Init
<1>3. OthersType
  <2>1. 1 \in Windows /\ Depth \in Windows
    BY GrabsAssumption DEF Windows
  <2>2. 0 \in 0 .. MaxEvents /\ 0 \in 0 .. MaxChanges
    BY GrabsAssumption
  <2>3. passive \in [Windows -> [Devices -> PassiveGrabs \cup {NoGrab}]]
    BY DEF Init
  <2>4. /\ down \in [Devices -> BOOLEAN] /\ hwDown \in [Devices -> BOOLEAN]
        /\ activatingKey \in BOOLEAN
        /\ mapped \in [Windows -> BOOLEAN]
        /\ exists \subseteq Windows
        /\ client \in [Clients -> {"running", "gone", "retained"}]
    BY DEF Init
  <2>5. /\ done \in [Devices -> 0 .. MaxEvents] /\ owed \in [Devices -> 0 .. MaxEvents]
        /\ keyLost \in BOOLEAN
    BY <2>2 DEF Init
  <2>6. /\ hot \in Windows /\ traceGood \in Windows
        /\ serial \in 0 .. MaxEvents /\ changes \in 0 .. MaxChanges
    BY <2>1, <2>2 DEF Init
  <2> QED BY <2>3, <2>4, <2>5, <2>6 DEF OthersType
<1>4. NothingLeftBehind
  BY EmptySeq DEF Init, NothingLeftBehind
<1> QED BY <1>1, <1>2, <1>3, <1>4 DEF CoreInv, TypeOK, OthersType, SyncType

LEMMA CoreInvInductive ==
  ASSUME CoreInv, [Next]_vars
  PROVE  CoreInv'
<1>1. CASE Next
  BY <1>1, InputStep, RequestsStep, WindowOpsStep, ClientOpsStep DEF Next
<1>2. CASE UNCHANGED vars
  BY <1>2
  DEF vars, device, hardware, sprite, windows, holdings, CoreInv, TypeOK, Coherent, Flagged,
      NothingLeftBehind
<1> QED BY <1>1, <1>2

LEMMA CoreInvAlways == Spec => []CoreInv
BY CoreInvInit, CoreInvInductive, PTL DEF Spec

(* The variables keep their types: no request, event or re-entered procedure *)
(* leaves a device, the queue or the stack in a state the code has no name   *)
(* for.                                                                      *)
THEOREM GrabsTypeCorrect == Spec => []TypeOK
<1>1. CoreInv => TypeOK
  BY DEF CoreInv
<1> QED BY <1>1, CoreInvAlways, PTL

(* A device is frozen exactly by its own grab's state or by another device's *)
(* active grab: whatever clients, windows and events do, sync.other never    *)
(* outlives the grab it points to.                                           *)
THEOREM FreezesAreAccounted == Spec => []FreezesAccounted
<1>1. CoreInv => FreezesAccounted
  BY DEF CoreInv, Coherent, Flagged, FreezesAccounted
<1> QED BY <1>1, CoreInvAlways, PTL

(* Every path that thaws a device plays its events: ComputeFreezes, called   *)
(* from a grab, its release, AllowEvents, or inside one another.             *)
THEOREM NothingIsLeftBehind == Spec => []NothingLeftBehind
<1>1. CoreInv => NothingLeftBehind
  BY DEF CoreInv
<1> QED BY <1>1, CoreInvAlways, PTL
=============================================================================
