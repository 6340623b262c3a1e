-------------------------------- MODULE Sync --------------------------------
(* The Synchronization extension (Xserver/Xext/sync.c): counters, the        *)
(* triggers registered on them, the clients an Await blocks, the alarms, and *)
(* the SERVERTIME counter with its timer.                                    *)
(*                                                                          *)
(* The server is one thread: a request or a wakeup handler is one step.     *)
(* Triggers are named by the alarm they are part of, or by <<client, i>> for *)
(* the i-th condition of the client's Await.                                 *)
(*                                                                          *)
(* Left out: priorities, byte swapping, who selected AlarmNotify events      *)
(* (they are sent with every change of state modelled here), failing        *)
(* allocations, close-down modes other than DestroyAll.                      *)
EXTENDS SyncValue, SequencesExt, FiniteSets

CONSTANTS Clients, Alarms,
          Counters,       \* the counters clients create
          SERVERTIME,     \* the system counter of the server's clock
          Owner,          \* the client part of an alarm's or counter's ID
          None,           \* no counter, or no such counter
          Freed,          \* a pointer to a counter that was freed
          Values,         \* the values requests set counters to, or add
          WaitLists,      \* the condition lists of Await requests
          AlarmRequests,  \* the attributes given to Create- and ChangeAlarm
          MaxTime         \* the last value of the clock

Triggers == Alarms \cup (Clients \X {1, 2})

(* The IDs of counters and alarms are different, and so are the special     *)
(* values.  A request names a counter or None; its types can be anything.   *)
Attribute == [counter |-> Counters \cup {SERVERTIME, None}, value_type |-> STRING,
              wait_value |-> XSyncValue, test_type |-> STRING,
              event_threshold |-> XSyncValue, delta |-> XSyncValue]
Gives(req, fields) == DOMAIN req \subseteq fields /\ \A f \in DOMAIN req : req[f] \in Attribute[f]
AlarmFields == {"counter", "value_type", "wait_value", "test_type", "delta"}
ConditionFields == {"counter", "value_type", "wait_value", "test_type", "event_threshold"}

ASSUME SyncAssumption ==
    /\ MaxTime \in XSyncValue /\ ~IsNegative(MaxTime)
    /\ Owner \in [Alarms \cup Counters -> Clients]
    /\ Values \subseteq XSyncValue
    /\ IsFiniteSet(Counters) /\ IsFiniteSet(Alarms)
    /\ SERVERTIME \notin Counters /\ Counters \cap Alarms = {} /\ None # Freed
    /\ {None, Freed} \cap (Counters \cup {SERVERTIME}) = {}
    /\ None \notin XSyncValue /\ None \notin Triggers
    /\ (Counters \cup Alarms) \cap (Clients \X {1, 2}) = {}
    /\ \A conds \in WaitLists :
           /\ DOMAIN conds \in {{1}, {1, 2}}
           /\ \A i \in DOMAIN conds : DOMAIN conds[i] = ConditionFields /\ Gives(conds[i], ConditionFields)
    /\ \A req \in AlarmRequests : Gives(req, AlarmFields)

VARIABLES state,   \* the extension's data, see TypeOK
          now      \* the clock read by GetTime

vars == <<state, now>>

Comparisons == {"PositiveComparison", "NegativeComparison"}
TestTypes == Comparisons \cup {"PositiveTransition", "NegativeTransition"}

Exists(s, c) == s.value[c] # None
Live(s) == DOMAIN s.trigger
Waits(s, cl) == { t \in Live(s) \ Alarms : t[1] = cl }
Zero == [hi |-> 0, lo |-> 0]
One == ValueAdd(Zero, [hi |-> 0, lo |-> 1])
-----------------------------------------------------------------------------
(* The SERVERTIME counter.                                                  *)

ServertimeQueryValue(s) == [s EXCEPT !.value[SERVERTIME] = now]

(* Tells ServertimeBracketValues, which removes the timer's handlers when   *)
(* it is given no upper bracket.                                            *)
SetBracket(s, b) == [s EXCEPT !.bracket = [greater |-> b.greater, less |-> b.less],
                              !.timer = IF b.newgt \/ b.newlt THEN b.newgt ELSE @]

(* A trigger of the counter may have the next value at which one changes.   *)
(* SERVERTIME never decreases.                                              *)
Narrowed(s, b, t) ==
    LET test == s.trigger[t].test_value
        type == s.trigger[t].test_type
    IN  CASE \/ type \notin {"PositiveComparison", "PositiveTransition"}
             \/ ~LessThan(s.value[SERVERTIME], test) -> b
          [] OTHER ->
             IF LessThan(test, b.greater) THEN [b EXCEPT !.greater = test, !.newgt = TRUE]
             ELSE IF type = "PositiveTransition" /\ GreaterThan(test, b.less)
             THEN [b EXCEPT !.less = test, !.newlt = TRUE]
             ELSE b

SyncComputeBracketValues(s, startOver) ==
    LET Narrow(b, t) == Narrowed(s, b, t)
        first == [newgt |-> FALSE, newlt |-> FALSE,
                  greater |-> IF startOver THEN MaxValue ELSE s.bracket.greater,
                  less |-> IF startOver THEN MinValue ELSE s.bracket.less]
    IN  SetBracket(s, FoldLeft(Narrow, first, s.list[SERVERTIME]))
-----------------------------------------------------------------------------
(* Triggers.                                                                *)

SyncDeleteTriggerFromCounter(s, t) ==
    LET c == s.trigger[t].counter
        unlinked == [s EXCEPT !.list[c] = RemoveFirst(@, t)]
    IN  CASE c = None -> s
          [] c = SERVERTIME -> SyncComputeBracketValues(unlinked, TRUE)
          [] OTHER -> unlinked

LinkOnly(s, t) ==
    LET c == s.trigger[t].counter
    IN  IF c = None THEN s ELSE [s EXCEPT !.list[c] = <<t>> \o @]
SyncAddTriggerToCounter(s, t) ==
    LET c == s.trigger[t].counter
        linked == [s EXCEPT !.list[c] = IF Contains(@, t) THEN @ ELSE <<t>> \o @]
    IN  CASE c = None -> s
          [] c = SERVERTIME -> SyncComputeBracketValues(linked, TRUE)
          [] OTHER -> linked

(* The four functions a trigger's CheckTrigger can point to.                *)
Test(type, old, value, test) ==
    CASE type = "PositiveComparison" -> GreaterOrEqual(value, test)
      [] type = "NegativeComparison" -> LessOrEqual(value, test)
      [] type = "PositiveTransition" -> LessThan(old, test) /\ GreaterOrEqual(value, test)
      [] type = "NegativeTransition" -> GreaterThan(old, test) /\ LessOrEqual(value, test)

CheckTrigger(s, t, old) ==
    LET r == s.trigger[t]
    IN  r.counter = None \/ Test(r.CheckTrigger, old, s.value[r.counter], r.test_value)

(* Is the trigger TRUE as it stands: the check made when a request has set   *)
(* it up.                                                                   *)
IsTrueLater(s, t) == s.trigger[t].counter = None
IsTrue(s, t) ==
    s.trigger[t].counter = None \/ CheckTrigger(s, t, s.value[s.trigger[t].counter])

AnyType(type) == type # None
KnownType(type) == type \in TestTypes

Ok(s) == [ok |-> TRUE, s |-> s]
Error(s) == [ok |-> FALSE, s |-> s]

Then(r, Continue(_)) == IF r.ok THEN Continue(r.s) ELSE r

(* The parts of SyncInitTrigger.  A new counter's list comes last; a system *)
(* counter is asked for its value.                                          *)
PointTo(s, t, new) ==
    IF new = s.trigger[t].counter THEN s
    ELSE [SyncDeleteTriggerFromCounter(s, t) EXCEPT !.trigger[t].counter = new]

Ask(s, c) == IF c = SERVERTIME THEN ServertimeQueryValue(s) ELSE s

InitTest(s, t, changes) ==
    LET r == s.trigger[t]
    IN  CASE "value_type" \in changes /\ r.value_type \notin {"Absolute", "Relative"} -> Error(s)
          [] "test_type" \in changes /\ ~KnownType(r.test_type) -> Error(s)
          [] OTHER -> Ok(IF "test_type" \in changes
                         THEN [s EXCEPT !.trigger[t].CheckTrigger = r.test_type] ELSE s)

InitValue(s, t, changes) ==
    LET r == s.trigger[t]
        Store(v) == [s EXCEPT !.trigger[t].test_value = v]
        sum == ValueAdd(s.value[r.counter], r.wait_value)
    IN  IF {"value_type", "wait_value"} \cap changes = {} THEN Ok(s)
        ELSE IF r.value_type = "Absolute" THEN Ok(Store(r.wait_value))
        ELSE IF r.counter = None THEN Error(s)
        ELSE IF AddOverflows(s.value[r.counter], r.wait_value) THEN Error(Store(sum))
        ELSE Ok(Store(sum))

InitList(s, t, isNew) ==
    Ok(CASE isNew -> SyncAddTriggerToCounter(s, t)
         [] ~isNew /\ s.trigger[t].counter = SERVERTIME -> SyncComputeBracketValues(s, TRUE)
         [] OTHER -> s)

(* SyncInitTrigger: the attributes named by changes, except the counter,    *)
(* have been stored in the trigger.  Each error leaves what was done before *)
(* it.                                                                      *)
SyncInitTrigger(s, t, counter, changes) ==
    LET new == IF "counter" \in changes THEN counter ELSE s.trigger[t].counter
    IN  IF new # None /\ ~Exists(s, new) THEN Error(s)
        ELSE Then(Then(InitTest(Ask(PointTo(s, t, new), new), t, changes),
                       LAMBDA u : InitValue(u, t, changes)),
                  LAMBDA u : InitList(u, t, new # s.trigger[t].counter))
-----------------------------------------------------------------------------
(* Triggers that fire.                                                      *)

Forget(s, triggers) == [s EXCEPT !.trigger = [t \in DOMAIN @ \ triggers |-> @[t]]]

(* FreeAwait.  The list of a counter that is being destroyed is left alone. *)
Unlink(s, t) == IF t \notin Live(s) \/ s.trigger[t].counter = s.dying THEN s
                ELSE SyncDeleteTriggerFromCounter(s, t)
FreeAwait(s, cl) == Forget(Unlink(Unlink(s, <<cl, 1>>), <<cl, 2>>), Waits(s, cl))

(* Does the Await report this condition?                                    *)
Reported(s, t) ==
    LET r == s.trigger[t]
        diff == ValueSubtract(s.value[r.counter], r.test_value)
    IN  \/ r.counter = s.dying
        \/ /\ ~SubtractOverflows(s.value[r.counter], r.test_value)
           /\ \/ /\ r.test_type \in {"PositiveComparison", "PositiveTransition"}
                 /\ GreaterOrEqual(diff, r.event_threshold)
              \/ /\ r.test_type \in {"NegativeComparison", "NegativeTransition"}
                 /\ ~GreaterThan(diff, r.event_threshold)

(* Reports, unblocks and forgets the Await the trigger belongs to; also     *)
(* what happens to it when one of its counters is destroyed.  AttendClient  *)
(* reads the client's connection, of which one that goes has none any more. *)
SyncAwaitTriggerFired(s, t) ==
    LET cl == t[1]
        sent == { u \in Waits(s, cl) : Reported(s, u) }
    IN  IF cl \in s.gone THEN [s EXCEPT !.fate = "undefined"]
        ELSE FreeAwait([s EXCEPT !.notified = @ \cup sent], cl)

UpdatedOnce(s, a) ==
    LET r == s.trigger[a]
    IN  [test |-> ValueAdd(r.test_value, r.delta), overflow |-> AddOverflows(r.test_value, r.delta)]

TestedTooEarly(s, a) ==
    LET r == s.trigger[a]
        value == s.value[r.counter]
        Rearm[test \in XSyncValue] ==
            IF AddOverflows(test, r.delta) THEN [test |-> test, overflow |-> TRUE]
            ELSE IF Test(r.CheckTrigger, value, value, test)
                 THEN Rearm[ValueAdd(test, r.delta)]
                 ELSE [test |-> ValueAdd(test, r.delta), overflow |-> FALSE]
    IN  Rearm[r.test_value]

(* The test value after repeatedly adding delta, and whether a sum          *)
(* overflowed.                                                              *)
Updated(s, a) ==
    LET r == s.trigger[a]
        value == s.value[r.counter]
        Rearm[test \in XSyncValue] ==
            IF AddOverflows(test, r.delta) THEN [test |-> test, overflow |-> TRUE]
            ELSE IF Test(r.CheckTrigger, value, value, ValueAdd(test, r.delta))
                 THEN Rearm[ValueAdd(test, r.delta)]
                 ELSE [test |-> ValueAdd(test, r.delta), overflow |-> FALSE]
    IN  Rearm[r.test_value]

(* The alarms that go off once.                                             *)
NeverOneShot(r) == IsZero(r.delta) /\ r.test_type \notin Comparisons
OneShot(r) == IsZero(r.delta) /\ r.test_type \in Comparisons

(* An alarm goes off.  With a delta of 0 the loop that updates it never     *)
(* ends if the trigger is TRUE.                                             *)
Rearmed(s, a, u) == IF u.overflow THEN [s EXCEPT !.trigger[a].state = "Inactive"]
                    ELSE [s EXCEPT !.trigger[a].test_value = u.test]

SyncAlarmTriggerFired(s, a) ==
    LET r == s.trigger[a]
    IN  CASE r.state # "Active" -> s
          [] r.state = "Active" /\ (r.counter = None \/ OneShot(r))
                 -> [s EXCEPT !.trigger[a].state = "Inactive"]
          [] OTHER -> IF IsZero(r.delta) /\ IsTrue(s, a) THEN [s EXCEPT !.fate = "looping"]
                      ELSE Rearmed(s, a, Updated(s, a))

TriggerFired(s, t) ==
    IF t \in Alarms THEN SyncAlarmTriggerFired(s, t) ELSE SyncAwaitTriggerFired(s, t)

(* The element after t in a list.                                           *)
After(list, t) == LET i == SelectInSeq(list, LAMBDA u : u = t)
                  IN  IF i = Len(list) THEN None ELSE list[i + 1]

Bracketed(s, c) == IF c = SERVERTIME /\ s.fate = "running"
                   THEN SyncComputeBracketValues(s, FALSE) ELSE s

(* A step of SyncChangeCounter's walk: the next element of the list is      *)
(* noted before a trigger fires; if that frees the element, what follows is *)
(* undefined.                                                               *)
Walked(w, c, old, t) ==
    IF w.s.fate # "running" \/ t # w.next THEN w
    ELSE IF ~Contains(w.s.list[c], t) THEN [w EXCEPT !.s.fate = "undefined"]
    ELSE [next |-> After(w.s.list[c], t),
          s |-> IF CheckTrigger(w.s, t, old) THEN TriggerFired(w.s, t) ELSE w.s]

SyncChangeCounter(s, c, newval) ==
    LET Walk(w, t) == Walked(w, c, s.value[c], t)
        first == [s |-> [s EXCEPT !.value[c] = newval],
                  next |-> IF s.list[c] = <<>> THEN None ELSE Head(s.list[c])]
    IN  Bracketed(FoldLeft(Walk, first, s.list[c]).s, c)

LeavesCounter(s, a) == [s EXCEPT !.trigger[a].state = "Inactive"]
SyncAlarmCounterDestroyed(s, a) == [s EXCEPT !.trigger[a].state = "Inactive",
                                             !.trigger[a].counter = None]

(* The counter is gone; what still points to it does so to freed memory.    *)
Unpoint(s, c) ==
    [s EXCEPT !.value[c] = None, !.list[c] = <<>>, !.dying = None,
              !.trigger = [t \in DOMAIN @ |->
                  IF @[t].counter = c THEN [@[t] EXCEPT !.counter = Freed] ELSE @[t]]]

(* FreeCounter: every trigger of the list is told; an Await of two          *)
(* conditions on the counter is gone when its second one is reached.        *)
CounterDestroyed(s, t) ==
    IF s.fate # "running" THEN s
    ELSE IF t \notin Live(s) THEN [s EXCEPT !.fate = "undefined"]
    ELSE IF t \in Alarms THEN SyncAlarmCounterDestroyed(s, t)
    ELSE SyncAwaitTriggerFired(s, t)
FreeCounter(s, c) ==
    Unpoint(FoldLeft(CounterDestroyed, [s EXCEPT !.dying = c], s.list[c]), c)

FreeAlarm(s, a) ==
    IF s.trigger[a].counter = Freed THEN [s EXCEPT !.fate = "undefined"]
    ELSE Forget([SyncDeleteTriggerFromCounter(s, a) EXCEPT !.refused = @ \ {a}], {a})
-----------------------------------------------------------------------------
(* Requests.                                                                *)

(* A trigger, with the threshold of its condition, or the delta and state   *)
(* of its alarm.                                                            *)
NoTrigger == [counter |-> None, value_type |-> "Absolute", wait_value |-> Zero,
              test_type |-> "PositiveComparison", CheckTrigger |-> "PositiveComparison",
              test_value |-> Zero, event_threshold |-> Zero, delta |-> One, state |-> "Inactive"]

Register(s, t, r) ==
    [s EXCEPT !.trigger = [u \in DOMAIN @ \cup {t} |-> IF u = t THEN r ELSE @[u]]]

(* The attributes a request gives, but for the counter.                     *)
Given(r, attributes) == [f \in DOMAIN r |-> IF f \in DOMAIN attributes \ {"counter"}
                                            THEN attributes[f] ELSE r[f]]

Matches(r) ==
    /\ r.test_type \in {"PositiveComparison", "PositiveTransition"} => ~LessThan(r.delta, Zero)
    /\ r.test_type \in {"NegativeComparison", "NegativeTransition"} => ~GreaterThan(r.delta, Zero)

(* SyncChangeAlarmAttributes: the attributes are stored first and then      *)
(* checked.                                                                 *)
Stored(s, a, req) == [s EXCEPT !.trigger[a] = Given(@, req)]
CheckAttributes(s, a, counter, changes) ==
    IF {"delta", "test_type"} \cap changes # {} /\ ~Matches(s.trigger[a]) THEN Error(s)
    ELSE Then(SyncInitTrigger(s, a, counter, changes),
              LAMBDA u : Ok([u EXCEPT !.trigger[a].state = "Active"]))
SyncChangeAlarmAttributes(s, a, req) ==
    CheckAttributes(Stored(s, a, req), a,
                    IF "counter" \in DOMAIN req THEN req.counter ELSE s.trigger[a].counter,
                    DOMAIN req)

(* The state a step starts from: no event sent yet.                         *)
Fresh == [state EXCEPT !.notified = {}]
Running == state.fate = "running"

(* The client can send requests: the server runs and does not ignore it.    *)
Free(cl) == Running /\ Waits(state, cl) = {}

CreateCounter(c, v) ==
    /\ Free(Owner[c]) /\ ~Exists(state, c)
    /\ state' = [Fresh EXCEPT !.value[c] = v]
    /\ UNCHANGED now

SetCounter(c, v) ==
    /\ Exists(state, c)
    /\ \E cl \in Clients : Free(cl)
    /\ state' = SyncChangeCounter(Fresh, c, v)
    /\ UNCHANGED now

(* ProcSyncChangeCounter; a sum that overflows is refused.                  *)
Unchecked(c, amount) == SyncChangeCounter(Fresh, c, ValueAdd(state.value[c], amount))
Added(c, amount) == IF AddOverflows(state.value[c], amount) THEN Fresh
                    ELSE SyncChangeCounter(Fresh, c, ValueAdd(state.value[c], amount))
ChangeCounter(c, amount) ==
    /\ Exists(state, c)
    /\ \E cl \in Clients : Free(cl)
    /\ state' = Added(c, amount)
    /\ UNCHANGED now

DestroyCounter(c) ==
    /\ Exists(state, c)
    /\ \E cl \in Clients : Free(cl)
    /\ state' = FreeCounter(Fresh, c)
    /\ UNCHANGED now

QueryCounter ==
    /\ \E cl \in Clients : Free(cl)
    /\ state' = ServertimeQueryValue(Fresh)
    /\ UNCHANGED now

(* ProcSyncAwait: the conditions are registered one by one; an error takes  *)
(* the ones before it back.  If one is TRUE already the client is released  *)
(* at once.                                                                 *)
TakeBack(r, cl, t) == IF r.ok THEN r ELSE Error(FreeAwait(Forget(r.s, {t}), cl))
Condition(s, cl, c, t) ==
    IF c.counter = None THEN Error(FreeAwait(s, cl))
    ELSE TakeBack(SyncInitTrigger(Register(s, t, Given(NoTrigger, c)), t, c.counter, DOMAIN c), cl, t)
FireIfTrue(r, cl) ==
    IF r.ok /\ \E t \in Waits(r.s, cl) : IsTrue(r.s, t)
    THEN SyncAwaitTriggerFired(r.s, <<cl, 1>>) ELSE r.s

AddConditions(s, cl, conds) ==
    LET Add(r, i) == Then(r, LAMBDA u : Condition(u, cl, conds[i], <<cl, i>>))
    IN  FoldLeft(Add, Ok(s), [i \in DOMAIN conds |-> i])

Await(cl, conds) ==
    /\ Free(cl)
    /\ state' = FireIfTrue(AddConditions(Fresh, cl, conds), cl)
    /\ UNCHANGED now

(* ProcSyncCreateAlarm: a failure frees the alarm; one without a counter is *)
(* Inactive.                                                                *)
Created(r, a) ==
    CASE ~r.ok -> Forget(r.s, {a})
      [] r.ok /\ r.s.trigger[a].counter = None -> [r.s EXCEPT !.trigger[a].state = "Inactive"]
      [] OTHER -> IF IsTrue(r.s, a) THEN SyncAlarmTriggerFired(r.s, a) ELSE r.s

CreateAlarm(a, req) ==
    /\ Free(Owner[a]) /\ a \notin Live(state)
    /\ state' = Created(SyncChangeAlarmAttributes(Register(Fresh, a, NoTrigger), a, req), a)
    /\ UNCHANGED now

(* ProcSyncChangeAlarm, by any client; the counter's ID is read first.      *)
Changed(r, a) ==
    IF ~r.ok THEN [r.s EXCEPT !.refused = @ \cup {a}]
    ELSE IF IsTrue(r.s, a) THEN SyncAlarmTriggerFired(r.s, a) ELSE r.s

ChangeAlarm(a, req) ==
    /\ a \in Live(state)
    /\ \E cl \in Clients : Free(cl)
    /\ state' = IF state.trigger[a].counter = Freed THEN [Fresh EXCEPT !.fate = "undefined"]
                ELSE Changed(SyncChangeAlarmAttributes(Fresh, a, req), a)
    /\ UNCHANGED now

DestroyAlarm(a) ==
    /\ a \in Live(state)
    /\ \E cl \in Clients : Free(cl)
    /\ state' = FreeAlarm(Fresh, a)
    /\ UNCHANGED now

(* The client's connection has been closed: its resources are freed, in the *)
(* order the hash table has them.                                           *)
Release(s, r, cl) ==
    IF s.fate # "running" THEN s
    ELSE IF r \in Counters THEN FreeCounter(s, r)
    ELSE IF r \in Alarms THEN FreeAlarm(s, r)
    ELSE FreeAwait(s, cl)
FreeClientResources(s, order, cl) ==
    LET FreeResource(u, r) == Release(u, r, cl)
    IN  FoldLeft(FreeResource, s, order)

Mine(cl) == { c \in Counters : Owner[c] = cl /\ Exists(state, c) }
            \cup { a \in Alarms \cap Live(state) : Owner[a] = cl }
            \cup { t \in Waits(state, cl) : t[2] = 1 }

(* Once all of it is freed, nothing is left of the client.                  *)
Closed(r) == IF r.fate = "running" THEN [r EXCEPT !.gone = {}] ELSE r

ClientGone(cl) ==
    /\ Running /\ Mine(cl) # {}
    /\ \E order \in SetToSeqs(Mine(cl)) :
           state' = Closed(FreeClientResources([Fresh EXCEPT !.gone = {cl}], order, cl))
    /\ UNCHANGED now
-----------------------------------------------------------------------------
(* The clock and the wakeup handler, called after the server has slept.     *)

Tick ==
    /\ Running /\ LessThan(now, MaxTime)
    /\ now' = ValueAdd(now, One)
    /\ UNCHANGED state

TimerExpired == Running /\ state.timer /\ GreaterOrEqual(now, state.bracket.greater)

ServertimeWakeupHandler ==
    /\ TimerExpired
    /\ state' = SyncChangeCounter(Fresh, SERVERTIME, now)
    /\ UNCHANGED now

Init ==
    /\ state = [value |-> [c \in Counters \cup {SERVERTIME} |->
                               IF c = SERVERTIME THEN Zero ELSE None],
                list |-> [c \in Counters \cup {SERVERTIME} |-> <<>>],
                trigger |-> <<>>,
                bracket |-> [greater |-> MaxValue, less |-> MinValue],
                timer |-> FALSE, dying |-> None, gone |-> {},
                notified |-> {}, refused |-> {}, fate |-> "running"]
    /\ now = Zero

Next ==
    \/ \E c \in Counters, v \in Values : CreateCounter(c, v)
    \/ \E c \in Counters, v \in Values : SetCounter(c, v)
    \/ \E c \in Counters, v \in Values : ChangeCounter(c, v)
    \/ \E c \in Counters : DestroyCounter(c)
    \/ QueryCounter
    \/ \E cl \in Clients, conds \in WaitLists : Await(cl, conds)
    \/ \E a \in Alarms, req \in AlarmRequests : CreateAlarm(a, req)
    \/ \E a \in Alarms, req \in AlarmRequests : ChangeAlarm(a, req)
    \/ \E a \in Alarms : DestroyAlarm(a)
    \/ \E cl \in Clients : ClientGone(cl)
    \/ Tick
    \/ ServertimeWakeupHandler

Spec == Init /\ [][Next]_vars
-----------------------------------------------------------------------------
(* Properties.                                                              *)

(* Every field has its type: above all, the test a trigger is checked with  *)
(* is one of the four SyncInitTrigger sets, no event is sent for what does  *)
(* not exist, and FreeCounter and ClientGone leave nothing half destroyed.  *)
TypeOK ==
    /\ now \in XSyncValue
    /\ state.value \in [Counters \cup {SERVERTIME} -> XSyncValue \cup {None}]
    /\ Live(state) \subseteq Triggers
    /\ \A t \in Live(state) :
           /\ state.trigger[t].counter \in Counters \cup {SERVERTIME, None, Freed}
           /\ state.trigger[t].CheckTrigger \in TestTypes
           /\ state.trigger[t].test_value \in XSyncValue
           /\ t \in Alarms => state.trigger[t].state \in {"Active", "Inactive"}
    /\ state.bracket \in [greater : XSyncValue, less : XSyncValue]
    /\ state.timer \in BOOLEAN
    /\ state.refused \subseteq Alarms \cap Live(state)
    /\ state.notified \subseteq Triggers \ Alarms
    /\ state.dying = None /\ state.gone \subseteq Clients /\ (Running => state.gone = {})
    /\ state.fate \in {"running", "looping", "undefined"}

OnCounter(t) == state.trigger[t].counter \in Counters

(* ChangeCounter, and the creation of an alarm whose test value is relative *)
(* to a client's counter, are refused when the sum in whole numbers does    *)
(* not fit in 64 bits: the counter keeps its value, and there is no alarm.  *)
(* Otherwise the counter has the sum, and so has the alarm (if it is for a  *)
(* later value, and so does not go off as it is created).                   *)
SumsAreExact ==
    [][/\ \A c \in Counters, v \in Values :
             ChangeCounter(c, v) =>
             LET sum == Int64(state.value[c]) + Int64(v)
             IN  IF InRange(sum) THEN Int64(state'.value[c]) = sum ELSE state'.value = state.value
       /\ \A a \in Alarms, req \in AlarmRequests :
             /\ a \in Live(state') \ Live(state) /\ CreateAlarm(a, req)
             /\ {"counter", "value_type", "wait_value"} \subseteq DOMAIN req
             /\ req.counter \in Counters /\ req.value_type = "Relative"
             => LET sum == Int64(state.value[req.counter]) + Int64(req.wait_value)
                IN  /\ InRange(sum)
                    /\ /\ state'.trigger[a].test_type = "PositiveComparison"
                       /\ Int64(req.wait_value) > 0
                       => Int64(state'.trigger[a].test_value) = sum
      ]_vars

(* The lists of the counters and the pointers of the triggers agree, across *)
(* destroyed counters, failing requests and clients that go: a trigger is   *)
(* on the list of its counter, once, and on no other.  (An alarm a          *)
(* ChangeAlarm was refused for may have been left pointing to a counter     *)
(* that does not list it.)                                                  *)
Registered ==
    Running =>
    /\ \A c \in DOMAIN state.list :
          /\ IsInjective(state.list[c])
          /\ \A i \in DOMAIN state.list[c] :
                /\ state.list[c][i] \in Live(state)
                /\ state.trigger[state.list[c][i]].counter = c
    /\ \A t \in Live(state) \ state.refused :
          LET c == state.trigger[t].counter
          IN  c # None => c # Freed /\ Contains(state.list[c], t)

(* A comparison in whole numbers.                                           *)
Holds(t) ==
    LET value == Int64(state.value[state.trigger[t].counter])
        test == Int64(state.trigger[t].test_value)
    IN  \/ state.trigger[t].test_type = "PositiveComparison" /\ value >= test
        \/ state.trigger[t].test_type = "NegativeComparison" /\ value <= test

(* No client is left blocked when one of its comparisons with a client's    *)
(* counter is TRUE, whatever way the counter came to its value.             *)
NothingTrueWaits ==
    Running => \A t \in Live(state) \ Alarms :
        OnCounter(t) => ~Holds(t)

(* An Active alarm is waiting for something: its comparison is FALSE after  *)
(* whatever request set it off or changed it.                               *)
AlarmsRearmed ==
    Running => \A a \in (Alarms \cap Live(state)) \ state.refused :
        OnCounter(a) /\ state.trigger[a].state = "Active" => ~Holds(a)

(* The timer of SERVERTIME is set for no later than the first time an       *)
(* Await's comparison waits for, through registrations, removals, firings   *)
(* and queries of the clock, as long as no transition is on the list.  (It  *)
(* is not for an alarm that fires as it is created, nor for the last value  *)
(* of all, with which the search for the next time starts.)                 *)
NextTimeArmed ==
    LET list == state.list[SERVERTIME]
        type(i) == state.trigger[list[i]].test_type
        test(i) == state.trigger[list[i]].test_value
    IN  /\ Running
        /\ (\A i \in DOMAIN list : list[i] \notin state.refused /\ type(i) \in Comparisons)
        => \A j \in DOMAIN list :
               /\ list[j] \notin Alarms /\ type(j) = "PositiveComparison"
               /\ test(j) # MaxValue /\ LessThan(state.value[SERVERTIME], test(j))
               => state.timer /\ LessOrEqual(state.bracket.greater, test(j))

(* A change of a client's counter moves an alarm it sets off to the first   *)
(* of the values test + delta, test + 2 delta, ... for which the trigger is *)
(* FALSE, computed in whole numbers; when the range ends first, or for a    *)
(* comparison with a delta of 0, the alarm becomes Inactive where it is.    *)
AlarmsAdvance ==
    [][\A a \in Alarms \cap Live(state), c \in Counters :
          LET r == state.trigger[a]
              value == Int64(state'.value[c])
              Ahead == { n \in { Int64(r.test_value) + k * Int64(r.delta) : k \in 1 .. Word * Word } :
                             /\ InRange(n)
                             /\ r.test_type = "PositiveComparison" => n > value
                             /\ r.test_type = "NegativeComparison" => n < value }
              IsFirst(n) == \A m \in Ahead : IF Int64(r.delta) > 0 THEN n <= m ELSE n >= m
          IN  (/\ r.counter = c /\ r.state = "Active" /\ a \notin state.refused
               /\ Exists(state, c) /\ Exists(state', c) /\ state'.value[c] # state.value[c]
               /\ Running') =>
              LET new == state'.trigger[a]
              IN  IF ~Test(r.test_type, state.value[c], state'.value[c], r.test_value)
                  THEN new = r
                  ELSE IF Ahead = {} THEN new = [r EXCEPT !.state = "Inactive"]
                  ELSE /\ new = [r EXCEPT !.test_value = new.test_value]
                       /\ Int64(new.test_value) \in Ahead /\ IsFirst(Int64(new.test_value))
      ]_vars

(* What the specification of the extension says of an Await that a change   *)
(* of a counter releases (doc/specs/Xext/sync.tex): an event is generated   *)
(* for a positive condition if the difference is at least event-threshold.  *)
NotifiesAtThreshold ==
    [][\A t \in Live(state) \ Alarms :
          LET r == state.trigger[t]
              diff == Int64(state'.value[r.counter]) - Int64(r.test_value)
          IN  (/\ t \notin Live(state') /\ r.counter \in Counters
               /\ Exists(state', r.counter)
               /\ state'.value[r.counter] # state.value[r.counter]
               /\ r.test_type \in {"PositiveComparison", "PositiveTransition"}
               /\ InRange(diff) /\ diff >= Int64(r.event_threshold))
              => t \in state'.notified
      ]_vars

(* The server neither loops for ever in the update of an alarm nor uses a   *)
(* counter, a list element or a connection that was freed, with three       *)
(* exceptions: a ChangeAlarm was refused (it has stored part of its         *)
(* attributes: a test that does not match the function that checks it, or a *)
(* counter that does not list the alarm); an Await has two conditions on    *)
(* one counter (which are freed together while that counter's list is       *)
(* walked); a client that goes was blocked in an Await on a counter of its  *)
(* own, and the counter was freed first.                                    *)
StaysSound ==
    /\ state.refused = {}
    /\ \A conds \in WaitLists : IsInjective([i \in DOMAIN conds |-> conds[i].counter])
    => \/ Running
       \/ \E cl \in state.gone : \E t \in Waits(state, cl) : state.trigger[t].counter = Freed
=============================================================================
