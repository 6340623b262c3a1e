------------------------------- MODULE MCSync -------------------------------
(* Instances of Sync for TLC: words of 2 bits, two clients, one or two       *)
(* client counters, one alarm, and the requests that tell the cases apart.   *)
EXTENDS Sync

CONSTANTS c1, c2, x, y, a1

V(n) == [hi |-> n \div Word, lo |-> n % Word]

MCOwner == [r \in Alarms \cup Counters |-> IF r = y THEN c2 ELSE c1]
MCMaxTime == V(1)
MCValues == { V(-7), V(7) }

Cond(c, kind, n, type, threshold) ==
    [counter |-> c, value_type |-> kind, wait_value |-> V(n),
     test_type |-> type, event_threshold |-> V(threshold)]

(* Awaits: each test, a relative value that can overflow, two conditions    *)
(* with different counters, a condition that is refused after one that is   *)
(* not.                                                                     *)
MCWaitLists ==
    { << Cond(x, "Absolute", -4, "NegativeComparison", 0),
         Cond(SERVERTIME, "Absolute", 1, "PositiveComparison", -1) >>,
      << Cond(SERVERTIME, "Absolute", 1, "PositiveComparison", 0),
         Cond(x, "Absolute", 4, "PositiveTransition", 1) >> }

MCAlarmRequests ==
    { [counter |-> x, value_type |-> "Relative", wait_value |-> V(3)],
      [counter |-> SERVERTIME],
      [test_type |-> "NegativeTransition", delta |-> V(-5)],
      [delta |-> Zero],
      [test_type |-> "Other"] }

(* A condition for each comparison, with a threshold of 0.                  *)
ComparisonWaitLists ==
    { << Cond(x, "Absolute", n, "PositiveComparison", 0) >> : n \in {0, 7} }
NoAlarmRequests == {}
=============================================================================
