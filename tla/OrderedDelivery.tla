--------------------------- MODULE OrderedDelivery ---------------------------
(***************************************************************************)
(* What the server does with the key and button events a driver has        *)
(* accepted: they leave the queue once each and in the order in which they *)
(* came, and each one is delivered unless it is astray at that moment, in  *)
(* which case it is lost.  What makes an event astray is the queue's       *)
(* business; one step changes that of one event at most.  Events carry     *)
(* serial numbers that grow with their arrival.  The ring buffer of        *)
(* mi/mieq.c is shown to implement this specification                      *)
(* (EventQueue!Delivery).                                                  *)
(***************************************************************************)
EXTENDS Naturals

CONSTANT Serials   \* the serial numbers events can have

VARIABLES
  waiting,    \* serials of the accepted events that are still to leave
  astray,     \* those of them that would be lost if they left now
  last,       \* serial of the last event that left, 0 before the first
  lost        \* whether that one was lost

dvars == <<waiting, astray, last, lost>>

Init ==
  /\ waiting = {} /\ astray = {}
  /\ last = 0 /\ lost = FALSE

(* An event arrives: it is younger than everything seen before. *)
Accept ==
  \E n \in Serials :
    /\ n > last
    /\ \A m \in waiting : n > m
    /\ waiting' = waiting \cup {n}
    /\ astray' \in {astray, astray \cup {n}}
    /\ UNCHANGED <<last, lost>>

(* One waiting event goes astray, or is no longer. *)
Stray ==
  \E n \in waiting :
    /\ astray' \in {astray \cup {n}, astray \ {n}}
    /\ UNCHANGED <<waiting, last, lost>>

Oldest(n) == \A m \in waiting : n <= m

(* The oldest waiting event leaves, one way or the other. *)
Deliver ==
  \E n \in waiting \ astray :
    /\ Oldest(n)
    /\ waiting' = waiting \ {n}
    /\ last' = n /\ lost' = FALSE
    /\ UNCHANGED astray

Lose ==
  \E n \in astray :
    /\ Oldest(n)
    /\ waiting' = waiting \ {n} /\ astray' = astray \ {n}
    /\ last' = n /\ lost' = TRUE

Next == Accept \/ Stray \/ Deliver \/ Lose

SafeSpec == Init /\ [][Next]_dvars

Spec == SafeSpec /\ WF_dvars(Deliver \/ Lose)
=============================================================================
