------------------------------- MODULE MCGrabs -------------------------------
(* Grabs with at most two windows, the root and one of the first client's.   *)
EXTENDS Grabs, TLC

CONSTANTS c1, c2

MCOwner == [w \in 1 .. Depth |-> IF w = 1 THEN Server ELSE c1]

(* Where no window belongs to a client, the clients are alike.               *)
MCSymmetry == Permutations(Clients)

(* Passive grabs of keys only: half of the state space.                      *)
MCKeysOnly == \A w \in Windows : passive[w]["ptr"] = NoGrab

(* The events lost are motion: a button or key whose last event is neither   *)
(* queued nor being processed is as the hardware has it.  Neither the first  *)
(* event is lost nor two in a row.                                           *)
MCMotionLost ==
  Idle =>
    /\ \A d \in Devices :
         (\A i \in 1 .. Len(pending) : pending[i].dev # d \/ pending[i].type = "motion")
           => down[d] = hwDown[d]
    /\ \/ serial = 0
       \/ \E d \in Devices : done[d] # 0 /\ done[d] >= serial - 1
       \/ \E i \in 1 .. Len(pending) : pending[i].id >= serial - 1

(* One device grabbed at a time, passive grabs of keys only: a smaller part  *)
(* of the state space, enough for a counterexample.                          *)
MCOneGrab ==
  /\ \A w \in Windows : passive[w]["ptr"] = NoGrab
  /\ \E d \in Devices : sync[d].grab = NoGrab
=============================================================================
