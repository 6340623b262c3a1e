------------------------------- MODULE GrabTable -------------------------------
(* What the passive grabs of a window promise the clients: for every key and   *)
(* set of modifiers there is at most one client that a press activates a grab  *)
(* for.  A request names one key or all, one set of modifiers or all, and acts *)
(* on exactly the combinations it names (GrabKey and UngrabKey, or GrabButton  *)
(* and UngrabButton, of the protocol).                                         *)
CONSTANTS Clients, NoClient, Keys, AnyKey, Modifiers, AnyModifier

VARIABLE owner              \* owner[<<k, m>>]: the client that has grabbed k with m

Named(key, mods) ==
  (IF key = AnyKey THEN Keys ELSE {key})
     \X (IF mods = AnyModifier THEN Modifiers ELSE {mods})

Combinations == Keys \X Modifiers

(* All the combinations are granted, none of which another client has.         *)
Grantable(table, c, key, mods) == \A p \in Named(key, mods) : table[p] \in {NoClient, c}

Granted(table, c, key, mods) ==
  [p \in Combinations |-> IF p \in Named(key, mods) THEN c ELSE table[p]]

Grant(c, key, mods) ==
  Grantable(owner, c, key, mods) /\ owner' = Granted(owner, c, key, mods)

(* The client keeps the combinations it does not name.                         *)
Released(table, c, key, mods) ==
  [p \in Combinations |->
     IF p \in Named(key, mods) /\ table[p] = c THEN NoClient ELSE table[p]]

Release(c, key, mods) == owner' = Released(owner, c, key, mods)

Abandon == owner' = [p \in Combinations |-> NoClient]

Init == owner = [p \in Combinations |-> NoClient]

Next ==
  \/ \E c \in Clients, key \in Keys \cup {AnyKey}, mods \in Modifiers \cup {AnyModifier} :
       Grant(c, key, mods) \/ Release(c, key, mods)
  \/ Abandon

Spec == Init /\ [][Next]_owner
================================================================================
