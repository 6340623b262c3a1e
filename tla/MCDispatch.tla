----------------------------- MODULE MCDispatch -----------------------------
(* Dispatch with one client at a time impervious to grabs or with a mode of  *)
(* its own, and one peer that has gone.                                      *)
EXTENDS Dispatch

MCFew ==
  /\ Cardinality(server.GrabImperviousClients)
       + Cardinality({c \in Clients : server.client[c].mode # "DestroyAll"}) <= 1
  /\ Cardinality({fd \in Fds : socket[fd].eof}) <= 1
=============================================================================
