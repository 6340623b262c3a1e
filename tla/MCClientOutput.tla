--------------------------- MODULE MCClientOutput ---------------------------
(* ClientOutput with two clients and messages that are shorter and longer    *)
(* than a buffer; only the first has much output, and one of them at a time  *)
(* is dead, closed or ignored.                                               *)
EXTENDS ClientOutput, FiniteSets

MCClients == {1, 2}
MCMessages == {<<1>>, <<1, 2, 3>>}
MCNewSizes == {2}
MCFew ==
  /\ Len(socket[2] \o os.buf[2]) <= 2
  /\ Cardinality({c \in Clients : Connected(os, c) /\
                     (c \in dead \/ os.conn[c] = "closed" \/ c \notin os.AllClients)}) <= 1
=============================================================================
