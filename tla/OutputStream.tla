---------------------------- MODULE OutputStream ----------------------------
(* What the output code of the server promises a client: it reads what was   *)
(* written to it, all of it and in order, until the connection breaks; then  *)
(* it reads a beginning of it and no more.                                   *)
EXTENDS Naturals, Sequences

CONSTANTS Clients, Writes   \* the sequences of bytes that one call writes

VARIABLES stream,           \* per client: what was written and not read yet
          open              \* the clients whose connection is not broken

Connect(c) ==
  /\ c \notin open /\ open' = open \cup {c}
  /\ stream' = [stream EXCEPT ![c] = <<>>]

Write(c, bytes) ==
  /\ c \in open /\ stream' = [stream EXCEPT ![c] = @ \o bytes]
  /\ UNCHANGED open

Read(c) ==
  /\ stream[c] # <<>> /\ stream' = [stream EXCEPT ![c] = Tail(@)]
  /\ UNCHANGED open

(* The connection may break while bytes are written.                         *)
Break(c, bytes) ==
  /\ c \in open /\ open' = open \ {c}
  /\ \E n \in 0 .. Len(stream[c] \o bytes) :
       stream' = [stream EXCEPT ![c] = SubSeq(@ \o bytes, 1, n)]

Init == stream = [c \in Clients |-> <<>>] /\ open = {}

Next ==
  \E c \in Clients :
    \/ Connect(c) \/ Read(c) \/ Break(c, <<>>)
    \/ \E bytes \in Writes : Write(c, bytes) \/ Break(c, bytes)

Spec == Init /\ [][Next]_<<stream, open>>
=============================================================================
