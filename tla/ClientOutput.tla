---------------------------- MODULE ClientOutput ----------------------------
(* What the server writes to its clients (os/io.c): it is collected in a     *)
(* buffer per client, flushed after a turn or before the server waits        *)
(* (os/WaitFor.c), kept when the client does not read, and given up when     *)
(* the connection breaks (os/connection.c).                                  *)
(*                                                                           *)
(* Clients that sleep or that a server grab bars are not in AllClients: the  *)
(* set is changed here by what Dispatch models.  Left out: the free buffers, *)
(* of which one may be larger than BUFSIZE and is taken from NewSizes, and   *)
(* messages too long for the system.                                         *)
EXTENDS Integers, Sequences

CONSTANTS Clients,
          Unit,        \* what bytes can be, apart from padding
          Pad,
          Messages,    \* what one call writes
          Align,       \* the protocol pads to multiples of this: 4 bytes
          BUFSIZE,
          NewSizes,    \* the sizes of buffers that are taken
          MaxSize,     \* bound: a larger buffer cannot be allocated
          SocketSize   \* what the kernel keeps for a client that does not read

ASSUME OutputAssumption ==
  /\ Messages \subseteq Seq(Unit) /\ <<>> \notin Messages
  /\ Align \in Nat \ {0} /\ BUFSIZE \in Nat \ {0} /\ SocketSize \in Nat /\ MaxSize \in Nat
  /\ NewSizes \subseteq BUFSIZE .. MaxSize

VARIABLES os,     \* the server's data, see Init and TypeOK
          loop,   \* where the server is, and for FlushAllOutput the clients left
          socket, \* per client: what the kernel has and the client has not read
          dead    \* clients that have gone without the server's knowing

vars == <<os, loop, socket, dead>>

Bytes == Unit \cup {Pad}
padlength(count) == IF count % Align = 0 THEN 0 ELSE Align - (count % Align)
Pads(n) == [i \in 1 .. n |-> Pad]
Padded(message) == message \o Pads(padlength(Len(message)))

Connected(s, c) == s.conn[c] # "none"

(* What a call makes of the server's data and of the client's socket.        *)
Result(s, sent) == [os |-> s, sent |-> sent]
-----------------------------------------------------------------------------
(* FlushClient, with what WriteToClient could not put into the buffer.       *)

MutantUnblocked(s, c) ==
  [s EXCEPT !.ClientsWriteBlocked = @ \ {c}, !.AnyClientsWriteBlocked = FALSE]
Unblocked(s, c) ==
  [s EXCEPT !.ClientsWriteBlocked = @ \ {c},
            !.AnyClientsWriteBlocked = @ /\ s.ClientsWriteBlocked \ {c} # {}]
Flushed(s, c) ==
  LET t == IF s.AnyClientsWriteBlocked THEN Unblocked(s, c) ELSE s
  IN  [t EXCEPT !.buf[c] = <<>>, !.size[c] = 0]

(* The transport is closed; the client is closed down later.                 *)
Failed(s, c) == [s EXCEPT !.conn[c] = "closed", !.buf[c] = <<>>]

(* Of the buffer, the extra message and its padding, what was not written is *)
(* moved to the front of the buffer, which grows if it has to.               *)
MutantKept(buf, extra, written, notWritten) ==
  LET moved == SubSeq(buf, written + 1, Len(buf)) \o SubSeq(extra, written + 1, Len(extra))
  IN  moved \o Pads(notWritten - Len(moved))
Kept(buf, extra, written, notWritten) ==
  LET count == Len(buf)
      front == IF written < count THEN SubSeq(buf, written + 1, count) ELSE <<>>
      used == IF written < count THEN 0 ELSE written - count
      moved == front \o SubSeq(extra, used + 1, Len(extra))
  IN  moved \o Pads(notWritten - Len(moved))

MutantUnchecked(s, c, extra, written, notWritten, memory) ==
  [s EXCEPT !.ClientsWriteBlocked = @ \cup {c}, !.AnyClientsWriteBlocked = TRUE,
            !.buf[c] = Kept(@, extra, written, notWritten),
            !.size[c] = IF notWritten > @ THEN notWritten + BUFSIZE ELSE @]
MutantOverrun(s, c, extra, written, notWritten, memory) ==
  [s EXCEPT !.ClientsWriteBlocked = @ \cup {c}, !.AnyClientsWriteBlocked = TRUE,
            !.buf[c] = Kept(@, extra, written, notWritten)]
Blocked(s, c, extra, written, notWritten, memory) ==
  LET t == [s EXCEPT !.ClientsWriteBlocked = @ \cup {c}, !.AnyClientsWriteBlocked = TRUE]
      grows == notWritten > s.size[c]
  IN  IF grows /\ (~memory \/ notWritten + BUFSIZE > MaxSize) THEN Failed(t, c)
      ELSE [t EXCEPT !.buf[c] = Kept(@, extra, written, notWritten),
                     !.size[c] = IF grows THEN notWritten + BUFSIZE ELSE @]

FlushClient(s, c, extra, memory) ==
  LET whole == s.buf[c] \o Padded(extra)
      room == SocketSize - Len(socket[c])
      written == IF room < Len(whole) THEN room ELSE Len(whole)
      sent == SubSeq(whole, 1, written)
  IN  CASE s.size[c] = 0 -> Result(s, <<>>)
        [] s.size[c] > 0 /\ whole # <<>> /\ (s.conn[c] = "closed" \/ c \in dead) ->
             Result(Failed(s, c), <<>>)
        [] s.size[c] > 0 /\ whole # <<>> /\ s.conn[c] # "closed" /\ c \notin dead
             /\ written < Len(whole) ->
             Result(Blocked(s, c, extra, written, Len(whole) - written, memory), sent)
        [] OTHER -> Result(Flushed(s, c), sent)

(* A message is put into the buffer if it fits, or else written after it.    *)
PutIntoBuffer(s, c, message) ==
  [s EXCEPT !.NewOutputPending = TRUE, !.OutputPending = @ \cup {c},
            !.buf[c] = @ \o Padded(message)]
WriteToClient(s, c, message, newSize, memory) ==
  LET t == [s EXCEPT !.size[c] = IF @ = 0 THEN newSize ELSE @]
      u == [t EXCEPT !.OutputPending = @ \ {c}, !.CriticalOutputPending = FALSE,
                     !.NewOutputPending = FALSE]
  IN  CASE s.size[c] = 0 /\ ~memory -> Result(Failed(s, c), <<>>)
        [] (s.size[c] > 0 \/ memory) /\ Len(s.buf[c] \o Padded(message)) <= t.size[c] ->
             Result(PutIntoBuffer(t, c, message), <<>>)
        [] OTHER -> FlushClient(u, c, message, memory)

(* The connections of a set of clients and their buffers are given up.       *)
CloseDownFileDescriptors(s, S) ==
  [s EXCEPT !.conn = [c \in Clients |-> IF c \in S THEN "none" ELSE @[c]],
            !.buf = [c \in Clients |-> IF c \in S THEN <<>> ELSE @[c]],
            !.size = [c \in Clients |-> IF c \in S THEN 0 ELSE @[c]],
            !.AllClients = @ \ S, !.OutputPending = @ \ S,
            !.ClientsWriteBlocked = @ \ S,
            !.AnyClientsWriteBlocked = @ /\ s.ClientsWriteBlocked \ S # {}]
-----------------------------------------------------------------------------
Becomes(c, result) ==
  os' = result.os /\ socket' = [socket EXCEPT ![c] = @ \o result.sent] /\ UNCHANGED dead
KernelUnchanged == UNCHANGED <<socket, dead>>

At(place) == loop.at = place
Goes(place) == loop' = [at |-> place, mask |-> {}, next |-> place]

(* FlushAllOutput; then the server goes to the next place.                   *)
FlushAllOutput(s, next) ==
  IF s.NewOutputPending
  THEN /\ os' = [s EXCEPT !.NewOutputPending = FALSE, !.CriticalOutputPending = FALSE,
                          !.OutputPending = {}]
       /\ loop' = [at |-> "flush", mask |-> s.OutputPending, next |-> next]
  ELSE os' = s /\ Goes(next)

(* One of the clients with output.  Between two turns, one with requests in  *)
(* its buffer is passed over; when the server waits, there is none.          *)
FlushNext(c, memory) ==
  /\ At("flush") /\ c \in loop.mask
  /\ Becomes(c, FlushClient(os, c, <<>>, memory))
  /\ loop' = [loop EXCEPT !.mask = @ \ {c}]
MutantFlushLater(c) ==
  /\ At("flush") /\ loop.next = "serve" /\ c \in loop.mask
  /\ os' = [os EXCEPT !.NewOutputPending = TRUE]
  /\ loop' = [loop EXCEPT !.mask = @ \ {c}]
  /\ KernelUnchanged
FlushLater(c) ==
  /\ At("flush") /\ loop.next = "serve" /\ c \in loop.mask
  /\ os' = [os EXCEPT !.OutputPending = @ \cup {c}, !.NewOutputPending = TRUE]
  /\ loop' = [loop EXCEPT !.mask = @ \ {c}]
  /\ KernelUnchanged
FlushDone == At("flush") /\ loop.mask = {} /\ Goes(loop.next) /\ UNCHANGED os /\ KernelUnchanged
-----------------------------------------------------------------------------
(* Requests and events.                                                      *)

(* A reply, an error, or an event; critical ones are flushed before others.  *)
Write(c, message, critical, newSize, memory) ==
  /\ At("serve") /\ Connected(os, c)
  /\ LET s == [os EXCEPT !.CriticalOutputPending = @ \/ critical]
     IN  Becomes(c, WriteToClient(s, c, message, newSize, memory))
  /\ UNCHANGED loop

FlushIfCriticalOutputPending ==
  /\ At("serve") /\ os.CriticalOutputPending /\ FlushAllOutput(os, "serve") /\ KernelUnchanged
EndTurn == At("serve") /\ FlushAllOutput(os, "serve") /\ KernelUnchanged

IgnoreClient(c) ==
  /\ At("serve") /\ Connected(os, c) /\ os' = [os EXCEPT !.AllClients = @ \ {c}]
  /\ UNCHANGED loop /\ KernelUnchanged
AttendClient(c) ==
  /\ Connected(os, c) /\ os' = [os EXCEPT !.AllClients = @ \cup {c}]
  /\ UNCHANGED loop /\ KernelUnchanged

(* Its connection has failed, or a client has killed it.                     *)
CloseDownConnection(c, memory) ==
  /\ At("serve") /\ Connected(os, c)
  /\ LET result == IF os.buf[c] = <<>> THEN Result(os, <<>>) ELSE FlushClient(os, c, <<>>, memory)
     IN  Becomes(c, Result(CloseDownFileDescriptors(result.os, {c}), result.sent))
  /\ UNCHANGED loop

EstablishNewConnection(c) ==
  /\ At("serve") /\ ~Connected(os, c)
  /\ os' = [os EXCEPT !.conn[c] = "open", !.AllClients = @ \cup {c}]
  /\ socket' = [socket EXCEPT ![c] = <<>>] /\ dead' = dead \ {c}
  /\ UNCHANGED loop
-----------------------------------------------------------------------------
(* WaitForSomething, when no client has requests in its buffer.              *)

Waits(s) == FlushAllOutput(s, "select")
EndRound == At("serve") /\ Waits(os) /\ KernelUnchanged

(* Select fails if a connection that it is told of is closed.  Input is that *)
(* of clients or of devices.                                                 *)
Selected ==
  os.AllClients \cup (IF os.AnyClientsWriteBlocked THEN os.ClientsWriteBlocked ELSE {})
Bad == {c \in Selected : os.conn[c] = "closed"}
CheckConnections(input) ==
  /\ At("select") /\ Bad # {}
  /\ LET s == CloseDownFileDescriptors(os, Bad \cap os.AllClients)
     IN  IF s.AllClients = {} \/ input THEN os' = s /\ Goes("serve") ELSE Waits(s)
  /\ KernelUnchanged

Writable ==
  {c \in os.ClientsWriteBlocked : os.AnyClientsWriteBlocked
                                  /\ (Len(socket[c]) < SocketSize \/ c \in dead)}
SelectFinds(input) ==
  /\ At("select") /\ Bad = {} /\ (Writable # {} \/ input)
  /\ LET blocked == os.ClientsWriteBlocked \ Writable
         s == IF Writable = {} THEN os
              ELSE [os EXCEPT !.NewOutputPending = TRUE, !.OutputPending = @ \cup Writable,
                              !.ClientsWriteBlocked = blocked,
                              !.AnyClientsWriteBlocked = @ /\ blocked # {}]
     IN  IF input THEN os' = s /\ Goes("serve") ELSE Waits(s)
  /\ KernelUnchanged
-----------------------------------------------------------------------------
(* The clients.                                                              *)

Read(c) ==
  /\ socket[c] # <<>> /\ c \notin dead /\ socket' = [socket EXCEPT ![c] = Tail(@)]
  /\ UNCHANGED <<os, loop, dead>>
PeerGone(c) ==
  /\ os.conn[c] = "open" /\ c \notin dead /\ dead' = dead \cup {c}
  /\ UNCHANGED <<os, loop, socket>>

Init ==
  /\ os = [conn |-> [c \in Clients |-> "none"], buf |-> [c \in Clients |-> <<>>],
           size |-> [c \in Clients |-> 0], AllClients |-> {}, OutputPending |-> {},
           NewOutputPending |-> FALSE, CriticalOutputPending |-> FALSE,
           ClientsWriteBlocked |-> {}, AnyClientsWriteBlocked |-> FALSE]
  /\ loop = [at |-> "serve", mask |-> {}, next |-> "serve"]
  /\ socket = [c \in Clients |-> <<>>] /\ dead = {}

Next ==
  \/ FlushDone \/ FlushIfCriticalOutputPending \/ EndTurn \/ EndRound
  \/ \E input \in BOOLEAN : CheckConnections(input) \/ SelectFinds(input)
  \/ \E c \in Clients, memory \in BOOLEAN :
       \/ FlushNext(c, memory) \/ CloseDownConnection(c, memory)
       \/ \E message \in Messages, critical \in BOOLEAN, newSize \in NewSizes :
            Write(c, message, critical, newSize, memory)
  \/ \E c \in Clients :
       \/ FlushLater(c) \/ IgnoreClient(c) \/ AttendClient(c) \/ EstablishNewConnection(c)
       \/ Read(c) \/ PeerGone(c)

Spec == Init /\ [][Next]_vars

(* FlushAllOutput comes to an end; a round of turns does, for a turn is ten  *)
(* requests at most and a client is not read before its buffer is empty;     *)
(* select returns when a client can be written to.                           *)
FairSpec ==
  /\ Spec
  /\ WF_vars(FlushDone \/ \E c \in Clients, memory \in BOOLEAN : FlushNext(c, memory))
  /\ SF_vars(EndRound)
  /\ WF_vars((\E input \in BOOLEAN : CheckConnections(input)) \/ SelectFinds(FALSE))
-----------------------------------------------------------------------------
Data == [conn : [Clients -> {"none", "open", "closed"}], buf : [Clients -> Seq(Bytes)],
         size : [Clients -> 0 .. MaxSize], AllClients : SUBSET Clients,
         OutputPending : SUBSET Clients, ClientsWriteBlocked : SUBSET Clients,
         NewOutputPending : BOOLEAN, CriticalOutputPending : BOOLEAN,
         AnyClientsWriteBlocked : BOOLEAN]

(* The data have their types.                                                *)
TypeOK ==
  /\ os \in Data
  /\ loop \in [at : {"serve", "flush", "select"}, mask : SUBSET Clients,
               next : {"serve", "select"}]
  /\ socket \in [Clients -> Seq(Bytes)] /\ dead \in SUBSET Clients

(* Writing, moving and growing never fill a buffer past its end, nor is      *)
(* there anything in a buffer that has been given back.                      *)
Fits == \A c \in Clients : Len(os.buf[c]) <= os.size[c]

(* The client of output that is kept is one of those FlushAllOutput goes     *)
(* over, whenever it does so, or select tells when it can be written to.     *)
(* Nothing of a connection that is given up is left for the next one with    *)
(* its number.                                                               *)
Tracked ==
  /\ \A c \in Clients : os.buf[c] # <<>> =>
       c \in os.OutputPending \cup os.ClientsWriteBlocked \cup loop.mask
  /\ os.AnyClientsWriteBlocked <=> os.ClientsWriteBlocked # {}
  /\ \A c \in Clients : ~Connected(os, c) =>
       c \notin os.AllClients \cup os.OutputPending \cup os.ClientsWriteBlocked \cup loop.mask

(* What a client reads is what was written to it, in order and with nothing  *)
(* lost, repeated or torn, through partial writes, moves and growth of its   *)
(* buffer; when the connection breaks, a beginning of it.                    *)
Output == INSTANCE OutputStream WITH
  Writes <- {Padded(message) : message \in Messages},
  stream <- [c \in Clients |-> socket[c] \o IF os.conn[c] = "open" THEN os.buf[c] ELSE <<>>],
  open <- {c \in Clients : os.conn[c] = "open"}
ReadsWhatWasWritten == Output!Spec

(* A connection that select cannot wait for is one that CheckConnections     *)
(* finds: "The file descriptor has been closed, but is still in AllClients"  *)
(* (connection.c:842).                                                       *)
StillInAllClients == At("select") /\ Bad # {} => Bad \cap os.AllClients # {}

(* A client that has read all it was sent gets what is in its buffer, if     *)
(* output is flushed again and again when the server waits, and connections  *)
(* do not break again and again just before it does.                         *)
Flushing == At("flush") /\ loop.next = "select"
Starved(c) == os.conn[c] = "open" /\ c \notin dead /\ socket[c] = <<>> /\ os.buf[c] # <<>>
Fed ==
  []<>Flushing /\ <>[](At("select") => Bad = {}) =>
    \A c \in Clients : Starved(c) ~> ~Starved(c)
=============================================================================
