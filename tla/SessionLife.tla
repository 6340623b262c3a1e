------------------------------ MODULE SessionLife ------------------------------
(***************************************************************************)
(* What XDMCP promises of the sessions of one display, whatever packets    *)
(* are lost, repeated or late: "a three-way handshake to start a session.  *)
(* If the handshake succeeds, any existing session is terminated           *)
(* immediately and a new session started" (doc/specs/XDMCP), and the       *)
(* session's number makes sure it is started only once.                    *)
(***************************************************************************)
EXTENDS Integers

CONSTANT Sessions         \* session numbers

VARIABLES
  live,                   \* the sessions that run, or try to open the display
  used                    \* the sessions ever started

Init == live = {} /\ used = {}

Begin(s) ==
  /\ s \notin used
  /\ used' = used \cup {s}
  /\ live' = {s}

(* A start that fails at once uses up its number, and ends what was there.  *)
Misfire(s) ==
  /\ s \notin used
  /\ used' = used \cup {s}
  /\ live' = {}

End == live' = {} /\ UNCHANGED used

Next == End \/ \E s \in Sessions : Begin(s) \/ Misfire(s)

Spec == Init /\ [][Next]_<<live, used>>
=============================================================================
