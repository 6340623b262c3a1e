--------------------------------- MODULE Xdmcp ---------------------------------
(***************************************************************************)
(* XDMCP: an X display (Xserver/os/xdmcp.c) asks a display manager         *)
(* (xdm/xdmcp.c, dm.c, protodpy.c, dpylist.c) over UDP to run a session on *)
(* it, and the manager's child process opens a connection to the display.  *)
(*                                                                         *)
(* One display, one manager, direct queries.  The network loses, repeats   *)
(* and delays packets; the others arrive in the order they were sent.  The *)
(* display can be switched off and on, which gives it another UDP port and *)
(* no memory; the manager's host can crash.  Only what a packet identifies *)
(* is kept of it: the port of the display it comes from or goes to, the    *)
(* session, and a number n: the cookie of an Accept, the "session running" *)
(* of an Alive.                                                            *)
(*                                                                         *)
(* send_packet sends what the state calls for and goes on to the state     *)
(* that waits for the answer, so the states XDM_QUERY,                     *)
(* XDM_START_CONNECTION, XDM_MANAGE and XDM_KEEPALIVE are never waited in. *)
(***************************************************************************)
EXTENDS Integers, SequencesExt

CONSTANTS
  XDM_RTX_LIMIT,      \* timeouts before the display gives up (7)
  XDM_KA_RTX_LIMIT,   \* ... before it declares a session dead (4)
  MaxSession,         \* bound: session numbers
  MaxPort,            \* bound: times the display is switched on
  MaxCookie,          \* bound: cookies the manager makes up
  MaxFaults           \* bound: faults of any kind, and sessions that end

ASSUME XdmcpAssumption ==
  /\ XDM_RTX_LIMIT \in Nat \ {0} /\ XDM_KA_RTX_LIMIT \in Nat \ {0}
  /\ MaxSession \in Nat /\ MaxPort \in Nat \ {0} /\ MaxCookie \in Nat /\ MaxFaults \in Nat

VARIABLES
  state, SessionID, timeOutRtx, sessionSocket,   \* the display's statics
  port,                \* its socket: the number of times it has been switched on
  auth,                \* cookies it lets clients in with
  conns,               \* sessions whose connection is open, as the display sees it
  up,                  \* the manager is running
  proto,               \* per port: its protoDisplay, or NoProto
  dpy,                 \* the struct display, or NoDisplay
  displays,            \* the list it is on: "sound", with a display on it that is "freed", or,
                       \* once it has been walked with that, "undefined"
  globalSessionID, lastCookie,
  child, childCookie,  \* per session: its process, the cookie it was given
  toManager, toDisplay,\* packets in flight
  late,                \* ... and those that are late
  faults

display == <<state, SessionID, timeOutRtx, sessionSocket, port, auth, conns>>
manager == <<up, proto, dpy, displays, globalSessionID, lastCookie, child, childCookie>>
net == <<toManager, toDisplay, late>>
vars == <<display, manager, net, faults>>

Sessions == 1 .. MaxSession
Ports == 1 .. MaxPort
Cookies == 1 .. MaxCookie
Requests == {"Query", "Request", "Manage", "KeepAlive"}
Answers == {"Willing", "Unwilling", "Accept", "Decline", "Refuse", "Failed", "Alive"}
Packets == [op : Requests \cup Answers, port : Ports, id : Sessions \cup {0},
            n : Cookies \cup {0, 1}]
Packet(op, p, id, n) == [op |-> op, port |-> p, id |-> id, n |-> n]

NoProto == [id |-> 0, cookie |-> 0]
NoDisplay == [id |-> 0, port |-> 0]

(* Where the display can be found between two events; "off" after a fatal    *)
(* error.                                                                    *)
States == {"XDM_COLLECT_QUERY", "XDM_AWAIT_REQUEST_RESPONSE", "XDM_AWAIT_MANAGE_RESPONSE",
           "XDM_RUN_SESSION", "XDM_AWAIT_ALIVE_RESPONSE", "XDM_AWAIT_USER_INPUT", "off"}
Awaiting == States \ {"XDM_RUN_SESSION", "XDM_AWAIT_USER_INPUT", "off"}
Running == {"XDM_RUN_SESSION", "XDM_AWAIT_ALIVE_RESPONSE"}

(* "starting" and "open": WaitForServer, ManageSession.  "failed" and        *)
(* "exited" are not yet reaped; "gone" is; "lost" died with its host, and    *)
(* the display's end of its connection was not closed.                       *)
ChildStates == {"none", "starting", "open", "failed", "exited", "gone", "lost"}

Init ==
  /\ state = "XDM_COLLECT_QUERY" /\ SessionID = 0 /\ timeOutRtx = 0 /\ sessionSocket = 0
  /\ port = 1 /\ auth = {} /\ conns = {}
  /\ up = TRUE
  /\ proto = [p \in Ports |-> NoProto] /\ dpy = NoDisplay /\ displays = "sound"
  /\ globalSessionID = 0 /\ lastCookie = 0
  /\ child = [s \in Sessions |-> "none"] /\ childCookie = [s \in Sessions |-> 0]
  /\ toManager = <<Packet("Query", 1, 0, 0)>> /\ toDisplay = <<>> /\ late = {}
  /\ faults = 0

Fault == faults < MaxFaults /\ faults' = faults + 1

(* What may arrive, and its arrival.                                         *)
Arriving == {Head(q) : q \in {toManager, toDisplay} \ {<<>>}} \cup late
Taken(p, q) ==
  \/ q # <<>> /\ p = Head(q) /\ q' = Tail(q) /\ UNCHANGED late
  \/ p \in late /\ late' = late \ {p} /\ UNCHANGED q

-----------------------------------------------------------------------------
(* The display.                                                             *)

(* send_packet                                                               *)
Sent(op, id) == toManager' = Append(toManager, Packet(op, port, id, 0))
Query == Packet("Query", port, 0, 0)

Ignored == UNCHANGED <<state, SessionID, auth, conns, toManager>>
Fatal == state' = "off" /\ conns' = {} /\ UNCHANGED <<SessionID, auth, toManager>>

send_request_msg ==
  /\ state' = "XDM_AWAIT_REQUEST_RESPONSE"
  /\ Sent("Request", 0)
  /\ UNCHANGED <<SessionID, auth, conns>>

recv_willing_msg == IF state = "XDM_COLLECT_QUERY" THEN send_request_msg ELSE Ignored

recv_accept_msg(p) ==
  IF state = "XDM_AWAIT_REQUEST_RESPONSE"
    THEN /\ auth' = auth \cup {p.n}
         /\ SessionID' = p.id
         /\ state' = "XDM_AWAIT_MANAGE_RESPONSE"
         /\ Sent("Manage", p.id)
         /\ UNCHANGED conns
    ELSE Ignored

AwaitsManage(p) == state = "XDM_AWAIT_MANAGE_RESPONSE" /\ p.id = SessionID
recv_refuse_msg(p) == IF AwaitsManage(p) THEN send_request_msg ELSE Ignored
recv_failed_msg(p) == IF AwaitsManage(p) THEN Fatal ELSE Ignored

(* The server resets: dispatch closes all clients, forgets authorizations    *)
(* and calls XdmcpReset, which asks for another session.                     *)
Reset == state' = "XDM_COLLECT_QUERY" /\ auth' = {} /\ conns' = {}
XdmcpReset == Reset /\ toManager' = Append(toManager, Query)

(* It asks twice: at once, and when the server has been reset.               *)
XdmcpDeadSession == Reset /\ toManager' = toManager \o <<Query, Query>>

AnyAlive(p) == TRUE                                                  \* mutant
StillAlive(p) == p.n = 1 /\ p.id = SessionID
recv_alive_msg(p) ==
  IF state = "XDM_AWAIT_ALIVE_RESPONSE"
    THEN /\ IF StillAlive(p)
              THEN state' = "XDM_RUN_SESSION" /\ UNCHANGED <<auth, conns, toManager>>
              ELSE XdmcpDeadSession
         /\ UNCHANGED SessionID
    ELSE Ignored

(* Every packet starts the backoff anew.  Unwilling and Decline end the      *)
(* server in whatever state it is.                                           *)
receive_packet(p) ==
  /\ p.op \in Answers /\ p.port = port /\ state # "off"
  /\ Taken(p, toDisplay)
  /\ timeOutRtx' = 0
  /\ \/ p.op = "Willing" /\ recv_willing_msg
     \/ p.op \in {"Unwilling", "Decline"} /\ Fatal
     \/ p.op = "Accept" /\ recv_accept_msg(p)
     \/ p.op = "Refuse" /\ recv_refuse_msg(p)
     \/ p.op = "Failed" /\ recv_failed_msg(p)
     \/ p.op = "Alive" /\ recv_alive_msg(p)
  /\ UNCHANGED <<sessionSocket, port, manager, faults>>

(* send_packet for a timeout: the packet the display waits on, again.        *)
SentAgain ==
  \/ state = "XDM_COLLECT_QUERY" /\ Sent("Query", 0)
  \/ state = "XDM_AWAIT_REQUEST_RESPONSE" /\ Sent("Request", 0)
  \/ state = "XDM_AWAIT_MANAGE_RESPONSE" /\ Sent("Manage", SessionID)
  \/ state = "XDM_AWAIT_ALIVE_RESPONSE" /\ Sent("KeepAlive", SessionID)

GiveUpLater(rtx) == rtx > XDM_RTX_LIMIT                              \* mutant
TooMany(rtx) == rtx >= XDM_RTX_LIMIT
timeout ==
  /\ state \in Awaiting
  /\ LET rtx == timeOutRtx + 1
         dead == state = "XDM_AWAIT_ALIVE_RESPONSE" /\ rtx >= XDM_KA_RTX_LIMIT
     IN \/ /\ dead
           /\ XdmcpDeadSession /\ timeOutRtx' = 0
        \/ /\ ~dead /\ TooMany(rtx)
           /\ state' = "XDM_AWAIT_USER_INPUT" /\ timeOutRtx' = 0
           /\ UNCHANGED <<auth, conns, toManager>>
        \/ /\ ~dead /\ ~TooMany(rtx)
           /\ SentAgain /\ timeOutRtx' = rtx
           /\ UNCHANGED <<state, auth, conns>>
  /\ UNCHANGED <<SessionID, sessionSocket, port, manager, toDisplay, late>>

(* A timeout is timely when no answer can come any more; one that comes too  *)
(* early is a fault (of the network, or of a slow manager).                  *)
AnswerOnItsWay ==
  \/ \E p \in ToSet(toManager) \cup ToSet(toDisplay) \cup late : p.port = port
  \/ \E s \in Sessions : child[s] = "starting" /\ dpy.port = port
TimelyTimeout == ~AnswerOnItsWay /\ timeout /\ UNCHANGED faults
EarlyTimeout == AnswerOnItsWay /\ timeout /\ Fault

(* XdmcpWakeupHandler, when nothing has come in for the dormancy period,     *)
(* three minutes or more: a packet that is on its way all that time is a     *)
(* fault too.                                                                *)
Quiet == toManager = <<>> /\ toDisplay = <<>> /\ late = {}
send_keepalive_msg ==
  /\ state = "XDM_RUN_SESSION"
  /\ state' = "XDM_AWAIT_ALIVE_RESPONSE"
  /\ Sent("KeepAlive", SessionID)
  /\ UNCHANGED <<SessionID, timeOutRtx, sessionSocket, port, auth, conns, manager, toDisplay, late>>
TimelyKeepAlive == Quiet /\ send_keepalive_msg /\ UNCHANGED faults
EarlyKeepAlive == ~Quiet /\ send_keepalive_msg /\ Fault

(* The user touches a device after the display has given up.  The server is  *)
(* not reset.                                                                *)
restart ==
  /\ state = "XDM_AWAIT_USER_INPUT"
  /\ state' = "XDM_COLLECT_QUERY" /\ Sent("Query", 0) /\ timeOutRtx' = 0
  /\ UNCHANGED <<SessionID, sessionSocket, port, auth, conns, manager, toDisplay, late, faults>>

(* The end of a connection reaches the display: XdmcpCloseDisplay for that   *)
(* of the session; and the server resets when its last client goes.          *)
XdmcpCloseDisplay(s) ==
  /\ s \in conns /\ child[s] \in {"exited", "gone"}
  /\ IF (state \in Running /\ sessionSocket = s) \/ conns = {s}
       THEN XdmcpReset /\ timeOutRtx' = 0
       ELSE conns' = conns \ {s} /\ UNCHANGED <<state, timeOutRtx, auth, toManager>>
  /\ UNCHANGED <<SessionID, sessionSocket, port, manager, toDisplay, late, faults>>

(* XdmcpInit in a server that has just been started.                         *)
XdmcpInit ==
  /\ port < MaxPort /\ port' = port + 1
  /\ state' = "XDM_COLLECT_QUERY" /\ SessionID' = 0 /\ timeOutRtx' = 0 /\ sessionSocket' = 0
  /\ auth' = {} /\ conns' = {}
  /\ toManager' = Append(toManager, Packet("Query", port', 0, 0))
  /\ toDisplay' = <<>>
  /\ UNCHANGED <<manager, late>>
PowerCycle == state # "off" /\ XdmcpInit /\ Fault
PowerOn == state = "off" /\ XdmcpInit /\ UNCHANGED faults

Display ==
  \/ \E p \in Arriving : receive_packet(p)
  \/ TimelyTimeout \/ EarlyTimeout \/ TimelyKeepAlive \/ EarlyKeepAlive \/ restart
  \/ \E s \in Sessions : XdmcpCloseDisplay(s)
  \/ PowerCycle \/ PowerOn

-----------------------------------------------------------------------------
(* The manager.                                                             *)

Reply(p, op, id, n) == toDisplay' = Append(toDisplay, Packet(op, p.port, id, n))
NoReply == UNCHANGED toDisplay
sessions == <<dpy, child, childCookie>>

(* A walk of the list comes to a display that has been freed.  What the      *)
(* manager does from there on is undefined, and not followed: it has a step  *)
(* no more, and the sessions' processes go on without it.                    *)
Serving == up /\ displays # "undefined"
WalksFreed == displays = "freed" /\ displays' = "undefined"

(* all_query_respond.  Whether the display is acceptable is a matter of a    *)
(* file the administrator edits: that it is not is a fault here.             *)
query_respond(p) ==
  /\ \/ Reply(p, "Willing", 0, 0) /\ UNCHANGED faults
     \/ Reply(p, "Unwilling", 0, 0) /\ Fault
  /\ UNCHANGED <<proto, displays, globalSessionID, lastCookie, sessions>>

(* SetProtoDisplayAuthorization makes up a cookie for every Request.         *)
request_respond(p) ==
  LET new == proto[p.port] = NoProto
      id == IF new THEN globalSessionID + 1 ELSE proto[p.port].id
  IN /\ id <= MaxSession
     /\ \/ /\ lastCookie < MaxCookie
           /\ lastCookie' = lastCookie + 1
           /\ proto' = [proto EXCEPT ![p.port] = [id |-> id, cookie |-> lastCookie']]
           /\ Reply(p, "Accept", id, lastCookie')
           /\ globalSessionID' = IF new THEN id ELSE globalSessionID
           /\ UNCHANGED faults
        \/ /\ new                            \* not acceptable, or out of memory
           /\ Reply(p, "Decline", 0, 0)
           /\ Fault
           /\ globalSessionID' \in {globalSessionID, id}
           /\ UNCHANGED <<proto, lastCookie>>
     /\ UNCHANGED <<displays, sessions>>

NotStopped(s) == child                                               \* mutant
(* StopDisplay: the display has no server process of the manager's own.      *)
Stopped(s) ==
  [t \in Sessions |-> IF t = s /\ child[t] \in {"starting", "open"} THEN "exited" ELSE child[t]]

(* StartDisplay forks the session's process; if it cannot, that is all.      *)
Started(p) ==
  /\ dpy' = [id |-> p.id, port |-> p.port]
  /\ childCookie' = [childCookie EXCEPT ![p.id] = proto[p.port].cookie]
  /\ proto' = [proto EXCEPT ![p.port] = NoProto]
  /\ NoReply /\ UNCHANGED displays
  /\ \/ child' = [Stopped(dpy.id) EXCEPT ![p.id] = "starting"] /\ UNCHANGED faults
     \/ child' = [Stopped(dpy.id) EXCEPT ![p.id] = "gone"] /\ Fault

(* There is no memory for the display's name, or for what comes after the    *)
(* old display is gone.  If it is the array of the new one's authorizations, *)
(* the new one is freed and stays on the list, where NewDisplay has put it.  *)
OutOfMemory(p) ==
  /\ \/ UNCHANGED <<child, dpy, displays>>
     \/ /\ displays # "freed"
        /\ child' = Stopped(dpy.id) /\ dpy' = NoDisplay
        /\ displays' \in {displays, "freed"}
  /\ Reply(p, "Failed", p.id, 0)
  /\ Fault /\ UNCHANGED <<proto, childCookie>>

(* FindDisplayByName looks for the old display of a port that is to get its  *)
(* session, FindDisplayByAddress for that of a port that asks for none.      *)
manage(p) ==
  LET asked == proto[p.port].id = p.id
      looked == asked \/ proto[p.port] = NoProto
  IN /\ \/ asked /\ displays # "freed" /\ Started(p)
        \/ asked /\ OutOfMemory(p)
        \/ /\ ~asked /\ (looked => displays # "freed")
           /\ IF looked /\ dpy = [id |-> p.id, port |-> p.port]
                THEN NoReply                                   \* a duplicate
                ELSE Reply(p, "Refuse", p.id, 0)
           /\ UNCHANGED <<proto, displays, sessions, faults>>
        \/ looked /\ WalksFreed /\ NoReply /\ UNCHANGED <<proto, sessions, faults>>
     /\ UNCHANGED <<globalSessionID, lastCookie>>

send_alive(p) ==
  /\ \/ WalksFreed /\ NoReply
     \/ /\ displays # "freed" /\ UNCHANGED displays
        /\ IF dpy # NoDisplay /\ (dpy.id = p.id \/ dpy.port = p.port) /\ child[dpy.id] # "gone"
             THEN Reply(p, "Alive", dpy.id, IF dpy.id = p.id THEN 1 ELSE 0)
             ELSE Reply(p, "Alive", 0, 0)
  /\ UNCHANGED <<proto, globalSessionID, lastCookie, sessions, faults>>

ProcessRequestSocket(p) ==
  /\ p.op \in Requests /\ Serving
  /\ Taken(p, toManager)
  /\ \/ p.op = "Query" /\ query_respond(p)
     \/ p.op = "Request" /\ request_respond(p)
     \/ p.op = "Manage" /\ manage(p)
     \/ p.op = "KeepAlive" /\ send_alive(p)
  /\ UNCHANGED <<display, up>>

(* The session's process opens the display, if the display knows its cookie; *)
(* XdmcpOpenDisplay takes the first client for the one it waits for.         *)
WaitForServer(s) ==
  /\ child[s] = "starting" /\ state # "off"
  /\ dpy.id = s
  /\ childCookie[s] \in auth
  /\ child' = [child EXCEPT ![s] = "open"]
  /\ conns' = conns \cup {s}
  /\ IF state = "XDM_AWAIT_MANAGE_RESPONSE"
       THEN state' = "XDM_RUN_SESSION" /\ sessionSocket' = s
       ELSE UNCHANGED <<state, sessionSocket>>
  /\ UNCHANGED <<SessionID, timeOutRtx, port, auth, up, proto, dpy, displays, globalSessionID,
                 lastCookie, childCookie, net, faults>>

ChildBecomes(s, c) ==
  /\ child' = [child EXCEPT ![s] = c]
  /\ UNCHANGED <<display, up, proto, dpy, displays, globalSessionID, lastCookie, childCookie, net>>

(* ... or is refused, or finds no server, as often as it tries.              *)
OpenFailed(s) ==
  /\ child[s] = "starting" /\ (state = "off" \/ childCookie[s] \notin auth)
  /\ ChildBecomes(s, "failed") /\ UNCHANGED faults

(* The user logs out.                                                        *)
SessionEnds(s) == child[s] = "open" /\ s \in conns /\ ChildBecomes(s, "exited") /\ Fault

(* The connection is broken: IOErrorHandler, or PingServer finds it so.      *)
SessionPingFailed(s) ==
  child[s] = "open" /\ s \notin conns /\ ChildBecomes(s, "exited") /\ UNCHANGED faults

(* The exit status of a session's process that is still known.               *)
WaitForChild(s) ==
  /\ Serving /\ child[s] \in {"failed", "exited"}
  /\ child' = [child EXCEPT ![s] = "gone"]
  /\ \/ WalksFreed /\ UNCHANGED <<dpy, toDisplay>>
     \/ /\ displays # "freed" /\ UNCHANGED displays
        /\ IF dpy.id = s
             THEN /\ dpy' = NoDisplay
                  /\ toDisplay' = IF child[s] # "failed" THEN toDisplay
                                  ELSE Append(toDisplay, Packet("Failed", dpy.port, s, 0))
             ELSE UNCHANGED <<dpy, toDisplay>>
  /\ UNCHANGED <<display, toManager, late, up, proto, globalSessionID, lastCookie, childCookie, faults>>

(* The manager's host goes down, with the sessions' processes, and comes up. *)
(* init_session_id makes it unlikely that a session number comes again.      *)
Crash ==
  /\ up /\ Fault
  /\ up' = FALSE
  /\ proto' = [p \in Ports |-> NoProto] /\ dpy' = NoDisplay /\ displays' = "sound"
  /\ child' = [s \in Sessions |-> CASE child[s] = "open" -> "lost"
                                    [] child[s] \in {"starting", "failed", "exited"} -> "gone"
                                    [] OTHER -> child[s]]
  /\ UNCHANGED <<display, globalSessionID, lastCookie, childCookie, net>>

init_session_id ==
  /\ ~up
  /\ up' = TRUE
  /\ UNCHANGED <<display, proto, dpy, displays, globalSessionID, lastCookie, child, childCookie, net, faults>>

Manager ==
  \/ \E p \in Arriving : ProcessRequestSocket(p)
  \/ \E s \in Sessions :
       WaitForServer(s) \/ OpenFailed(s) \/ SessionEnds(s) \/ SessionPingFailed(s) \/ WaitForChild(s)
  \/ Crash \/ init_session_id

-----------------------------------------------------------------------------
(* The network.                                                             *)

(* What reaches a manager or a display that is down is lost for good.        *)
Unreachable(p) ==
  \/ p.op \in Requests /\ ~Serving
  \/ p.op \in Answers /\ (state = "off" \/ p.port # port)

Gone(p) ==
  \/ p.op \in Requests /\ Taken(p, toManager) /\ UNCHANGED toDisplay
  \/ p.op \in Answers /\ Taken(p, toDisplay) /\ UNCHANGED toManager

Lose(p) ==
  /\ Gone(p)
  /\ IF Unreachable(p) THEN UNCHANGED faults ELSE Fault
  /\ UNCHANGED <<display, manager>>

(* It, or a copy of it, arrives at any later time.                           *)
Delay(p) ==
  /\ p \notin late
  /\ \/ p.op \in Requests /\ toManager' = Tail(toManager) /\ UNCHANGED toDisplay
     \/ p.op \in Answers /\ toDisplay' = Tail(toDisplay) /\ UNCHANGED toManager
     \/ UNCHANGED <<toManager, toDisplay>>
  /\ late' = late \cup {p}
  /\ Fault /\ UNCHANGED <<display, manager>>

Network == \E p \in Arriving : Lose(p) \/ Delay(p)

Next == Display \/ Manager \/ Network
Spec == Init /\ [][Next]_vars

(* Each process runs on; packets reach whoever is there; the dormancy period *)
(* ends; the user touches a display that waits for it, and switches it on    *)
(* again when its server has exited.  A manager whose host has gone down     *)
(* need not come back.                                                       *)
Fairness ==
  /\ WF_vars(\E p \in Arriving : receive_packet(p))
  /\ WF_vars(\E p \in Arriving : ProcessRequestSocket(p))
  /\ WF_vars(\E p \in Arriving : Unreachable(p) /\ Lose(p))
  /\ WF_vars(TimelyTimeout) /\ WF_vars(TimelyKeepAlive)
  /\ WF_vars(restart) /\ WF_vars(PowerOn)
  /\ \A s \in Sessions :
       /\ WF_vars(XdmcpCloseDisplay(s)) /\ WF_vars(WaitForServer(s)) /\ WF_vars(OpenFailed(s))
       /\ WF_vars(SessionPingFailed(s)) /\ WF_vars(WaitForChild(s))
FairSpec == Spec /\ Fairness

-----------------------------------------------------------------------------
(* The display's state, both tables of the manager and every packet keep to  *)
(* their domains; the retransmission count never reaches its limit, at which *)
(* timeout has given up.                                                     *)
TypeOK ==
  /\ state \in States /\ SessionID \in 0 .. MaxSession /\ sessionSocket \in 0 .. MaxSession
  /\ timeOutRtx \in 0 .. XDM_RTX_LIMIT - 1
  /\ port \in Ports /\ auth \subseteq Cookies /\ conns \subseteq Sessions
  /\ up \in BOOLEAN /\ displays \in {"sound", "freed", "undefined"}
  /\ proto \in [Ports -> [id : 0 .. MaxSession, cookie : 0 .. MaxCookie]]
  /\ dpy \in [id : 0 .. MaxSession, port : 0 .. MaxPort]
  /\ globalSessionID \in 0 .. MaxSession /\ lastCookie \in 0 .. MaxCookie
  /\ child \in [Sessions -> ChildStates] /\ childCookie \in [Sessions -> 0 .. MaxCookie]
  /\ ToSet(toManager) \cup ToSet(toDisplay) \cup late \subseteq Packets /\ faults \in 0 .. MaxFaults

(* Whatever is lost, repeated or late, a session is started at most once,    *)
(* and starting one ends the one before: manage and protoDisplays, as        *)
(* described in doc/specs/XDMCP.                                             *)
Life == INSTANCE SessionLife WITH
  live <- {s \in Sessions : child[s] \in {"starting", "open"}},
  used <- {s \in Sessions : child[s] # "none"}
SessionsAsPromised == Life!Spec

(* Display and manager agree on one session, and it has its connection.      *)
Agreed ==
  /\ state \in Running /\ dpy.id = SessionID /\ sessionSocket = SessionID
  /\ SessionID \in conns /\ child[SessionID] = "open"

(* When faults stop, and the manager is there, they come to agree: whatever  *)
(* state the retransmissions, the keepalives and the give-up rules are in.   *)
(* Excepted is a manager that has freed a display and left it on the list:   *)
(* the first walk of the list ends what can be said of it.                   *)
Settles == <>[]Serving => <>[]Agreed
=============================================================================
