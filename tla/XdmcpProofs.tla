------------------------------ MODULE XdmcpProofs ------------------------------
(* Proofs about Xdmcp, for every bound: its types, and that it implements    *)
(* SessionLife.                                                              *)
EXTENDS Xdmcp, SequenceTheorems, TLAPS

-----------------------------------------------------------------------------
(* The invariant.                                                            *)

(* A Manage names a session, an Accept a session and a cookie.               *)
RequestPackets == {p \in Packets : p.op \in Requests /\ (p.op = "Manage" => p.id \in Sessions)}
AnswerPackets ==
  {p \in Packets : p.op \in Answers /\ (p.op = "Accept" => p.id \in Sessions /\ p.n \in Cookies)}

NetInv ==
  /\ toManager \in Seq(RequestPackets)
  /\ toDisplay \in Seq(AnswerPackets)
  /\ late \subseteq RequestPackets \cup AnswerPackets

(* A display that waits for the answer to a Manage has a session's number.   *)
DisplayInv ==
  /\ state \in States /\ SessionID \in 0 .. MaxSession /\ sessionSocket \in 0 .. MaxSession
  /\ timeOutRtx \in 0 .. XDM_RTX_LIMIT - 1
  /\ port \in Ports /\ auth \subseteq Cookies /\ conns \subseteq Sessions
  /\ state = "XDM_AWAIT_MANAGE_RESPONSE" => SessionID \in Sessions

ManagerTypes ==
  /\ up \in BOOLEAN /\ displays \in {"sound", "freed", "undefined"}
  /\ proto \in [Ports -> [id : 0 .. MaxSession, cookie : 0 .. MaxCookie]]
  /\ dpy \in [id : 0 .. MaxSession, port : 0 .. MaxPort]
  /\ dpy.id # 0 => dpy.port \in Ports
  /\ globalSessionID \in 0 .. MaxSession /\ lastCookie \in 0 .. MaxCookie
  /\ child \in [Sessions -> ChildStates] /\ childCookie \in [Sessions -> 0 .. MaxCookie]

(* The numbers of proto-displays are given out, differ, and are not used     *)
(* yet; nothing is known of a number that has not been given out; only the   *)
(* session of the struct display is alive.                                   *)
NumbersInv ==
  /\ \A q \in Ports : proto[q].id = 0 => proto[q] = NoProto
  /\ \A q \in Ports : proto[q].id <= globalSessionID
  /\ \A q \in Ports : proto[q].id # 0 => child[proto[q].id] = "none"
  /\ \A q, r \in Ports : proto[q].id = proto[r].id /\ proto[q].id # 0 => q = r
  /\ \A s \in Sessions : s > globalSessionID => child[s] = "none"
  /\ \A s \in Sessions : child[s] \in {"starting", "open"} => dpy.id = s

SessionInv ==
  NetInv /\ DisplayInv /\ ManagerTypes /\ NumbersInv /\ faults \in 0 .. MaxFaults

-----------------------------------------------------------------------------
(* Packets.                                                                  *)

LEMMA SeqHeadTail ==
  ASSUME NEW S, NEW q \in Seq(S), q # <<>>
  PROVE  Head(q) \in S /\ Tail(q) \in Seq(S)
BY HeadTailProperties

LEMMA ElementsOf ==
  ASSUME NEW S, NEW q \in Seq(S)
  PROVE  ToSet(q) \subseteq S
<1>1. \A i \in DOMAIN q : q[i] \in S
  BY ElementOfSeq, LenProperties
<1> QED  BY <1>1 DEF ToSet

LEMMA Disjoint == Requests \cap Answers = {}
BY DEF Requests, Answers

LEMMA ArrivingTypes ==
  ASSUME NetInv
  PROVE  Arriving \subseteq RequestPackets \cup AnswerPackets
BY SeqHeadTail DEF Arriving, NetInv

(* What arrives is taken from the queue of its kind, or was late.            *)
LEMMA TakenRequest ==
  ASSUME NetInv, NEW p, Taken(p, toManager), toDisplay' \in Seq(AnswerPackets)
  PROVE  NetInv'
BY SeqHeadTail DEF Taken, NetInv

LEMMA TakenAnswer ==
  ASSUME NetInv, NEW p, Taken(p, toDisplay), toManager' \in Seq(RequestPackets)
  PROVE  NetInv'
BY SeqHeadTail DEF Taken, NetInv

LEMMA SentRequest ==
  ASSUME NetInv, NEW p \in RequestPackets
  PROVE  /\ Append(toManager, p) \in Seq(RequestPackets)
         /\ toManager \o <<p, p>> \in Seq(RequestPackets)
<1>1. toManager \in Seq(RequestPackets)
  BY DEF NetInv
<1>2. <<p, p>> \in Seq(RequestPackets)
  OBVIOUS
<1>3. toManager \o <<p, p>> \in Seq(RequestPackets)
  BY <1>1, <1>2, ConcatProperties
<1> QED  BY <1>1, <1>3, AppendProperties

LEMMA SentAnswer ==
  ASSUME NetInv, NEW p \in AnswerPackets
  PROVE  Append(toDisplay, p) \in Seq(AnswerPackets)
BY AppendProperties DEF NetInv

LEMMA RequestType ==
  ASSUME NEW op \in Requests, NEW q \in Ports, NEW id \in 0 .. MaxSession,
         op = "Manage" => id \in Sessions
  PROVE  Packet(op, q, id, 0) \in RequestPackets
BY XdmcpAssumption DEF Packet, RequestPackets, Packets, Sessions

LEMMA AnswerType ==
  ASSUME NEW op \in Answers, NEW q \in Ports, NEW id \in 0 .. MaxSession,
         NEW n \in Cookies \cup {0, 1}, op = "Accept" => id \in Sessions /\ n \in Cookies
  PROVE  Packet(op, q, id, n) \in AnswerPackets
BY XdmcpAssumption DEF Packet, AnswerPackets, Packets, Sessions

-----------------------------------------------------------------------------
(* The display.                                                              *)

LEMMA Receive ==
  ASSUME SessionInv, NEW p \in Arriving, receive_packet(p)
  PROVE  NetInv' /\ DisplayInv' /\ UNCHANGED <<manager, faults>>
<1> DEFINE goes == /\ toManager' \in Seq(RequestPackets)
                   /\ state' \in States /\ SessionID' \in 0 .. MaxSession
                   /\ auth' \subseteq Cookies /\ conns' \subseteq Sessions
                   /\ state' = "XDM_AWAIT_MANAGE_RESPONSE" => SessionID' \in Sessions
<1>1. p \in AnswerPackets
  BY ArrivingTypes, Disjoint DEF SessionInv, RequestPackets, receive_packet
<1>2. NetInv /\ DisplayInv
  BY DEF SessionInv
<1>3. toManager \in Seq(RequestPackets)
  BY DEF SessionInv, NetInv
<1>4. Query \in RequestPackets
  BY <1>2, RequestType, XdmcpAssumption DEF Query, DisplayInv, Requests
<1>5. send_request_msg => goes
  <2>1. Packet("Request", port, 0, 0) \in RequestPackets
    BY <1>2, RequestType, XdmcpAssumption DEF DisplayInv, Requests
  <2> QED  BY <1>2, <2>1, SentRequest DEF send_request_msg, Sent, DisplayInv, States
<1>6. Ignored => goes
  BY <1>2, <1>3 DEF Ignored, DisplayInv
<1>7. Fatal => goes
  BY <1>2, <1>3 DEF Fatal, DisplayInv, States
<1>8. goes
  <2>1. CASE p.op = "Willing"
    BY <2>1, <1>5, <1>6 DEF receive_packet, recv_willing_msg
  <2>2. CASE p.op \in {"Unwilling", "Decline"}
    BY <2>2, <1>7 DEF receive_packet
  <2>3. CASE p.op = "Accept"
    <3>1. p.id \in Sessions /\ p.n \in Cookies /\ p.id \in 0 .. MaxSession
      BY <1>1, <2>3, XdmcpAssumption DEF AnswerPackets, Sessions
    <3>2. Packet("Manage", port, p.id, 0) \in RequestPackets
      BY <1>2, <3>1, RequestType DEF DisplayInv, Requests
    <3>3. recv_accept_msg(p)
      BY <2>3 DEF receive_packet
    <3>4. CASE state = "XDM_AWAIT_REQUEST_RESPONSE"
      BY <1>2, <3>1, <3>2, <3>3, <3>4, SentRequest DEF recv_accept_msg, Sent, DisplayInv, States
    <3> QED  BY <3>3, <3>4, <1>6 DEF recv_accept_msg
  <2>4. CASE p.op = "Refuse"
    BY <2>4, <1>5, <1>6 DEF receive_packet, recv_refuse_msg
  <2>5. CASE p.op = "Failed"
    BY <2>5, <1>6, <1>7 DEF receive_packet, recv_failed_msg
  <2>6. CASE p.op = "Alive"
    <3>1. recv_alive_msg(p)
      BY <2>6 DEF receive_packet
    <3>2. CASE state = "XDM_AWAIT_ALIVE_RESPONSE"
      BY <1>2, <1>3, <1>4, <3>1, <3>2, SentRequest
      DEF recv_alive_msg, XdmcpDeadSession, Reset, DisplayInv, States
    <3> QED  BY <3>1, <3>2, <1>6 DEF recv_alive_msg
  <2> QED  BY <2>1, <2>2, <2>3, <2>4, <2>5, <2>6 DEF receive_packet, Answers
<1>9. Taken(p, toDisplay)
  BY DEF receive_packet
<1>10. NetInv'
  BY <1>2, <1>8, <1>9, TakenAnswer
<1>11. DisplayInv'
  BY <1>2, <1>8, XdmcpAssumption DEF DisplayInv, receive_packet
<1> QED  BY <1>10, <1>11 DEF receive_packet

FaultsType == faults \in 0 .. MaxFaults

LEMMA Timeout ==
  ASSUME SessionInv, timeout
  PROVE  NetInv' /\ DisplayInv' /\ UNCHANGED manager
<1>1. NetInv /\ DisplayInv
  BY DEF SessionInv
<1>2. Query \in RequestPackets
  BY <1>1, RequestType, XdmcpAssumption DEF Query, DisplayInv, Requests
<1> DEFINE rtx == timeOutRtx + 1
           dead == state = "XDM_AWAIT_ALIVE_RESPONSE" /\ rtx >= XDM_KA_RTX_LIMIT
<1>3. CASE dead /\ XdmcpDeadSession /\ timeOutRtx' = 0
  BY <1>1, <1>2, <1>3, SentRequest, XdmcpAssumption
  DEF XdmcpDeadSession, Reset, DisplayInv, NetInv, States, timeout
<1>4. CASE /\ state' = "XDM_AWAIT_USER_INPUT" /\ timeOutRtx' = 0
           /\ UNCHANGED <<auth, conns, toManager>>
  BY <1>1, <1>4, XdmcpAssumption DEF DisplayInv, NetInv, States, timeout
<1>5. CASE /\ ~TooMany(rtx) /\ SentAgain /\ timeOutRtx' = rtx
           /\ UNCHANGED <<state, auth, conns>>
  <2>1. SentAgain => toManager' \in Seq(RequestPackets)
    <3>1. port \in Ports /\ 0 \in 0 .. MaxSession /\ SessionID \in 0 .. MaxSession
      BY <1>1, XdmcpAssumption DEF DisplayInv
    <3>2. /\ Packet("Query", port, 0, 0) \in RequestPackets
          /\ Packet("Request", port, 0, 0) \in RequestPackets
          /\ Packet("KeepAlive", port, SessionID, 0) \in RequestPackets
          /\ state = "XDM_AWAIT_MANAGE_RESPONSE" =>
               Packet("Manage", port, SessionID, 0) \in RequestPackets
      BY <1>1, <3>1, RequestType DEF DisplayInv, Requests
    <3> QED  BY <1>1, <3>2, SentRequest DEF SentAgain, Sent
  <2>2. timeOutRtx' \in 0 .. XDM_RTX_LIMIT - 1
    BY <1>1, <1>5, XdmcpAssumption DEF TooMany, DisplayInv
  <2> QED  BY <1>1, <1>5, <2>1, <2>2 DEF DisplayInv, NetInv, timeout
<1> QED  BY <1>3, <1>4, <1>5 DEF timeout

LEMMA KeepAlive ==
  ASSUME SessionInv, send_keepalive_msg
  PROVE  NetInv' /\ DisplayInv' /\ UNCHANGED manager
<1>1. NetInv /\ DisplayInv
  BY DEF SessionInv
<1>2. Packet("KeepAlive", port, SessionID, 0) \in RequestPackets
  BY <1>1, RequestType DEF DisplayInv, Requests
<1> QED
  BY <1>1, <1>2, SentRequest DEF send_keepalive_msg, Sent, DisplayInv, NetInv, States

LEMMA Restart ==
  ASSUME SessionInv, restart
  PROVE  NetInv' /\ DisplayInv' /\ UNCHANGED <<manager, faults>>
<1>1. NetInv /\ DisplayInv
  BY DEF SessionInv
<1>2. Packet("Query", port, 0, 0) \in RequestPackets
  BY <1>1, RequestType, XdmcpAssumption DEF DisplayInv, Requests
<1> QED
  BY <1>1, <1>2, SentRequest, XdmcpAssumption DEF restart, Sent, DisplayInv, NetInv, States

LEMMA CloseDisplay ==
  ASSUME SessionInv, NEW s \in Sessions, XdmcpCloseDisplay(s)
  PROVE  NetInv' /\ DisplayInv' /\ UNCHANGED <<manager, faults>>
<1>1. NetInv /\ DisplayInv
  BY DEF SessionInv
<1>2. Query \in RequestPackets
  BY <1>1, RequestType, XdmcpAssumption DEF Query, DisplayInv, Requests
<1>3. CASE XdmcpReset /\ timeOutRtx' = 0
  BY <1>1, <1>2, <1>3, SentRequest, XdmcpAssumption
  DEF XdmcpCloseDisplay, XdmcpReset, Reset, DisplayInv, NetInv, States
<1>4. CASE conns' = conns \ {s} /\ UNCHANGED <<state, timeOutRtx, auth, toManager>>
  BY <1>1, <1>4 DEF XdmcpCloseDisplay, DisplayInv, NetInv
<1> QED  BY <1>3, <1>4 DEF XdmcpCloseDisplay

LEMMA SwitchedOn ==
  ASSUME SessionInv, XdmcpInit
  PROVE  NetInv' /\ DisplayInv' /\ UNCHANGED manager
<1>1. NetInv /\ DisplayInv
  BY DEF SessionInv
<1>2. port' \in Ports
  BY <1>1, XdmcpAssumption DEF XdmcpInit, DisplayInv, Ports
<1>3. Packet("Query", port', 0, 0) \in RequestPackets
  BY <1>2, RequestType, XdmcpAssumption DEF Requests
<1>4. <<>> \in Seq(AnswerPackets)
  OBVIOUS
<1> QED
  BY <1>1, <1>2, <1>3, <1>4, SentRequest, XdmcpAssumption
  DEF XdmcpInit, DisplayInv, NetInv, States

(* The display's steps keep to the types and leave the manager alone.        *)
LEMMA DisplaySteps ==
  ASSUME SessionInv, Display
  PROVE  SessionInv' /\ UNCHANGED manager
<1>1. ASSUME NetInv', DisplayInv', FaultsType', UNCHANGED manager
      PROVE  SessionInv'
  BY <1>1 DEF SessionInv, manager, ManagerTypes, NumbersInv, FaultsType
<1>2. FaultsType
  BY DEF SessionInv, FaultsType
<1>3. Fault => FaultsType'
  BY <1>2, XdmcpAssumption DEF Fault, FaultsType
<1>4. CASE \E p \in Arriving : receive_packet(p)
  BY <1>1, <1>2, <1>4, Receive DEF FaultsType
<1>5. CASE TimelyTimeout \/ EarlyTimeout
  BY <1>1, <1>2, <1>3, <1>5, Timeout DEF TimelyTimeout, EarlyTimeout, FaultsType
<1>6. CASE TimelyKeepAlive \/ EarlyKeepAlive
  BY <1>1, <1>2, <1>3, <1>6, KeepAlive DEF TimelyKeepAlive, EarlyKeepAlive, FaultsType
<1>7. CASE restart
  BY <1>1, <1>2, <1>7, Restart DEF FaultsType
<1>8. CASE \E s \in Sessions : XdmcpCloseDisplay(s)
  BY <1>1, <1>2, <1>8, CloseDisplay DEF FaultsType
<1>9. CASE PowerCycle \/ PowerOn
  BY <1>1, <1>2, <1>3, <1>9, SwitchedOn DEF PowerCycle, PowerOn, FaultsType
<1> QED  BY <1>4, <1>5, <1>6, <1>7, <1>8, <1>9 DEF Display

-----------------------------------------------------------------------------
(* The manager.  A step of it begins or ends a session as SessionLife says,  *)
(* or leaves the sessions as they are.                                       *)

Live == {s \in Sessions : child[s] \in {"starting", "open"}}
Used == {s \in Sessions : child[s] # "none"}
LifeStep == [Life!Next]_<<Live, Used>>

LEMMA Lives ==
  ASSUME \/ \E s \in Sessions : s \notin Used /\ Used' = Used \cup {s} /\ Live' \in {{s}, {}}
         \/ Used' = Used /\ Live' \in {Live, {}}
  PROVE  LifeStep
BY DEF LifeStep, Live, Used, Life!Next, Life!Begin, Life!Misfire, Life!End

LEMMA NoLifeStep ==
  ASSUME UNCHANGED child
  PROVE  LifeStep
BY DEF LifeStep, Live, Used

(* Packets from the display, and what the manager answers.                   *)
LEMMA Asked ==
  ASSUME SessionInv, NEW p \in Arriving, p.op \in Requests
  PROVE  p \in RequestPackets /\ p.port \in Ports /\ p.id \in 0 .. MaxSession
<1>1. p \in RequestPackets
  BY ArrivingTypes, Disjoint DEF SessionInv, AnswerPackets
<1> QED  BY <1>1, XdmcpAssumption DEF RequestPackets, Packets, Sessions

LEMMA Replied ==
  ASSUME SessionInv, NEW p \in RequestPackets, NEW op \in Answers, NEW id \in 0 .. MaxSession,
         NEW n \in Cookies \cup {0, 1}, op = "Accept" => id \in Sessions /\ n \in Cookies,
         Reply(p, op, id, n)
  PROVE  toDisplay' \in Seq(AnswerPackets)
<1>1. Packet(op, p.port, id, n) \in AnswerPackets
  BY AnswerType DEF RequestPackets, Packets
<1> QED  BY <1>1, SentAnswer DEF SessionInv, Reply

(* What the answer to a request does: a step of SessionLife or none.         *)
Answered ==
  toDisplay' \in Seq(AnswerPackets) /\ ManagerTypes' /\ NumbersInv' /\ FaultsType' /\ LifeStep

LEMMA FaultType == SessionInv /\ (Fault \/ UNCHANGED faults) => FaultsType'
BY XdmcpAssumption DEF SessionInv, Fault, FaultsType

LEMMA QueryAnswered ==
  ASSUME SessionInv, NEW p \in RequestPackets, query_respond(p), UNCHANGED up
  PROVE  Answered
<1>1. toDisplay' \in Seq(AnswerPackets)
  BY Replied, XdmcpAssumption DEF query_respond, Answers
<1>2. UNCHANGED manager
  BY DEF query_respond, sessions, manager
<1>3. ManagerTypes' /\ NumbersInv'
  BY <1>2 DEF SessionInv, manager, ManagerTypes, NumbersInv
<1> QED
  BY <1>1, <1>2, <1>3, FaultType, NoLifeStep DEF Answered, query_respond, manager

LEMMA AliveAnswered ==
  ASSUME SessionInv, NEW p \in RequestPackets, send_alive(p), UNCHANGED up
  PROVE  Answered
<1>1. dpy.id \in 0 .. MaxSession
  BY DEF SessionInv, ManagerTypes
<1>2. \A id \in {0, dpy.id}, n \in {0, 1} :
        Reply(p, "Alive", id, n) => toDisplay' \in Seq(AnswerPackets)
  BY <1>1, Replied, XdmcpAssumption DEF Answers
<1>3. toDisplay' \in Seq(AnswerPackets)
  BY <1>2 DEF send_alive, NoReply, SessionInv, NetInv
<1>4. /\ UNCHANGED <<proto, dpy, globalSessionID, lastCookie, child, childCookie>>
      /\ displays' \in {displays, "undefined"}
  BY DEF send_alive, sessions, WalksFreed
<1>5. ManagerTypes' /\ NumbersInv'
  BY <1>4 DEF SessionInv, ManagerTypes, NumbersInv
<1> QED
  BY <1>3, <1>4, <1>5, FaultType, NoLifeStep DEF Answered, send_alive

(* A proto-display gets a number that was never given out, or keeps its own. *)
LEMMA RequestAnswered ==
  ASSUME SessionInv, NEW p \in RequestPackets, request_respond(p), UNCHANGED up
  PROVE  Answered
<1> DEFINE new == proto[p.port] = NoProto
           id == IF new THEN globalSessionID + 1 ELSE proto[p.port].id
<1>1. p.port \in Ports
  BY DEF RequestPackets, Packets
<1>2. ManagerTypes /\ NumbersInv
  BY DEF SessionInv
<1>3. id \in Sessions /\ id \in 0 .. MaxSession
  <2>1. CASE new
    BY <1>2, <2>1, XdmcpAssumption DEF request_respond, ManagerTypes, Sessions
  <2>2. CASE ~new
    BY <1>1, <1>2, <2>2, XdmcpAssumption DEF ManagerTypes, NumbersInv, Sessions
  <2> QED  BY <2>1, <2>2
<1>4. UNCHANGED <<up, dpy, displays, child, childCookie>>
  BY DEF request_respond, sessions
<1>5. CASE /\ lastCookie < MaxCookie /\ lastCookie' = lastCookie + 1
           /\ proto' = [proto EXCEPT ![p.port] = [id |-> id, cookie |-> lastCookie']]
           /\ Reply(p, "Accept", id, lastCookie')
           /\ globalSessionID' = IF new THEN id ELSE globalSessionID
           /\ UNCHANGED faults
  <2>1. lastCookie' \in Cookies /\ lastCookie' \in 0 .. MaxCookie
    BY <1>2, <1>5, XdmcpAssumption DEF ManagerTypes, Cookies
  <2>2. toDisplay' \in Seq(AnswerPackets)
    BY <1>3, <1>5, <2>1, Replied DEF Answers
  <2>3. globalSessionID' \in 0 .. MaxSession
    BY <1>2, <1>3, <1>5 DEF ManagerTypes
  <2>4. ManagerTypes'
    BY <1>1, <1>2, <1>3, <1>4, <1>5, <2>1, <2>3 DEF ManagerTypes
  <2>5. /\ proto'[p.port] = [id |-> id, cookie |-> lastCookie']
        /\ \A q \in Ports : q # p.port => proto'[q] = proto[q]
    BY <1>1, <1>2, <1>5 DEF ManagerTypes
  <2>6. globalSessionID <= globalSessionID' /\ id <= globalSessionID'
    BY <1>1, <1>2, <1>3, <1>5, XdmcpAssumption DEF ManagerTypes, NumbersInv, Sessions
  <2>7. child[id] = "none" /\ \A q \in Ports : proto[q].id = id => q = p.port
    <3>1. CASE new
      BY <1>1, <1>2, <1>3, <3>1, XdmcpAssumption DEF ManagerTypes, NumbersInv, Sessions
    <3>2. CASE ~new
      BY <1>1, <1>2, <3>2 DEF NumbersInv
    <3> QED  BY <3>1, <3>2
  <2>8. NumbersInv'
    <3>1. \A q \in Ports : proto'[q].id = 0 => proto'[q] = NoProto
      BY <1>2, <1>3, <2>5 DEF NumbersInv, Sessions
    <3>2. \A q \in Ports : proto'[q].id <= globalSessionID'
      BY <1>2, <2>3, <2>5, <2>6, XdmcpAssumption DEF NumbersInv, ManagerTypes
    <3>3. \A q \in Ports : proto'[q].id # 0 => child'[proto'[q].id] = "none"
      BY <1>2, <1>4, <2>5, <2>7 DEF NumbersInv
    <3>4. \A q, r \in Ports : proto'[q].id = proto'[r].id /\ proto'[q].id # 0 => q = r
      BY <1>2, <2>5, <2>7 DEF NumbersInv
    <3>5. \A s \in Sessions : s > globalSessionID' => child'[s] = "none"
      BY <1>2, <1>4, <2>3, <2>6, XdmcpAssumption DEF NumbersInv, Sessions, ManagerTypes
    <3> QED  BY <1>2, <1>4, <3>1, <3>2, <3>3, <3>4, <3>5 DEF NumbersInv
  <2> QED  BY <1>4, <1>5, <2>2, <2>4, <2>8, FaultType, NoLifeStep DEF Answered
<1>6. CASE /\ new /\ Reply(p, "Decline", 0, 0) /\ Fault
           /\ globalSessionID' \in {globalSessionID, id} /\ UNCHANGED <<proto, lastCookie>>
  <2>1. toDisplay' \in Seq(AnswerPackets)
    BY <1>6, Replied, XdmcpAssumption DEF Answers
  <2>2. ManagerTypes'
    BY <1>2, <1>3, <1>4, <1>6 DEF ManagerTypes
  <2>3. globalSessionID' >= globalSessionID
    BY <1>2, <1>6, XdmcpAssumption DEF ManagerTypes
  <2>4. NumbersInv'
    BY <1>2, <1>4, <1>6, <2>2, <2>3, XdmcpAssumption DEF NumbersInv, ManagerTypes, Sessions
  <2> QED  BY <1>4, <1>6, <2>1, <2>2, <2>4, FaultType, NoLifeStep DEF Answered
<1> QED  BY <1>5, <1>6 DEF request_respond

(* Whatever session the struct display has, no other one is alive: stopping  *)
(* it stops all.                                                             *)
LEMMA StoppedType ==
  ASSUME SessionInv
  PROVE  /\ Stopped(dpy.id) \in [Sessions -> ChildStates]
         /\ \A s \in Sessions : /\ Stopped(dpy.id)[s] \notin {"starting", "open"}
                                /\ (Stopped(dpy.id)[s] = "none") <=> (child[s] = "none")
BY DEF SessionInv, ManagerTypes, NumbersInv, Stopped, ChildStates

LEMMA ManageAnswered ==
  ASSUME SessionInv, NEW p \in RequestPackets, p.op = "Manage", manage(p), UNCHANGED up
  PROVE  Answered
<1>1. p.port \in Ports /\ p.id \in Sessions /\ p.id \in 0 .. MaxSession /\ p.id # 0
  BY XdmcpAssumption DEF RequestPackets, Packets, Sessions
<1>2. ManagerTypes /\ NumbersInv /\ NetInv
  BY DEF SessionInv
<1>3. /\ UNCHANGED <<up, globalSessionID, lastCookie>>
      /\ displays' \in {"sound", "freed", "undefined"}
  BY <1>2 DEF manage, Started, OutOfMemory, WalksFreed, ManagerTypes
<1> DEFINE stopped == Stopped(dpy.id)
<1>4. /\ stopped \in [Sessions -> ChildStates]
      /\ \A s \in Sessions : /\ stopped[s] \notin {"starting", "open"}
                             /\ (stopped[s] = "none") <=> (child[s] = "none")
  BY StoppedType
<1> HIDE DEF stopped
<1>5. CASE /\ proto[p.port].id = p.id
           /\ dpy' = [id |-> p.id, port |-> p.port]
           /\ childCookie' = [childCookie EXCEPT ![p.id] = proto[p.port].cookie]
           /\ proto' = [proto EXCEPT ![p.port] = NoProto]
           /\ NoReply
           /\ \/ child' = [stopped EXCEPT ![p.id] = "starting"] /\ UNCHANGED faults
              \/ child' = [stopped EXCEPT ![p.id] = "gone"] /\ Fault
  <2>1. toDisplay' \in Seq(AnswerPackets)
    BY <1>2, <1>5 DEF NoReply, NetInv
  <2>2. PICK c \in {"starting", "gone"} : child' = [stopped EXCEPT ![p.id] = c]
    BY <1>5
  <2>3. /\ child' \in [Sessions -> ChildStates] /\ child'[p.id] = c
        /\ \A s \in Sessions : s # p.id => child'[s] = stopped[s]
    BY <1>1, <1>4, <2>2 DEF ChildStates
  <2>4. /\ proto' \in [Ports -> [id : 0 .. MaxSession, cookie : 0 .. MaxCookie]]
        /\ proto'[p.port] = NoProto
        /\ \A q \in Ports : q # p.port => proto'[q] = proto[q]
    BY <1>1, <1>2, <1>5, XdmcpAssumption DEF ManagerTypes, NoProto
  <2>5. ManagerTypes'
    <3>1. dpy' \in [id : 0 .. MaxSession, port : 0 .. MaxPort]
      BY <1>1, <1>5, XdmcpAssumption DEF Ports
    <3>3. dpy'.port \in Ports
      BY <1>1, <1>5
    <3>2. childCookie' \in [Sessions -> 0 .. MaxCookie]
      BY <1>1, <1>2, <1>5 DEF ManagerTypes
    <3> QED  BY <1>2, <1>3, <2>3, <2>4, <3>1, <3>2, <3>3 DEF ManagerTypes
  <2>6. child[p.id] = "none" /\ p.id <= globalSessionID
        /\ \A q \in Ports : proto[q].id = p.id => q = p.port
    BY <1>1, <1>2, <1>5 DEF NumbersInv
  <2>7. NumbersInv'
    <3>1. \A q \in Ports : proto'[q].id = 0 => proto'[q] = NoProto
      BY <1>2, <2>4 DEF NumbersInv
    <3>2. \A q \in Ports : proto'[q].id <= globalSessionID'
      BY <1>2, <1>3, <2>4, XdmcpAssumption DEF NumbersInv, ManagerTypes, NoProto
    <3>3. \A q \in Ports : proto'[q].id # 0 => child'[proto'[q].id] = "none"
      <4> SUFFICES ASSUME NEW q \in Ports, proto'[q].id # 0
                   PROVE  child'[proto'[q].id] = "none"
        OBVIOUS
      <4>1. q # p.port /\ proto'[q] = proto[q]
        BY <2>4 DEF NoProto
      <4>2. proto[q].id \in Sessions
        BY <1>2, <4>1, XdmcpAssumption DEF ManagerTypes, Sessions
      <4> QED  BY <1>2, <1>4, <2>3, <2>6, <4>1, <4>2 DEF NumbersInv
    <3>4. \A q, r \in Ports : proto'[q].id = proto'[r].id /\ proto'[q].id # 0 => q = r
      BY <1>2, <2>4 DEF NumbersInv, NoProto
    <3>5. \A s \in Sessions : s > globalSessionID' => child'[s] = "none"
      BY <1>1, <1>2, <1>3, <1>4, <2>3, <2>6, XdmcpAssumption
      DEF NumbersInv, Sessions, ManagerTypes
    <3>6. \A s \in Sessions : child'[s] \in {"starting", "open"} => dpy'.id = s
      <4>1. dpy'.id = p.id
        BY <1>5
      <4> QED  BY <1>4, <2>3, <4>1
    <3> QED  BY <3>1, <3>2, <3>3, <3>4, <3>5, <3>6 DEF NumbersInv
  <2>8. p.id \notin Used /\ Used' = Used \cup {p.id} /\ Live' \in {{p.id}, {}}
    <3>1. \A s \in Sessions : /\ (s \in Used) <=> (child[s] # "none")
                              /\ (s \in Used') <=> (child'[s] # "none")
                              /\ (s \in Live') <=> (child'[s] \in {"starting", "open"})
      BY DEF Used, Live
    <3>2. Used' \subseteq Sessions /\ Live' \subseteq Sessions /\ Used \subseteq Sessions
      BY DEF Used, Live
    <3>3. Used' = Used \cup {p.id}
      BY <1>1, <1>4, <2>3, <3>1, <3>2
    <3>4. CASE c = "starting"
      <4>1. Live' = {p.id}
        BY <1>1, <1>4, <2>3, <3>1, <3>2, <3>4
      <4> QED  BY <1>1, <2>6, <3>1, <3>3, <4>1
    <3>5. CASE c = "gone"
      <4>1. Live' = {}
        BY <1>1, <1>4, <2>3, <3>1, <3>2, <3>5
      <4> QED  BY <1>1, <2>6, <3>1, <3>3, <4>1
    <3> QED  BY <3>4, <3>5
  <2>9. LifeStep
    BY <1>1, <2>8, Lives
  <2> QED  BY <1>5, <2>1, <2>5, <2>7, <2>9, FaultType DEF Answered
<1>6. CASE /\ \/ child' = stopped /\ dpy' = NoDisplay
              \/ UNCHANGED <<child, dpy>>
           /\ Reply(p, "Failed", p.id, 0)
           /\ Fault /\ UNCHANGED <<proto, childCookie>>
  <2>1. toDisplay' \in Seq(AnswerPackets)
    BY <1>1, <1>6, Replied DEF Answers
  <2>2. ManagerTypes'
    BY <1>2, <1>3, <1>4, <1>6, XdmcpAssumption DEF ManagerTypes, NoDisplay
  <2>3. NumbersInv'
    <3>1. CASE UNCHANGED <<child, dpy>>
      BY <1>2, <1>3, <1>6, <3>1 DEF NumbersInv
    <3>2. CASE child' = stopped /\ dpy' = NoDisplay
      <4>1. \A q \in Ports : proto[q].id # 0 => proto[q].id \in Sessions
        BY <1>2, XdmcpAssumption DEF ManagerTypes, Sessions
      <4>2. \A s \in Sessions : child[s] = "none" => child'[s] = "none"
        BY <1>4, <3>2
      <4>3. \A s \in Sessions : child'[s] \notin {"starting", "open"}
        BY <1>4, <3>2
      <4>4. UNCHANGED <<proto, globalSessionID>>
        BY <1>3, <1>6
      <4> QED  BY <1>2, <4>1, <4>2, <4>3, <4>4 DEF NumbersInv
    <3> QED  BY <1>6, <3>1, <3>2
  <2>4. LifeStep
    <3>1. Used' = Used /\ Live' \in {Live, {}}
      <4>1. CASE UNCHANGED <<child, dpy>>
        BY <4>1 DEF Used, Live
      <4>2. CASE child' = stopped
        <5>1. Used' = {s \in Sessions : stopped[s] # "none"}
              /\ Live' = {s \in Sessions : stopped[s] \in {"starting", "open"}}
          BY <4>2 DEF Used, Live
        <5> QED  BY <1>4, <5>1 DEF Used
      <4> QED  BY <1>6, <4>1, <4>2
    <3> QED  BY <3>1, Lives
  <2> QED  BY <1>6, <2>1, <2>2, <2>3, <2>4, FaultType DEF Answered
<1>7. CASE /\ NoReply \/ Reply(p, "Refuse", p.id, 0)
           /\ UNCHANGED <<proto, sessions, faults>>
  <2>1. toDisplay' \in Seq(AnswerPackets)
    <3>1. Reply(p, "Refuse", p.id, 0) => toDisplay' \in Seq(AnswerPackets)
      BY <1>1, Replied DEF Answers
    <3> QED  BY <1>2, <1>7, <3>1 DEF NoReply, NetInv
  <2>2. UNCHANGED <<up, proto, dpy, globalSessionID, lastCookie, child, childCookie>>
    BY <1>3, <1>7 DEF sessions
  <2>3. ManagerTypes' /\ NumbersInv'
    BY <1>2, <1>3, <2>2 DEF ManagerTypes, NumbersInv
  <2> QED  BY <1>7, <2>1, <2>2, <2>3, FaultType, NoLifeStep DEF Answered
<1>8. /\ proto[p.port].id = p.id /\ Started(p) => Answered
      /\ OutOfMemory(p) => Answered
  BY <1>5, <1>6 DEF Started, OutOfMemory, stopped
<1> QED  BY <1>7, <1>8 DEF manage

LEMMA RequestProcessed ==
  ASSUME SessionInv, NEW p \in Arriving, ProcessRequestSocket(p)
  PROVE  SessionInv' /\ LifeStep
<1>1. p \in RequestPackets
  BY Asked DEF ProcessRequestSocket
<1>2. Answered
  BY <1>1, QueryAnswered, RequestAnswered, ManageAnswered, AliveAnswered
  DEF ProcessRequestSocket
<1>3. NetInv'
  BY <1>2, TakenRequest DEF SessionInv, Answered, ProcessRequestSocket
<1>4. DisplayInv'
  BY DEF SessionInv, ProcessRequestSocket, display, DisplayInv
<1> QED  BY <1>2, <1>3, <1>4 DEF SessionInv, Answered, FaultsType

(* One session's process goes on to another state; c is not "none".          *)
LEMMA ChildGoesOn ==
  ASSUME SessionInv, NEW s \in Sessions, NEW c \in ChildStates \ {"none"},
         child[s] # "none", child' = [child EXCEPT ![s] = c],
         \/ child[s] \in {"starting", "open"} /\ UNCHANGED dpy
         \/ c \notin {"starting", "open"} /\ dpy.id = s
         \/ c \notin {"starting", "open"} /\ child[s] \notin {"starting", "open"} /\ UNCHANGED dpy,
         UNCHANGED <<proto, globalSessionID>>
  PROVE  NumbersInv' /\ child' \in [Sessions -> ChildStates] /\ LifeStep
<1>1. ManagerTypes /\ NumbersInv
  BY DEF SessionInv
<1>2. /\ child' \in [Sessions -> ChildStates] /\ child'[s] = c
      /\ \A t \in Sessions : t # s => child'[t] = child[t]
  BY <1>1 DEF ManagerTypes
<1>3. \A t \in Sessions : child'[t] = "none" <=> child[t] = "none"
  BY <1>2
<1>4. \A t \in Sessions : child[t] \in {"starting", "open"} => t = dpy.id
  BY <1>1 DEF NumbersInv
<1>5. \A t \in Sessions : child'[t] \in {"starting", "open"} => dpy'.id = t
  BY <1>2, <1>4
<1>6. \A q \in Ports : proto[q].id # 0 => proto[q].id \in Sessions
  BY <1>1, XdmcpAssumption DEF ManagerTypes, Sessions
<1>7. NumbersInv'
  BY <1>1, <1>3, <1>5, <1>6 DEF NumbersInv
<1>8. Used' = Used
  BY <1>3 DEF Used
<1>9. Live' \in {Live, {}}
  <2>1. \A t \in Live : t = dpy.id
    BY <1>4 DEF Live
  <2>2. CASE c \in {"starting", "open"}
    <3>1. Live' = Live
      BY <1>2, <2>2 DEF Live
    <3> QED  BY <3>1
  <2>3. CASE c \notin {"starting", "open"} /\ child[s] \in {"starting", "open"}
    <3>1. Live' = {}
      BY <1>2, <1>4, <2>3 DEF Live
    <3> QED  BY <3>1
  <2>4. CASE c \notin {"starting", "open"} /\ child[s] \notin {"starting", "open"}
    <3>1. Live' = Live
      BY <1>2, <2>4 DEF Live
    <3> QED  BY <3>1
  <2> QED  BY <2>2, <2>3, <2>4
<1> QED  BY <1>2, <1>7, <1>8, <1>9, Lives

LEMMA ServerReached ==
  ASSUME SessionInv, NEW s \in Sessions, WaitForServer(s)
  PROVE  SessionInv' /\ LifeStep
<1>1. NumbersInv' /\ child' \in [Sessions -> ChildStates] /\ LifeStep
  BY ChildGoesOn DEF WaitForServer, ChildStates
<1>2. DisplayInv'
  <2>1. s \in 0 .. MaxSession
    BY XdmcpAssumption DEF Sessions
  <2> QED  BY <2>1 DEF WaitForServer, SessionInv, DisplayInv, States
<1>3. ManagerTypes' /\ NetInv' /\ UNCHANGED faults
  BY <1>1 DEF WaitForServer, SessionInv, ManagerTypes, net, NetInv
<1> QED  BY <1>1, <1>2, <1>3 DEF SessionInv

LEMMA ChildEnds ==
  ASSUME SessionInv, NEW s \in Sessions, OpenFailed(s) \/ SessionEnds(s) \/ SessionPingFailed(s)
  PROVE  SessionInv' /\ LifeStep
<1>1. PICK c \in {"failed", "exited"} : ChildBecomes(s, c)
  BY DEF OpenFailed, SessionEnds, SessionPingFailed
<1>2. child[s] \in {"starting", "open"}
  BY DEF OpenFailed, SessionEnds, SessionPingFailed
<1>3. NumbersInv' /\ child' \in [Sessions -> ChildStates] /\ LifeStep
  BY <1>1, <1>2, ChildGoesOn DEF ChildBecomes, ChildStates
<1>4. DisplayInv' /\ ManagerTypes' /\ NetInv'
  BY <1>1, <1>3 DEF ChildBecomes, SessionInv, display, DisplayInv, ManagerTypes, net, NetInv
<1>5. FaultsType'
  BY FaultType DEF OpenFailed, SessionEnds, SessionPingFailed
<1> QED  BY <1>3, <1>4, <1>5 DEF SessionInv, FaultsType

LEMMA ChildReaped ==
  ASSUME SessionInv, NEW s \in Sessions, WaitForChild(s)
  PROVE  SessionInv' /\ LifeStep
<1>1. ManagerTypes /\ NumbersInv /\ NetInv
  BY DEF SessionInv
<1>2. NumbersInv' /\ child' \in [Sessions -> ChildStates] /\ LifeStep
  BY ChildGoesOn DEF WaitForChild, ChildStates
<1>3. /\ dpy' \in [id : 0 .. MaxSession, port : 0 .. MaxPort]
      /\ dpy'.id # 0 => dpy'.port \in Ports
  BY <1>1, XdmcpAssumption DEF WaitForChild, ManagerTypes, NoDisplay
<1>4. ManagerTypes'
  BY <1>1, <1>2, <1>3 DEF WaitForChild, WalksFreed, ManagerTypes
<1>5. toDisplay' \in Seq(AnswerPackets)
  <2>1. CASE UNCHANGED toDisplay
    BY <1>1, <2>1 DEF NetInv
  <2>2. CASE toDisplay' = Append(toDisplay, Packet("Failed", dpy.port, s, 0))
    <3>1. Packet("Failed", dpy.port, s, 0) \in AnswerPackets \/ dpy.id # s
      BY <1>1, AnswerType, XdmcpAssumption DEF ManagerTypes, Sessions, Answers
    <3> QED  BY <1>1, <2>2, <3>1, SentAnswer DEF WaitForChild, NetInv
  <2> QED  BY <2>1, <2>2 DEF WaitForChild
<1>6. NetInv' /\ DisplayInv' /\ UNCHANGED faults
  BY <1>1, <1>5 DEF WaitForChild, NetInv, SessionInv, display, DisplayInv
<1> QED  BY <1>2, <1>4, <1>6 DEF SessionInv

LEMMA HostCrashes ==
  ASSUME SessionInv, Crash
  PROVE  SessionInv' /\ LifeStep
<1>1. ManagerTypes /\ NumbersInv
  BY DEF SessionInv
<1>2. /\ child' \in [Sessions -> ChildStates]
      /\ \A s \in Sessions : /\ child'[s] \notin {"starting", "open"}
                             /\ (child'[s] = "none") <=> (child[s] = "none")
  BY <1>1 DEF Crash, ManagerTypes, ChildStates
<1>3. ManagerTypes'
  <2>1. proto' \in [Ports -> [id : 0 .. MaxSession, cookie : 0 .. MaxCookie]]
    BY XdmcpAssumption DEF Crash, NoProto
  <2>2. /\ dpy' \in [id : 0 .. MaxSession, port : 0 .. MaxPort]
        /\ dpy'.id # 0 => dpy'.port \in Ports
    BY XdmcpAssumption DEF Crash, NoDisplay
  <2>3. /\ up' \in BOOLEAN /\ displays' = "sound"
        /\ UNCHANGED <<globalSessionID, lastCookie, childCookie>>
    BY DEF Crash
  <2> QED  BY <1>1, <1>2, <2>1, <2>2, <2>3 DEF ManagerTypes
<1>4. NumbersInv'
  <2>1. \A q \in Ports : proto'[q].id = 0 /\ proto'[q] = NoProto
    BY DEF Crash, NoProto
  <2>2. UNCHANGED globalSessionID /\ globalSessionID \in 0 .. MaxSession
    BY <1>1 DEF Crash, ManagerTypes
  <2>3. \A q \in Ports : proto'[q].id <= globalSessionID'
    BY <2>1, <2>2, XdmcpAssumption
  <2>4. \A s \in Sessions : s > globalSessionID' => child'[s] = "none"
    BY <1>1, <1>2, <2>2 DEF NumbersInv
  <2> QED  BY <1>2, <2>1, <2>3, <2>4 DEF NumbersInv
<1>5. Used' = Used /\ Live' = {}
  BY <1>2 DEF Used, Live
<1>6. DisplayInv' /\ NetInv' /\ FaultsType'
  BY FaultType DEF Crash, SessionInv, display, DisplayInv, net, NetInv
<1> QED  BY <1>3, <1>4, <1>5, <1>6, Lives DEF SessionInv, FaultsType

LEMMA HostBack ==
  ASSUME SessionInv, init_session_id
  PROVE  SessionInv' /\ LifeStep
<1>1. SessionInv'
  BY DEF init_session_id, SessionInv, display, DisplayInv, net, NetInv, ManagerTypes, NumbersInv
<1> QED  BY <1>1, NoLifeStep DEF init_session_id

LEMMA ManagerSteps ==
  ASSUME SessionInv, Manager
  PROVE  SessionInv' /\ LifeStep
BY RequestProcessed, ServerReached, ChildEnds, ChildReaped, HostCrashes, HostBack DEF Manager

-----------------------------------------------------------------------------
(* The network loses packets and delays them.                                *)

LEMMA NetworkSteps ==
  ASSUME SessionInv, Network
  PROVE  SessionInv' /\ UNCHANGED manager
<1>1. PICK p \in Arriving : Lose(p) \/ Delay(p)
  BY DEF Network
<1>2. NetInv
  BY DEF SessionInv
<1>3. p \in RequestPackets \cup AnswerPackets
  BY <1>2, ArrivingTypes
<1>4. NetInv'
  <2>1. CASE Lose(p)
    BY <1>2, <2>1, TakenRequest, TakenAnswer DEF Lose, Gone, NetInv
  <2>2. CASE Delay(p)
    <3>1. p.op \in Requests => toManager # <<>> /\ p = Head(toManager)
      BY <1>2, <2>2, SeqHeadTail, Disjoint DEF Delay, Arriving, NetInv, AnswerPackets
    <3>2. p.op \in Answers => toDisplay # <<>> /\ p = Head(toDisplay)
      BY <1>2, <2>2, SeqHeadTail, Disjoint DEF Delay, Arriving, NetInv, RequestPackets
    <3> QED  BY <1>2, <1>3, <2>2, <3>1, <3>2, SeqHeadTail DEF Delay, NetInv
  <2> QED  BY <1>1, <2>1, <2>2
<1>5. FaultsType' /\ UNCHANGED <<display, manager>>
  BY <1>1, FaultType DEF Lose, Delay
<1> QED
  BY <1>4, <1>5
  DEF SessionInv, FaultsType, display, manager, DisplayInv, ManagerTypes, NumbersInv

-----------------------------------------------------------------------------
LEMMA InitialSessions ==
  ASSUME Init
  PROVE  SessionInv /\ Life!Init
<1>1. Packet("Query", 1, 0, 0) \in RequestPackets
  BY RequestType, XdmcpAssumption DEF Requests, Ports
<1>2. <<Packet("Query", 1, 0, 0)>> \in Seq(RequestPackets) /\ <<>> \in Seq(AnswerPackets)
  BY <1>1
<1>3. NetInv
  BY <1>2 DEF Init, NetInv
<1>4. DisplayInv
  BY XdmcpAssumption DEF Init, DisplayInv, States, Ports
<1>5. ManagerTypes
  BY XdmcpAssumption DEF Init, ManagerTypes, ChildStates, NoProto, NoDisplay
<1>6. NumbersInv
  BY XdmcpAssumption DEF Init, NumbersInv, NoProto
<1>7. Life!Init
  BY DEF Init, Life!Init
<1> QED  BY <1>3, <1>4, <1>5, <1>6, <1>7, XdmcpAssumption DEF Init, SessionInv

LEMMA SessionSteps ==
  ASSUME SessionInv, [Next]_vars
  PROVE  SessionInv' /\ LifeStep
<1>1. CASE Display
  BY <1>1, DisplaySteps, NoLifeStep DEF manager
<1>2. CASE Manager
  BY <1>2, ManagerSteps
<1>3. CASE Network
  BY <1>3, NetworkSteps, NoLifeStep DEF manager
<1>4. CASE UNCHANGED vars
  <2>1. SessionInv'
    BY <1>4
    DEF vars, display, manager, net, SessionInv, DisplayInv, NetInv, ManagerTypes, NumbersInv
  <2> QED  BY <1>4, <2>1, NoLifeStep DEF vars, manager
<1> QED  BY <1>1, <1>2, <1>3, <1>4 DEF Next

LEMMA SessionInvariant == Spec => []SessionInv
<1>1. Init => SessionInv
  BY InitialSessions
<1>2. SessionInv /\ [Next]_vars => SessionInv'
  BY SessionSteps
<1> QED  BY <1>1, <1>2, PTL DEF Spec

(* The display's and the manager's data, and every packet on the way, keep   *)
(* to their domains; timeout gives up before the count passes its limit.     *)
THEOREM TypeCorrect == Spec => []TypeOK
<1>1. SessionInv => TypeOK
  <2> SUFFICES ASSUME SessionInv PROVE TypeOK
    OBVIOUS
  <2>1. ToSet(toManager) \subseteq RequestPackets /\ ToSet(toDisplay) \subseteq AnswerPackets
    BY ElementsOf DEF SessionInv, NetInv
  <2>2. ToSet(toManager) \cup ToSet(toDisplay) \cup late \subseteq Packets
    BY <2>1 DEF SessionInv, NetInv, RequestPackets, AnswerPackets
  <2> QED  BY <2>2 DEF SessionInv, DisplayInv, ManagerTypes, TypeOK
<1> QED  BY <1>1, SessionInvariant, PTL

(* Whatever packets are lost, repeated or late, whatever is switched off or  *)
(* crashes: manage starts a session at most once for each number that        *)
(* request_respond has given out, and starting one ends the one before.      *)
THEOREM SessionsKeepPromise == Spec => SessionsAsPromised
<1>1. Init => Life!Init
  BY InitialSessions
<1>2. SessionInv /\ [Next]_vars => [Life!Next]_<<Live, Used>>
  BY SessionSteps DEF LifeStep
<1>3. SessionInv /\ [Next]_vars =>
        [Life!Next]_<<{s \in Sessions : child[s] \in {"starting", "open"}},
                      {s \in Sessions : child[s] # "none"}>>
  BY <1>2 DEF Live, Used
<1> QED  BY <1>1, <1>3, SessionInvariant, PTL DEF Spec, SessionsAsPromised, Life!Spec
=============================================================================
