------------------------------ MODULE Dispatch ------------------------------
(* Which client is served next: the main loop (dix/dispatch.c), the sets of  *)
(* connections it waits for (os/WaitFor.c, connection.c, io.c), and what     *)
(* changes them: buffered requests, server grabs, clients that sleep until a *)
(* font server answers (dix/dixutils.c) or until a time (Xext/sleepuntil.c), *)
(* connections that come, fail and go.                                       *)
(*                                                                           *)
(* The server is one thread, cut where a peer can act in between.  A request *)
(* is one of a number until it is executed; what it asks is chosen then.     *)
(* Left out: priorities, buffers shared by clients, the handshake of a new   *)
(* connection, and the reset of the server: a client with no part in this    *)
(* stays connected.  What a grab leaves in the Saved sets, which the code    *)
(* does not read again before it copies others over them, is emptied here.   *)
EXTENDS Integers, FiniteSets, FiniteSetsExt, Sequences

CONSTANTS MAXCLIENTS,   \* clients are 1 .. MAXCLIENTS
          XFD_SETSIZE,  \* connection numbers (file descriptors) are 1 .. XFD_SETSIZE
          Capacity,     \* bound: requests that one read gets
          Modes         \* the close-down modes that clients choose from

ASSUME DispatchAssumption ==
  MAXCLIENTS \in Nat \ {0} /\ XFD_SETSIZE \in Nat \ {0} /\ Capacity \in Nat \ {0}
  /\ Modes \subseteq {"DestroyAll", "RetainPermanent", "RetainTemporary"}

VARIABLES server,       \* the server's data, see Init and TypeOK
          loop,         \* where it is in its main loop, the clients to serve next
          socket        \* per connection: is there something to read, has the peer gone

vars == <<server, loop, socket>>

Clients == 1 .. MAXCLIENTS
Fds == 1 .. XFD_SETSIZE

(* A client waits for a font server it has asked, for the work procedure     *)
(* that was queued when that one answered, or for a time.  Its next request  *)
(* may be the repetition of the last one.  Its connection is not open any    *)
(* more once a write has failed.                                             *)
NullClient == [state |-> "none", fd |-> 0, open |-> FALSE, mode |-> "DestroyAll",
               waits |-> "no", repeats |-> "no"]
NoSocket == [requests |-> FALSE, eof |-> FALSE]

Running(s, c) == s.client[c].state = "running"
Gone(s, c) == s.client[c].state = "gone"
ClientIsAsleep(s, c) == s.client[c].waits \in {"asked", "told"}
Ignored(s, c) == s.client[c].waits # "no" \/ c \in s.grabWaiters
Fd(s, c) == s.client[c].fd

(* A server grab keeps a client's requests from being served.                *)
Barred(s, c) == s.GrabInProgress \notin {0, c} /\ Fd(s, c) \notin s.GrabImperviousClients
OpenFds(s) == {Fd(s, c) : c \in {d \in Clients : s.client[d].open}}
ConnectionTranslation(s, fd) == CHOOSE c \in Clients : Fd(s, c) = fd
Toggle(set, fd, present) == IF present THEN set \cup {fd} ELSE set \ {fd}

(* From some states the code goes on with freed memory, or with sets that    *)
(* have lost track of a client: the model stops there.                       *)
Wrong(s, what) == IF s.fate = "sound" THEN [s EXCEPT !.fate = what] ELSE s
Sound == server.fate = "sound"
-----------------------------------------------------------------------------
(* The sets of connections.                                                  *)

MutantIgnore(s, c) ==
  LET fd == Fd(s, c)
  IN  IF s.GrabInProgress = 0 \/ fd \in s.AllClients
      THEN [s EXCEPT !.ClientsWithInput = @ \ {fd}, !.AllClients = @ \ {fd}]
      ELSE [s EXCEPT !.SavedClientsWithInput = @ \ {fd}, !.SavedAllClients = @ \ {fd}]
IgnoreClient(s, c) ==
  LET fd == Fd(s, c)
  IN  IF s.GrabInProgress = 0 \/ fd \in s.AllClients
      THEN [s EXCEPT !.IgnoredClientsWithInput = Toggle(@, fd, fd \in s.ClientsWithInput),
                     !.ClientsWithInput = @ \ {fd}, !.AllClients = @ \ {fd}]
      ELSE [s EXCEPT !.IgnoredClientsWithInput = Toggle(@, fd, fd \in s.SavedClientsWithInput),
                     !.SavedClientsWithInput = @ \ {fd}, !.SavedAllClients = @ \ {fd}]

MutantAttend(s, C) ==
  LET fds == {Fd(s, c) : c \in C}
  IN  [s EXCEPT !.AllClients = @ \cup fds,
                !.ClientsWithInput = @ \cup (s.IgnoredClientsWithInput \cap fds)]
AttendClients(s, C) ==
  LET input == s.IgnoredClientsWithInput
      fds == {Fd(s, c) : c \in C}
      barred == {Fd(s, c) : c \in {d \in C : Barred(s, d)}}
      heard == fds \ barred
  IN  [s EXCEPT !.AllClients = @ \cup heard, !.ClientsWithInput = @ \cup (input \cap heard),
                !.SavedAllClients = @ \cup barred,
                !.SavedClientsWithInput = @ \cup (input \cap barred)]
AttendClient(s, c) == AttendClients(s, {c})

OnlyListenToOneClient(s, c) ==
  LET heard == s.GrabImperviousClients \cup {Fd(s, c)}
  IN  IF s.GrabInProgress # 0 THEN s
      ELSE [s EXCEPT !.SavedClientsWithInput = s.ClientsWithInput \ heard,
                     !.ClientsWithInput = @ \cap heard,
                     !.SavedAllClients = s.AllClients,
                     !.AllClients = (@ \cap heard) \cup {Fd(s, c)},
                     !.GrabInProgress = c]

ListenToAllClients(s) ==
  IF s.GrabInProgress = 0 THEN s
  ELSE [s EXCEPT !.AllClients = @ \cup s.SavedAllClients,
                 !.ClientsWithInput = @ \cup s.SavedClientsWithInput,
                 !.SavedAllClients = {}, !.SavedClientsWithInput = {},
                 !.GrabInProgress = 0]

(* One of the clients that wait for the server is attended and tries again.  *)
(* Clients that were ignored since the grab began are listened to, too.      *)
UngrabServer(s) ==
  LET t == ListenToAllClients([s EXCEPT !.grabState = "GrabNone", !.grabClient = 0])
      u == IF s.grabWaiters = {} THEN t
           ELSE AttendClient([t EXCEPT !.grabWaiters = @ \ {Min(s.grabWaiters)}],
                             Min(s.grabWaiters))
      disturbed == {c \in Clients : Ignored(u, c) /\ Fd(u, c) \in u.AllClients}
  IN  IF disturbed = {} THEN u ELSE Wrong(u, "IgnoredClientHeard")

MutantClose(s, fd) ==
  [s EXCEPT !.AllClients = @ \ {fd}, !.ClientsWithInput = @ \ {fd},
            !.SavedAllClients = @ \ {fd}, !.SavedClientsWithInput = @ \ {fd}]
CloseDownFileDescriptor(s, fd) ==
  LET saved == IF s.GrabInProgress # 0 THEN {fd} ELSE {}
  IN  [s EXCEPT !.AllClients = @ \ {fd}, !.ClientsWithInput = @ \ {fd},
                !.GrabImperviousClients = @ \ {fd},
                !.SavedAllClients = @ \ saved, !.SavedClientsWithInput = @ \ saved]
-----------------------------------------------------------------------------
(* Clients that sleep, and clients that go.                                  *)

QueueWorkProc(s, w) == [s EXCEPT !.workQueue = Append(@, w)]
ClientSignal(s, c) == QueueWorkProc(s, c)

CloseDownConnection(s, c) ==
  CloseDownFileDescriptor([s EXCEPT !.client[c] = [@ EXCEPT !.open = FALSE, !.fd = 0,
                                                            !.repeats = "no"],
                                    !.buffered[c] = 0],
                          Fd(s, c))

(* The part of CloseDownClient that is done once.  The font servers forget   *)
(* what a client has asked.                                                  *)
Disconnected(s, c) ==
  LET t == IF s.grabState # "GrabNone" /\ s.grabClient = c THEN UngrabServer(s) ELSE s
      gone == [t.client[c] EXCEPT !.state = "gone",
                                  !.waits = IF @ = "asked" THEN "told" ELSE @]
  IN  CloseDownConnection([t EXCEPT !.grabWaiters = @ \ {c}, !.client[c] = gone], c)

CloseDownClient(s, c) ==
  LET t == IF Gone(s, c) THEN s ELSE Disconnected(s, c)
  IN  IF ~Gone(s, c) /\ s.client[c].mode # "DestroyAll" THEN t
      ELSE IF ClientIsAsleep(s, c) THEN ClientSignal(t, c)
      ELSE [t EXCEPT !.client[c] = NullClient]

ClientWakeup(s, c) ==
  LET t == [s EXCEPT !.client[c].waits = "no"]
  IN  IF Gone(s, c) THEN CloseDownClient(t, c) ELSE AttendClient(t, c)

(* SertafiedDelete, for each client in C: the time has come.                 *)
ClientAwaken(s, C) ==
  AttendClients([s EXCEPT !.client = [c \in Clients |->
                                        IF c \in C THEN [s.client[c] EXCEPT !.waits = "no"]
                                        ELSE s.client[c]]],
                {c \in C : ~Gone(s, c)})

(* FlushClient: the connection is closed if the write fails.                 *)
Fail(s, failing) ==
  [s EXCEPT !.client = [c \in Clients |-> IF c \in failing THEN [s.client[c] EXCEPT !.open = FALSE]
                                           ELSE s.client[c]]]
CanFail(s) == {c \in Clients : s.client[c].open /\ socket[Fd(s, c)].eof}

(* The kernel drops what had come on connections that the server has closed. *)
BecomesWith(s, sockets) ==
  /\ server' = s
  /\ socket' = [fd \in Fds |-> IF fd \in OpenFds(s) THEN sockets[fd] ELSE NoSocket]
Becomes(s) == BecomesWith(s, socket)

(* All output is flushed but that of clients with requests in their buffers. *)
FlushAllOutput(s, sockets) ==
  LET flushed == {c \in CanFail(s) : Fd(s, c) \notin s.ClientsWithInput}
  IN  \E failing \in SUBSET flushed : BecomesWith(Fail(s, failing), sockets)
-----------------------------------------------------------------------------
(* WaitForSomething.                                                         *)

Waiting == loop.at = "wait" /\ Sound

(* Accept gives a number that no open connection has.                        *)
FdSet(s, fd) == IF s.GrabInProgress # 0 THEN [s EXCEPT !.SavedAllClients = @ \cup {fd}]
                ELSE [s EXCEPT !.AllClients = @ \cup {fd}]
Newcomer(s, fd) ==
  LET free == {c \in Clients : s.client[c].state = "none"}
      t == FdSet(s, fd)
  IN  IF free = {} THEN CloseDownFileDescriptor(t, fd)
      ELSE [t EXCEPT !.client[Min(free)] = [NullClient EXCEPT !.state = "running",
                                                              !.fd = fd, !.open = TRUE],
                     !.ClientsWithInput = @ \ {fd}]

EstablishNewConnections(s) ==
  \/ \E fd \in Fds \ OpenFds(s) :
       LET taken == \E c \in Clients : Fd(s, c) = fd
       IN  Becomes(IF taken THEN Wrong(s, "ConnectionNumberInUse") ELSE Newcomer(s, fd))
  \/ Fds \subseteq OpenFds(s) /\ Becomes(s)

(* doOpenFont, resumed: it is suspended again, or ends.                      *)
doOpenFont(s, c) ==
  \/ ~ClientIsAsleep(s, c) /\ Becomes(Wrong(s, "WorkForFreedClient"))
  \/ ClientIsAsleep(s, c) /\ Becomes(ClientWakeup(s, c))
  \/ ClientIsAsleep(s, c) /\ Running(s, c) /\ Becomes([s EXCEPT !.client[c].waits = "asked"])

(* In the queue, 0 stands for EstablishNewConnections.                       *)
ProcessWorkQueue ==
  /\ Waiting /\ server.workQueue # <<>>
  /\ LET w == Head(server.workQueue)
         s == [server EXCEPT !.workQueue = Tail(@)]
     IN  IF w = 0 THEN EstablishNewConnections(s) ELSE doOpenFont(s, w)
  /\ UNCHANGED loop

(* The connections that have something to read, with their clients: the one  *)
(* with the highest number is served first.                                  *)
Connections(fds) == {<<fd, ConnectionTranslation(server, fd)>> : fd \in fds}
Serve(ready) ==
  loop' = [at |-> IF ready = {} THEN "wait" ELSE "pick", ready |-> ready, client |-> 0]
MutantServe(fds) == Serve({r \in Connections(fds) : r[1] = Max(fds)})
ServeConnections(fds) == Serve(Connections(fds))

(* Clients with requests in their buffers come before any select.            *)
UseBuffered ==
  /\ Waiting /\ server.workQueue = <<>> /\ server.ClientsWithInput # {}
  /\ ServeConnections(server.ClientsWithInput)
  /\ UNCHANGED <<server, socket>>

Selects == Waiting /\ server.workQueue = <<>> /\ server.ClientsWithInput = {}
Dead == server.AllClients \ OpenFds(server)

(* What work procedures and handlers have written.                           *)
FlushBeforeSelect ==
  /\ Selects /\ CanFail(server) # {} /\ FlushAllOutput(server, socket)
  /\ UNCHANGED loop

(* Select fails when one of the connections is closed: each is tried, the    *)
(* lowest number first.                                                      *)
SelectFails ==
  /\ Selects /\ Dead # {}
  /\ loop' = [at |-> "check", ready |-> Connections(Dead), client |-> 0]
  /\ UNCHANGED <<server, socket>>
CheckConnections ==
  /\ loop.at = "check" /\ Sound
  /\ \E r \in loop.ready :
       LET rest == loop.ready \ {r}
       IN  /\ \A q \in rest : r[1] <= q[1]
           /\ Becomes(CloseDownClient(server, r[2]))
           /\ loop' = [at |-> IF rest = {} THEN "wait" ELSE "check", ready |-> rest, client |-> 0]

(* Before and after it waits, the block and wakeup handlers attend clients   *)
(* whose time has come and signal one that a font server has answered.       *)
Readable == {fd \in server.AllClients : socket[fd] # NoSocket}
Sleeping(how) == {c \in Clients : server.client[c].waits = how}
SelectFinds(new) ==
  /\ Selects /\ Dead = {}
  /\ \E expired \in SUBSET Sleeping("time"),
        answered \in {{}} \cup {{c} : c \in Sleeping("asked")} :
       LET s == ClientAwaken(server, expired)
           t == IF answered = {} THEN s
                ELSE ClientSignal([s EXCEPT !.client[Min(answered)].waits = "told"],
                                  Min(answered))
       IN  /\ new \/ Readable \cup expired \cup answered # {}
           /\ server' = IF new THEN QueueWorkProc(t, 0) ELSE t
           /\ ServeConnections(Readable \cup ({Fd(s, c) : c \in expired} \cap s.AllClients))
  /\ UNCHANGED socket
Select == SelectFinds(FALSE)
SelectFindsConnection == SelectFinds(TRUE)
-----------------------------------------------------------------------------
(* Dispatch, for the clients that are ready.                                 *)

MutantPick ==
  /\ loop.at = "pick" /\ Sound
  /\ \E r \in loop.ready :
       loop' = [at |-> "serve", ready |-> loop.ready \ {r}, client |-> r[2]]
  /\ UNCHANGED <<server, socket>>
Pick ==
  /\ loop.at = "pick" /\ Sound
  /\ \E r \in loop.ready :
       LET c == r[2]
           rest == loop.ready \ {r}
           killed == server.client[c].state = "none"
           kickout == ~killed /\ server.grabState = "GrabKickout"
       IN  /\ \A q \in rest : q[1] <= r[1]
           /\ \/ killed /\ Serve(rest) /\ UNCHANGED server
              \/ kickout /\ Serve({}) /\ server' = [server EXCEPT !.grabState = "GrabActive"]
              \/ /\ ~killed /\ ~kickout /\ Gone(server, c)
                 /\ server' = Wrong(server, "ClientWithoutConnection") /\ UNCHANGED loop
              \/ /\ ~killed /\ ~kickout /\ Running(server, c)
                 /\ loop' = [at |-> "serve", ready |-> rest, client |-> c]
                 /\ UNCHANGED server
  /\ UNCHANGED socket

me == loop.client
fdOfMe == Fd(server, me)
Serving == loop.at = "serve" /\ Sound

(* A client's turn has done s.                                               *)
EndsWith(s, sockets) == FlushAllOutput(s, sockets) /\ Serve(loop.ready)
Ends(s) == EndsWith(s, socket)

(* ReadRequestFromClient: with a request in the buffer nothing is read.      *)
Reads == Serving /\ server.buffered[me] = 0
ReadFails ==
  /\ Reads
  /\ ~server.client[me].open \/ socket[fdOfMe] = [requests |-> FALSE, eof |-> TRUE]
  /\ Ends(CloseDownClient(server, me))

SocketRead == [socket EXCEPT ![fdOfMe].requests = FALSE]
ReadPartOfRequest ==
  /\ Reads /\ server.client[me].open /\ socket[fdOfMe].requests
  /\ EndsWith([server EXCEPT !.ClientsWithInput = @ \ {fdOfMe}], SocketRead)

ReadSome ==
  /\ Reads /\ server.client[me].open /\ socket[fdOfMe].requests
  /\ \E n \in 1 .. Capacity : server' = [server EXCEPT !.buffered[me] = n,
                                                        !.ClientsWithInput = @ \cup {fdOfMe}]
  /\ socket' = SocketRead
  /\ UNCHANGED loop

Request == Serving /\ server.buffered[me] > 0
Repeats(request) == Request /\ server.client[me].repeats = request
Fresh == Repeats("no")

MutantTaken == [server EXCEPT !.client[me].repeats = "no"]
Taken == [server EXCEPT !.buffered[me] = @ - 1,
                        !.ClientsWithInput = Toggle(@, fdOfMe, server.buffered[me] > 1),
                        !.client[me].repeats = "no"]

(* A request has done s.  A client whose connection has failed is closed;    *)
(* otherwise it may go on to its next request, unless it has to yield.       *)
Done(s, yields) ==
  LET failed == Running(s, me) /\ ~s.client[me].open
  IN  \/ failed /\ Ends(CloseDownClient(s, me))
      \/ ~failed /\ Ends(s)
      \/ ~failed /\ ~yields /\ s.buffered[me] > 0 /\ Becomes(s) /\ UNCHANGED loop

(* Whatever it writes, to any client, may fail at once.                      *)
OtherRequest ==
  /\ Fresh \/ Repeats("FakeInput")
  /\ \E failing \in SUBSET CanFail(server) : Done(Fail(Taken, failing), FALSE)

ResetCurrentRequest(s, c, request) ==
  LET fd == Fd(s, c)
      t == [s EXCEPT !.buffered[c] = @ + 1, !.client[c].repeats = request]
  IN  IF fd \in s.AllClients THEN [t EXCEPT !.ClientsWithInput = @ \cup {fd}]
      ELSE [t EXCEPT !.IgnoredClientsWithInput = @ \cup {fd}]
-----------------------------------------------------------------------------
(* The requests.                                                             *)

ProcGrabServer ==
  /\ Fresh \/ Repeats("GrabServer")
  /\ IF server.grabState # "GrabNone" /\ server.grabClient # me
     THEN LET s == ResetCurrentRequest(Taken, me, "GrabServer")
          IN  Done(IgnoreClient([s EXCEPT !.grabWaiters = @ \cup {me}], me), TRUE)
     ELSE Done([OnlyListenToOneClient(Taken, me) EXCEPT !.grabState = "GrabKickout",
                                                        !.grabClient = me], FALSE)

ProcUngrabServer == Fresh /\ Done(UngrabServer(Taken), FALSE)

ProcOpenFont ==
  /\ Fresh
  /\ Done([IgnoreClient(Taken, me) EXCEPT !.client[me].waits = "asked"], TRUE)

(* The event is sent later: the request is executed again, without the delay. *)
ProcXTestFakeInput ==
  /\ Fresh
  /\ LET s == [IgnoreClient(Taken, me) EXCEPT !.client[me].waits = "time"]
     IN  Done(ResetCurrentRequest(s, me, "FakeInput"), TRUE)

MakeClientGrabImpervious(s) == [s EXCEPT !.GrabImperviousClients = @ \cup {fdOfMe}]
MakeClientGrabPervious(s) ==
  LET t == [s EXCEPT !.GrabImperviousClients = @ \ {fdOfMe}]
      u == [t EXCEPT !.SavedClientsWithInput = @ \cup (s.ClientsWithInput \cap {fdOfMe}),
                     !.ClientsWithInput = @ \ {fdOfMe}, !.AllClients = @ \ {fdOfMe}]
  IN  IF s.GrabInProgress \in {0, me} THEN t
      ELSE IF fdOfMe \in s.SavedAllClients THEN u
      ELSE Wrong(u, "ClientNotSaved")
ProcXTestGrabControl ==
  /\ Fresh
  /\ \/ Done(MakeClientGrabImpervious(Taken), FALSE)
     \/ Done(MakeClientGrabPervious(Taken), server.GrabInProgress \notin {0, me})

ProcChangeCloseDownMode ==
  Fresh /\ \E mode \in Modes : Done([Taken EXCEPT !.client[me].mode = mode], FALSE)

ProcKillClient ==
  /\ Fresh
  /\ \E c \in Clients : /\ server.client[c].state # "none"
                        /\ Done(CloseDownClient(Taken, c), c = me)

(* CloseDownClient for each client that is gone: those that sleep are        *)
(* signalled, one after the other, the others are freed.                     *)
Orders(C) ==
  {order \in [1 .. Cardinality(C) -> C] :
     \A i, j \in 1 .. Cardinality(C) : i < j => order[i] < order[j]}
CloseDownRetainedResources ==
  LET retained == {c \in Clients : /\ Gone(server, c)
                                   /\ server.client[c].mode = "RetainTemporary"}
      asleep == {c \in retained : ClientIsAsleep(server, c)}
  IN  /\ Fresh /\ retained # {}
      /\ \E signals \in Orders(asleep) :
           Done([Taken EXCEPT !.workQueue = @ \o signals,
                              !.client = [c \in Clients |-> IF c \in retained \ asleep
                                                            THEN NullClient ELSE Taken.client[c]]],
                FALSE)

Server ==
  \/ ProcessWorkQueue \/ UseBuffered \/ SelectFails \/ CheckConnections \/ Select
  \/ Pick \/ ReadFails \/ ReadPartOfRequest \/ ReadSome
  \/ OtherRequest \/ ProcGrabServer \/ ProcUngrabServer \/ ProcOpenFont
  \/ ProcXTestFakeInput \/ ProcXTestGrabControl \/ ProcChangeCloseDownMode
  \/ ProcKillClient \/ CloseDownRetainedResources
-----------------------------------------------------------------------------
(* The peers.                                                                *)

Send(fd) ==
  /\ fd \in OpenFds(server) /\ socket[fd] = NoSocket
  /\ socket' = [socket EXCEPT ![fd].requests = TRUE]
  /\ UNCHANGED <<server, loop>>
PeerGone(fd) ==
  /\ fd \in OpenFds(server) /\ ~socket[fd].eof
  /\ socket' = [socket EXCEPT ![fd].eof = TRUE]
  /\ UNCHANGED <<server, loop>>

Init ==
  /\ server = [client |-> [c \in Clients |-> NullClient],
               buffered |-> [c \in Clients |-> 0],
               AllClients |-> {}, ClientsWithInput |-> {}, SavedAllClients |-> {},
               SavedClientsWithInput |-> {}, IgnoredClientsWithInput |-> {},
               GrabImperviousClients |-> {}, GrabInProgress |-> 0,
               grabState |-> "GrabNone", grabClient |-> 0, grabWaiters |-> {},
               workQueue |-> <<>>, fate |-> "sound"]
  /\ loop = [at |-> "wait", ready |-> {}, client |-> 0]
  /\ socket = [fd \in Fds |-> NoSocket]

Peers == Sound /\ (SelectFindsConnection \/ \E fd \in Fds : Send(fd) \/ PeerGone(fd))
Stopped == ~Sound /\ UNCHANGED vars
Next == Server \/ FlushBeforeSelect \/ Peers \/ Stopped

Spec == Init /\ [][Next]_vars

(* The server goes on while it can: weak fairness of Server, whose steps are *)
(* those that change server or loop, written out, which is quicker to check. *)
CanStep ==
  Sound /\ \/ loop.at # "wait" \/ server.workQueue # <<>> \/ server.ClientsWithInput # {}
           \/ Dead \cup Readable \cup Sleeping("asked") \cup Sleeping("time") # {}
FairSpec == Spec /\ ([]<>~CanStep \/ []<><<TRUE>>_<<server, loop>>)
-----------------------------------------------------------------------------
(* The data have their types; only clients are served.                       *)
TypeOK ==
  /\ server.client \in [Clients -> [state : {"none", "running", "gone"}, fd : Fds \cup {0},
                                    open : BOOLEAN, mode : Modes \cup {"DestroyAll"},
                                    waits : {"no", "asked", "told", "time"},
                                    repeats : {"no", "GrabServer", "FakeInput"}]]
  /\ server.buffered \in [Clients -> 0 .. Capacity]
  /\ loop.ready \subseteq Fds \X Clients /\ loop.client \in Clients \cup {0}
  /\ server.workQueue \in Seq(Clients \cup {0})

(* Through sleeping and waking, server grabs that begin and end meanwhile,   *)
(* and clients that become impervious to them, the server listens to exactly *)
(* the clients that may be served, and a grab that ends brings back exactly  *)
(* those that it barred and that do not sleep.                               *)
Listened ==
  Sound => \A c \in Clients : Running(server, c) =>
    LET fd == Fd(server, c)
    IN  /\ fd \in server.AllClients <=> ~Ignored(server, c) /\ ~Barred(server, c)
        /\ Barred(server, c) =>
             (fd \in server.SavedAllClients <=> ~Ignored(server, c))

(* A request left in a client's buffer is never forgotten, nor is an empty   *)
(* buffer taken for a full one: ClientsWithInput, or the set that takes its  *)
(* place while the client is barred or ignored, tells which are full.        *)
NoneForgotten ==
  Sound => \A c \in Clients : Running(server, c) =>
    LET told == IF Ignored(server, c) THEN server.IgnoredClientsWithInput
                ELSE IF Barred(server, c) THEN server.SavedClientsWithInput
                ELSE server.ClientsWithInput
    IN  Fd(server, c) \in told <=> server.buffered[c] > 0

(* The number of a closed connection is in none of the sets that are read    *)
(* before they are written for the next client that gets it, which starts    *)
(* neither ready, nor impervious to grabs, nor attended when a grab ends     *)
(* that began before it came.  IgnoredClientsWithInput keeps the number: the *)
(* next client's is written by IgnoreClient before AttendClient reads it     *)
(* (NoneForgotten).                                                          *)
NothingInherited ==
  LET owned == {Fd(server, c) : c \in {d \in Clients : Running(server, d)}}
  IN  Sound => /\ server.AllClients \cup server.ClientsWithInput \subseteq owned
               /\ server.GrabImperviousClients \subseteq owned
               /\ server.SavedAllClients \cup server.SavedClientsWithInput \subseteq owned

(* While a client has the server grabbed, requests of no other client are    *)
(* executed but of those impervious to grabs, though others were ready when  *)
(* the grab began (X11.protocol, GrabServer).                                *)
GrabExclusive == Serving => ~Barred(server, me)

(* Round robin: if grabs of the server come to an end, every client that has *)
(* sent a request is served, however busy the others keep the server, or     *)
(* goes.                                                                     *)
Waits(c) ==
  /\ Sound /\ Running(server, c) /\ server.client[c].open /\ ~Ignored(server, c)
  /\ server.buffered[c] > 0 \/ socket[Fd(server, c)].requests
Served ==
  <>[](server.grabState = "GrabNone") => \A c \in Clients : Waits(c) ~> ~Waits(c) \/ me = c
=============================================================================
