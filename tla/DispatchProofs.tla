---------------------------- MODULE DispatchProofs ----------------------------
(* Proofs about Dispatch, for every number of clients and connections.       *)
EXTENDS Dispatch, FiniteSetTheorems, WellFoundedInduction, TLAPS

-----------------------------------------------------------------------------
(* The invariant.                                                            *)

Numbers == Fds \cup {0}
ClientTypes == [state : {"none", "running", "gone"}, fd : Numbers, open : BOOLEAN,
                mode : Modes \cup {"DestroyAll"}, waits : {"no", "asked", "told", "time"},
                repeats : {"no", "GrabServer", "FakeInput"}]
ServerTypes ==
  [client : [Clients -> ClientTypes], buffered : [Clients -> 0 .. Capacity],
   AllClients : SUBSET Numbers, ClientsWithInput : SUBSET Numbers,
   SavedAllClients : SUBSET Numbers, SavedClientsWithInput : SUBSET Numbers,
   IgnoredClientsWithInput : SUBSET Numbers, GrabImperviousClients : SUBSET Numbers,
   GrabInProgress : Clients \cup {0},
   grabState : {"GrabNone", "GrabActive", "GrabKickout"}, grabClient : Clients \cup {0},
   grabWaiters : SUBSET Clients, workQueue : Seq(Clients \cup {0}),
   fate : {"sound", "IgnoredClientHeard", "ConnectionNumberInUse",
           "WorkForFreedClient", "ClientWithoutConnection", "ClientNotSaved"}]

(* A client is in the sets that its state, its sleep and the grab of the     *)
(* server call for.  While it is barred the Saved sets speak for it, and     *)
(* while it is ignored the Ignored set does; a set that does not speak for a *)
(* client may be stale, but never so that the client is heard by mistake.    *)
Placed(s, c) ==
  LET fd == Fd(s, c)
  IN  /\ fd \in s.AllClients <=> ~Ignored(s, c) /\ ~Barred(s, c)
      /\ Barred(s, c) => (fd \in s.SavedAllClients <=> ~Ignored(s, c))
      /\ fd \in s.ClientsWithInput <=> ~Ignored(s, c) /\ ~Barred(s, c) /\ s.buffered[c] > 0
      /\ fd \in s.SavedClientsWithInput <=> ~Ignored(s, c) /\ Barred(s, c) /\ s.buffered[c] > 0
      /\ Ignored(s, c) => (fd \in s.IgnoredClientsWithInput <=> s.buffered[c] > 0)

(* What holds of each client.                                                *)
ClientGood(s, c) ==
  /\ s.client[c].state = "none" => s.client[c] = NullClient
  /\ ~Running(s, c) => Fd(s, c) = 0 /\ ~s.client[c].open /\ s.buffered[c] = 0
  /\ Running(s, c) => Fd(s, c) \in Fds /\ Placed(s, c)
  /\ c \in s.grabWaiters => Running(s, c) /\ s.client[c].waits = "no"

Owns(s, c, fd) == Running(s, c) /\ Fd(s, c) = fd
Heard(s) == s.AllClients \cup s.ClientsWithInput \cup s.SavedAllClients
              \cup s.SavedClientsWithInput \cup s.GrabImperviousClients

GrabGood(s) ==
  /\ s.grabState = "GrabNone" <=> s.GrabInProgress = 0
  /\ s.GrabInProgress # 0 => s.grabClient = s.GrabInProgress /\ Running(s, s.GrabInProgress)
  /\ s.GrabInProgress = 0 => s.SavedAllClients = {} /\ s.SavedClientsWithInput = {}

Good(s) ==
  /\ \A c \in Clients : ClientGood(s, c)
  /\ \A c, d \in Clients : Running(s, c) /\ Running(s, d) /\ Fd(s, c) = Fd(s, d) => c = d
  /\ \A fd \in Heard(s) : \E c \in Clients : Owns(s, c, fd)
  /\ GrabGood(s)

(* A client in the list of those to serve may be served, unless it has gone  *)
(* or a grab has begun that kicks all of them out.                           *)
MayServe(s, c) ==
  Running(s, c) => ~Ignored(s, c) /\ (s.grabState = "GrabKickout" \/ ~Barred(s, c))

LoopTypes ==
  /\ loop.ready \subseteq Fds \X Clients /\ loop.client \in Clients \cup {0}
  /\ loop.at \in {"wait", "pick", "serve", "check"}
  /\ loop = [at |-> loop.at, ready |-> loop.ready, client |-> loop.client]

LoopGood ==
  /\ loop.at \in {"pick", "serve"} => \A r \in loop.ready : MayServe(server, r[2])
  /\ loop.at \in {"pick", "serve", "check"} => \A r, q \in loop.ready : r[2] = q[2] => r = q
  /\ loop.at = "check" => \A r \in loop.ready : Running(server, r[2])
  /\ loop.at = "serve" =>
       /\ me \in Clients /\ Running(server, me) /\ ~Ignored(server, me) /\ ~Barred(server, me)
       /\ \A r \in loop.ready : r[2] # me

DispatchInv ==
  /\ server \in ServerTypes /\ LoopTypes
  /\ Sound => Good(server) /\ LoopGood

-----------------------------------------------------------------------------
(* What the operators on the sets do to the server's data.                   *)

LEMMA FdType ==
  ASSUME NEW s \in ServerTypes, NEW c \in Clients
  PROVE  Fd(s, c) \in Numbers
BY DEF Fd, ServerTypes, ClientTypes

(* A connection number is in the same sets.                                  *)
SameAt(s, t, fd) ==
  /\ fd \in t.AllClients <=> fd \in s.AllClients
  /\ fd \in t.ClientsWithInput <=> fd \in s.ClientsWithInput
  /\ fd \in t.SavedAllClients <=> fd \in s.SavedAllClients
  /\ fd \in t.SavedClientsWithInput <=> fd \in s.SavedClientsWithInput
  /\ fd \in t.IgnoredClientsWithInput <=> fd \in s.IgnoredClientsWithInput
  /\ fd \in t.GrabImperviousClients <=> fd \in s.GrabImperviousClients

SameSets(s, t) ==
  /\ t.AllClients = s.AllClients /\ t.ClientsWithInput = s.ClientsWithInput
  /\ t.SavedAllClients = s.SavedAllClients
  /\ t.SavedClientsWithInput = s.SavedClientsWithInput
  /\ t.IgnoredClientsWithInput = s.IgnoredClientsWithInput
  /\ t.GrabImperviousClients = s.GrabImperviousClients

SameRest(s, t) ==
  t.buffered = s.buffered /\ t.grabWaiters = s.grabWaiters /\ t.workQueue = s.workQueue

SameClient(s, t, c) ==
  /\ t.client[c] = s.client[c] /\ t.buffered[c] = s.buffered[c]
  /\ c \in t.grabWaiters <=> c \in s.grabWaiters

SameGrab(s, t) ==
  /\ t.GrabInProgress = s.GrabInProgress /\ t.grabState = s.grabState
  /\ t.grabClient = s.grabClient

LEMMA SameGood ==
  ASSUME NEW s, NEW t, NEW c \in Clients,
         SameClient(s, t, c), t.GrabInProgress = s.GrabInProgress,
         Running(s, c) => SameAt(s, t, Fd(s, c))
  PROVE  ClientGood(t, c) <=> ClientGood(s, c)
BY DEF SameClient, SameAt, ClientGood, Running, Fd, Placed, Ignored, Barred

(* The data stay good if clients and connection numbers outside C and F stay *)
(* as they are and those inside are good themselves.                         *)
Outside(s, t, C, F) ==
  /\ \A d \in Clients \ C : SameClient(s, t, d) /\ Fd(s, d) \notin F
  /\ \A fd \in Numbers \ F : SameAt(s, t, fd)
  /\ \A c \in C : Running(s, c) => Fd(s, c) \in F
  /\ t.GrabInProgress = s.GrabInProgress

Inside(t, C, F) ==
  /\ \A c \in C : ClientGood(t, c) /\ (Running(t, c) => Fd(t, c) \in F)
  /\ \A c, d \in C : Running(t, c) /\ Running(t, d) /\ Fd(t, c) = Fd(t, d) => c = d
  /\ \A fd \in F : fd \in Heard(t) => \E c \in Clients : Owns(t, c, fd)

LEMMA Changed ==
  ASSUME NEW s \in ServerTypes, NEW t \in ServerTypes, Good(s), GrabGood(t),
         NEW C \in SUBSET Clients, NEW F \in SUBSET Fds, Outside(s, t, C, F), Inside(t, C, F)
  PROVE  Good(t)
<1> USE DEF Outside, Inside
<1>1. \A c \in Clients : ClientGood(t, c)
  <2> SUFFICES ASSUME NEW c \in Clients \ C PROVE ClientGood(t, c)
    OBVIOUS
  <2>1. Running(s, c) => SameAt(s, t, Fd(s, c))
    BY FdType
  <2> QED BY <2>1, SameGood DEF Good
<1>2. ASSUME NEW c \in Clients, NEW d \in Clients,
             Running(t, c), Running(t, d), Fd(t, c) = Fd(t, d)
      PROVE  c = d
  <2>1. \A e \in Clients \ C : Fd(t, e) = Fd(s, e) /\ (Running(t, e) <=> Running(s, e))
    BY DEF SameClient, Fd, Running
  <2> QED BY <1>2, <2>1 DEF Good
<1>3. ASSUME NEW fd \in Heard(t) PROVE \E c \in Clients : Owns(t, c, fd)
  <2>1. fd \in Numbers
    BY DEF Heard, ServerTypes
  <2>2. CASE fd \in F
    BY <2>2
  <2>3. CASE fd \notin F
    <3>1. fd \in Heard(s)
      BY <2>1, <2>3 DEF Heard, SameAt
    <3>2. PICK c \in Clients : Owns(s, c, fd)
      BY <3>1 DEF Good
    <3>3. c \notin C
      BY <3>2, <2>3 DEF Owns
    <3>4. Owns(t, c, fd)
      BY <3>2, <3>3 DEF Owns, SameClient, Running, Fd
    <3> QED BY <3>4
  <2> QED BY <2>2, <2>3
<1> QED BY <1>1, <1>2, <1>3 DEF Good

(* Nothing but what one client, connected, is in may have changed.           *)
Local(s, t, c) ==
  /\ SameGrab(s, t) /\ t.fate = s.fate
  /\ t.client[c].state = s.client[c].state /\ Fd(t, c) = Fd(s, c)
  /\ \A d \in Clients \ {c} : SameClient(s, t, d)
  /\ \A fd \in Numbers \ {Fd(s, c)} : SameAt(s, t, fd)

(* Whoever might be served before still may.                                 *)
Kept(s, t, C) == \A c \in C : MayServe(s, c) => MayServe(t, c)

LEMMA LocalTransitive ==
  ASSUME NEW s, NEW t, NEW u, NEW c \in Clients, Local(s, t, c), Local(t, u, c)
  PROVE  Local(s, u, c)
<1>1. SameGrab(s, u) /\ u.fate = s.fate /\ u.client[c].state = s.client[c].state
      /\ Fd(u, c) = Fd(s, c) /\ Fd(t, c) = Fd(s, c)
  BY DEF Local, SameGrab
<1>2. \A d \in Clients \ {c} : SameClient(s, u, d)
  BY DEF Local, SameClient
<1>3. \A fd \in Numbers \ {Fd(s, c)} : SameAt(s, u, fd)
  BY <1>1 DEF Local, SameAt
<1> QED BY <1>1, <1>2, <1>3 DEF Local

LEMMA LocalGood ==
  ASSUME NEW s \in ServerTypes, NEW t \in ServerTypes, NEW c \in Clients,
         Good(s), Running(s, c), Local(s, t, c), ClientGood(t, c),
         t.GrabInProgress = 0 => Fd(t, c) \notin t.SavedAllClients
  PROVE  Good(t) /\ Kept(s, t, Clients \ {c})
<1> DEFINE fd == Fd(s, c)
<1>1. fd \in Fds /\ Fd(t, c) = fd /\ Running(t, c)
  BY DEF Good, ClientGood, Local, Running
<1>2. \A d \in Clients \ {c} : SameClient(s, t, d) /\ Fd(s, d) # fd
  <2>1. \A d \in Clients \ {c} : ~Running(s, d) => Fd(s, d) = 0
    BY DEF Good, ClientGood
  <2>2. 0 \notin Fds
    BY DEF Fds
  <2> QED BY <1>1, <2>1, <2>2 DEF Good, Local
<1>3. GrabGood(t)
  <2>1. SameGrab(s, t) /\ GrabGood(s)
    BY DEF Good, Local
  <2>2. \A d \in Clients : Running(t, d) <=> Running(s, d)
    BY <1>1 DEF Local, SameClient, Running
  <2>3. t.GrabInProgress = 0 => t.SavedAllClients = {} /\ t.SavedClientsWithInput = {}
    <3>1. \A n \in Numbers \ {fd} : SameAt(s, t, n)
      BY DEF Local
    <3>2. t.GrabInProgress = 0 => fd \notin t.SavedClientsWithInput
      BY <1>1 DEF ClientGood, Placed, Barred
    <3>3. t.SavedAllClients \subseteq Numbers /\ t.SavedClientsWithInput \subseteq Numbers
      BY DEF ServerTypes
    <3> QED BY <1>1, <2>1, <3>1, <3>2, <3>3 DEF SameAt, GrabGood, SameGrab
  <2>4. t.GrabInProgress \in Clients \cup {0}
    BY DEF ServerTypes
  <2> QED BY <2>1, <2>2, <2>3, <2>4 DEF GrabGood, SameGrab
<1>4. Good(t)
  <2>1. \A n \in Numbers \ {fd} : SameAt(s, t, n)
    BY DEF Local
  <2>2. t.GrabInProgress = s.GrabInProgress
    BY DEF Local, SameGrab
  <2>3. \A n \in {fd} : \E d \in Clients : Owns(t, d, n)
    BY <1>1 DEF Owns
  <2>4. Outside(s, t, {c}, {fd})
    BY <1>1, <1>2, <2>1, <2>2 DEF Outside
  <2>5. Inside(t, {c}, {fd})
    BY <1>1, <2>3 DEF Inside
  <2>6. {c} \in SUBSET Clients /\ {fd} \in SUBSET Fds
    BY <1>1
  <2> QED BY <1>3, <2>4, <2>5, <2>6, Changed
<1>5. ASSUME NEW d \in Clients \ {c}, MayServe(s, d) PROVE MayServe(t, d)
  <2>1. Fd(s, d) \in Numbers \ {fd}
    BY <1>2, FdType
  <2>2. SameAt(s, t, Fd(s, d)) /\ SameClient(s, t, d) /\ SameGrab(s, t)
    BY <2>1 DEF Local
  <2> QED BY <1>5, <2>2 DEF SameAt, SameClient, SameGrab, MayServe, Running, Ignored, Barred, Fd
<1> QED BY <1>4, <1>5 DEF Kept

LEMMA IgnoreClientDoes ==
  ASSUME NEW s \in ServerTypes, NEW c \in Clients
  PROVE  LET t == IgnoreClient(s, c)
             fd == Fd(s, c)
             saved == s.GrabInProgress # 0 /\ fd \notin s.AllClients
         IN  /\ t \in ServerTypes /\ Local(s, t, c) /\ SameClient(s, t, c)
             /\ fd \in t.GrabImperviousClients <=> fd \in s.GrabImperviousClients
             /\ ~saved => /\ fd \notin t.AllClients /\ fd \notin t.ClientsWithInput
                          /\ fd \in t.IgnoredClientsWithInput <=> fd \in s.ClientsWithInput
                          /\ fd \in t.SavedAllClients <=> fd \in s.SavedAllClients
                          /\ fd \in t.SavedClientsWithInput <=> fd \in s.SavedClientsWithInput
             /\ saved => /\ fd \notin t.SavedAllClients /\ fd \notin t.SavedClientsWithInput
                         /\ fd \in t.IgnoredClientsWithInput <=> fd \in s.SavedClientsWithInput
                         /\ fd \in t.AllClients <=> fd \in s.AllClients
                         /\ fd \in t.ClientsWithInput <=> fd \in s.ClientsWithInput
<1> DEFINE t == IgnoreClient(s, c)
           fd == Fd(s, c)
           saved == s.GrabInProgress # 0 /\ fd \notin s.AllClients
<1>1. t \in ServerTypes
  BY FdType DEF IgnoreClient, ServerTypes, Toggle
<1>2. /\ t.client = s.client /\ t.buffered = s.buffered /\ t.grabWaiters = s.grabWaiters
      /\ t.GrabInProgress = s.GrabInProgress /\ t.grabState = s.grabState
      /\ t.grabClient = s.grabClient /\ t.fate = s.fate
      /\ t.GrabImperviousClients = s.GrabImperviousClients
  BY FdType DEF IgnoreClient, ServerTypes, Toggle
<1>3. ~saved => /\ t.AllClients = s.AllClients \ {fd}
                /\ t.ClientsWithInput = s.ClientsWithInput \ {fd}
                /\ t.IgnoredClientsWithInput
                     = Toggle(s.IgnoredClientsWithInput, fd, fd \in s.ClientsWithInput)
                /\ t.SavedAllClients = s.SavedAllClients
                /\ t.SavedClientsWithInput = s.SavedClientsWithInput
  BY FdType DEF IgnoreClient, ServerTypes, Toggle
<1>4. saved => /\ t.SavedAllClients = s.SavedAllClients \ {fd}
               /\ t.SavedClientsWithInput = s.SavedClientsWithInput \ {fd}
               /\ t.IgnoredClientsWithInput
                    = Toggle(s.IgnoredClientsWithInput, fd, fd \in s.SavedClientsWithInput)
               /\ t.AllClients = s.AllClients
               /\ t.ClientsWithInput = s.ClientsWithInput
  BY FdType DEF IgnoreClient, ServerTypes, Toggle
<1> HIDE DEF t
<1>5. \A n \in Numbers \ {fd} : SameAt(s, t, n)
  BY <1>2, <1>3, <1>4 DEF SameAt, Toggle
<1>6. Local(s, t, c) /\ SameClient(s, t, c)
  BY <1>2, <1>5 DEF Local, SameGrab, SameClient, Fd
<1> QED BY <1>1, <1>2, <1>3, <1>4, <1>6 DEF t, Toggle

LEMMA AttendClientsDoes ==
  ASSUME NEW s \in ServerTypes, NEW C \in SUBSET Clients
  PROVE  LET t == AttendClients(s, C)
             fds == {Fd(s, c) : c \in C}
             barred == {Fd(s, c) : c \in {d \in C : Barred(s, d)}}
             heard == fds \ barred
         IN  /\ t \in ServerTypes
             /\ t.client = s.client /\ t.buffered = s.buffered /\ t.grabWaiters = s.grabWaiters
             /\ SameGrab(s, t) /\ t.fate = s.fate
             /\ t.GrabImperviousClients = s.GrabImperviousClients
             /\ t.workQueue = s.workQueue
             /\ t.AllClients = s.AllClients \cup heard
             /\ t.ClientsWithInput
                  = s.ClientsWithInput \cup (s.IgnoredClientsWithInput \cap heard)
             /\ t.SavedAllClients = s.SavedAllClients \cup barred
             /\ t.SavedClientsWithInput
                  = s.SavedClientsWithInput \cup (s.IgnoredClientsWithInput \cap barred)
             /\ t.IgnoredClientsWithInput = s.IgnoredClientsWithInput
<1> DEFINE fds == {Fd(s, c) : c \in C}
           barred == {Fd(s, c) : c \in {d \in C : Barred(s, d)}}
           heard == fds \ barred
<1>1. fds \in SUBSET Numbers /\ barred \in SUBSET Numbers
  BY FdType
<1> DEFINE t == [s EXCEPT !.AllClients = @ \cup heard,
                !.ClientsWithInput = @ \cup (s.IgnoredClientsWithInput \cap heard),
                !.SavedAllClients = @ \cup barred,
                !.SavedClientsWithInput = @ \cup (s.IgnoredClientsWithInput \cap barred)]
<1>2. AttendClients(s, C) = t
  BY DEF AttendClients
<1> HIDE DEF fds, barred
<1>3. t \in ServerTypes
  BY <1>1 DEF ServerTypes
<1>4. /\ t.client = s.client /\ t.buffered = s.buffered /\ t.grabWaiters = s.grabWaiters
      /\ t.GrabInProgress = s.GrabInProgress /\ t.grabState = s.grabState
      /\ t.grabClient = s.grabClient /\ t.fate = s.fate
      /\ t.GrabImperviousClients = s.GrabImperviousClients /\ t.workQueue = s.workQueue
  BY DEF ServerTypes
<1>5. /\ t.AllClients = s.AllClients \cup heard
      /\ t.ClientsWithInput = s.ClientsWithInput \cup (s.IgnoredClientsWithInput \cap heard)
      /\ t.SavedAllClients = s.SavedAllClients \cup barred
      /\ t.SavedClientsWithInput
           = s.SavedClientsWithInput \cup (s.IgnoredClientsWithInput \cap barred)
      /\ t.IgnoredClientsWithInput = s.IgnoredClientsWithInput
  BY DEF ServerTypes
<1> HIDE DEF t
<1> QED BY <1>2, <1>3, <1>4, <1>5 DEF fds, barred, SameGrab

LEMMA AttendClientDoes ==
  ASSUME NEW s \in ServerTypes, NEW c \in Clients
  PROVE  LET t == AttendClient(s, c)
             fd == Fd(s, c)
         IN  /\ t \in ServerTypes /\ Local(s, t, c) /\ SameClient(s, t, c)
             /\ fd \in t.GrabImperviousClients <=> fd \in s.GrabImperviousClients
             /\ t.workQueue = s.workQueue
             /\ ~Barred(s, c) =>
                  /\ fd \in t.AllClients
                  /\ fd \in t.ClientsWithInput <=>
                       fd \in s.ClientsWithInput \cup s.IgnoredClientsWithInput
                  /\ fd \in t.SavedAllClients <=> fd \in s.SavedAllClients
                  /\ fd \in t.SavedClientsWithInput <=> fd \in s.SavedClientsWithInput
             /\ Barred(s, c) =>
                  /\ fd \in t.AllClients <=> fd \in s.AllClients
                  /\ fd \in t.ClientsWithInput <=> fd \in s.ClientsWithInput
                  /\ fd \in t.SavedAllClients
                  /\ fd \in t.SavedClientsWithInput <=>
                       fd \in s.SavedClientsWithInput \cup s.IgnoredClientsWithInput
<1> DEFINE t == AttendClient(s, c)
           fds == {Fd(s, d) : d \in {c}}
           barred == {Fd(s, d) : d \in {e \in {c} : Barred(s, e)}}
           heard == fds \ barred
<1>1. fds = {Fd(s, c)} /\ (Barred(s, c) => barred = {Fd(s, c)} /\ heard = {})
      /\ (~Barred(s, c) => barred = {} /\ heard = {Fd(s, c)})
  OBVIOUS
<1>2. /\ t \in ServerTypes
      /\ t.client = s.client /\ t.buffered = s.buffered /\ t.grabWaiters = s.grabWaiters
      /\ SameGrab(s, t) /\ t.fate = s.fate /\ t.GrabImperviousClients = s.GrabImperviousClients
      /\ t.workQueue = s.workQueue
      /\ t.AllClients = s.AllClients \cup heard
      /\ t.ClientsWithInput = s.ClientsWithInput \cup (s.IgnoredClientsWithInput \cap heard)
      /\ t.SavedAllClients = s.SavedAllClients \cup barred
      /\ t.SavedClientsWithInput
           = s.SavedClientsWithInput \cup (s.IgnoredClientsWithInput \cap barred)
      /\ t.IgnoredClientsWithInput = s.IgnoredClientsWithInput
  <2>1. {c} \in SUBSET Clients
    OBVIOUS
  <2> HIDE DEF fds, barred
  <2> QED BY <2>1, AttendClientsDoes DEF AttendClient, fds, barred
<1> HIDE DEF t, fds, barred
<1>3. \A n \in Numbers \ {Fd(s, c)} : SameAt(s, t, n)
  BY <1>1, <1>2 DEF SameAt
<1>4. Local(s, t, c) /\ SameClient(s, t, c)
  BY <1>2, <1>3 DEF Local, SameClient, Fd
<1> QED BY <1>1, <1>2, <1>4 DEF t

LEMMA TakenDoes ==
  ASSUME server \in ServerTypes, me \in Clients, server.buffered[me] > 0
  PROVE  /\ Taken \in ServerTypes /\ Local(server, Taken, me)
         /\ Taken.client[me] = [server.client[me] EXCEPT !.repeats = "no"]
         /\ Taken.buffered[me] = server.buffered[me] - 1
         /\ me \in Taken.grabWaiters <=> me \in server.grabWaiters
         /\ Taken.workQueue = server.workQueue
         /\ fdOfMe \in Taken.GrabImperviousClients <=> fdOfMe \in server.GrabImperviousClients
         /\ fdOfMe \in Taken.AllClients <=> fdOfMe \in server.AllClients
         /\ fdOfMe \in Taken.ClientsWithInput <=> server.buffered[me] > 1
         /\ fdOfMe \in Taken.SavedAllClients <=> fdOfMe \in server.SavedAllClients
         /\ fdOfMe \in Taken.SavedClientsWithInput <=> fdOfMe \in server.SavedClientsWithInput
         /\ fdOfMe \in Taken.IgnoredClientsWithInput <=> fdOfMe \in server.IgnoredClientsWithInput
<1> DEFINE c == me
           fd == Fd(server, c)
           input == Toggle(server.ClientsWithInput, fd, server.buffered[c] > 1)
           t == [server EXCEPT !.buffered[c] = @ - 1, !.ClientsWithInput = input,
                               !.client[c].repeats = "no"]
<1>1. t = Taken
  BY DEF Taken, fdOfMe, ServerTypes
<1>2. fd \in Numbers /\ c \in Clients /\ server.buffered[c] > 0
  BY FdType
<1> HIDE DEF c
<1>3. input \in SUBSET Numbers /\ (fd \in input <=> server.buffered[c] > 1)
      /\ \A n \in Numbers \ {fd} : n \in input <=> n \in server.ClientsWithInput
  BY <1>2 DEF Toggle, ServerTypes
<1> HIDE DEF fd, input
<1>4. server.buffered[c] - 1 \in 0 .. Capacity
  BY <1>2, DispatchAssumption DEF ServerTypes
<1>5. t \in ServerTypes
  <2>1. server.client[c] \in ClientTypes
    BY <1>2 DEF ServerTypes
  <2>2. [server.client[c] EXCEPT !.repeats = "no"] \in ClientTypes
    BY <2>1 DEF ClientTypes
  <2> QED BY <1>2, <1>3, <1>4, <2>2 DEF ServerTypes
<1>6. /\ t.grabWaiters = server.grabWaiters /\ t.workQueue = server.workQueue
      /\ t.GrabInProgress = server.GrabInProgress /\ t.grabState = server.grabState
      /\ t.grabClient = server.grabClient /\ t.fate = server.fate
      /\ t.GrabImperviousClients = server.GrabImperviousClients
      /\ t.AllClients = server.AllClients /\ t.ClientsWithInput = input
      /\ t.SavedAllClients = server.SavedAllClients
      /\ t.SavedClientsWithInput = server.SavedClientsWithInput
      /\ t.IgnoredClientsWithInput = server.IgnoredClientsWithInput
  BY DEF ServerTypes
<1>7. /\ t.client[c] = [server.client[c] EXCEPT !.repeats = "no"]
      /\ t.buffered[c] = server.buffered[c] - 1
      /\ \A d \in Clients \ {c} : /\ t.client[d] = server.client[d]
                                  /\ t.buffered[d] = server.buffered[d]
  BY <1>2 DEF ServerTypes
<1>8. t.client[c].state = server.client[c].state /\ t.client[c].fd = server.client[c].fd
  BY <1>2, <1>7 DEF ServerTypes, ClientTypes
<1> HIDE DEF t
<1>9. Local(server, t, c)
  BY <1>3, <1>6, <1>7, <1>8 DEF Local, SameGrab, SameClient, SameAt, Fd, fd
<1> QED BY <1>1, <1>3, <1>5, <1>6, <1>7, <1>9 DEF c, fd, fdOfMe

LEMMA ResetCurrentRequestDoes ==
  ASSUME NEW s \in ServerTypes, NEW c \in Clients, s.buffered[c] < Capacity,
         NEW request \in {"no", "GrabServer", "FakeInput"}
  PROVE  LET t == ResetCurrentRequest(s, c, request)
             fd == Fd(s, c)
         IN  /\ t \in ServerTypes /\ Local(s, t, c)
             /\ t.client[c] = [s.client[c] EXCEPT !.repeats = request]
             /\ t.buffered[c] = s.buffered[c] + 1
             /\ c \in t.grabWaiters <=> c \in s.grabWaiters
             /\ fd \in t.GrabImperviousClients <=> fd \in s.GrabImperviousClients
             /\ fd \in t.AllClients <=> fd \in s.AllClients
             /\ fd \in t.SavedAllClients <=> fd \in s.SavedAllClients
             /\ fd \in t.SavedClientsWithInput <=> fd \in s.SavedClientsWithInput
             /\ fd \in s.AllClients =>
                  /\ fd \in t.ClientsWithInput
                  /\ fd \in t.IgnoredClientsWithInput <=> fd \in s.IgnoredClientsWithInput
             /\ fd \notin s.AllClients =>
                  /\ fd \in t.ClientsWithInput <=> fd \in s.ClientsWithInput
                  /\ fd \in t.IgnoredClientsWithInput
<1> DEFINE fd == Fd(s, c)
           u == [s EXCEPT !.buffered[c] = @ + 1, !.client[c].repeats = request]
           t == ResetCurrentRequest(s, c, request)
<1>1. fd \in Numbers
  BY FdType
<1>2. u \in ServerTypes
  <2>1. s.buffered[c] + 1 \in 0 .. Capacity
    BY DispatchAssumption DEF ServerTypes
  <2>2. s.client[c] \in ClientTypes
    BY DEF ServerTypes
  <2>3. [s.client[c] EXCEPT !.repeats = request] \in ClientTypes
    BY <2>2 DEF ClientTypes
  <2> QED BY <2>1, <2>3 DEF ServerTypes
<1>3. /\ u.client[c] = [s.client[c] EXCEPT !.repeats = request]
      /\ u.buffered[c] = s.buffered[c] + 1
      /\ \A d \in Clients \ {c} : u.client[d] = s.client[d] /\ u.buffered[d] = s.buffered[d]
      /\ u.client[c].state = s.client[c].state /\ u.client[c].fd = s.client[c].fd
  <2>1. s.client[c] \in ClientTypes
    BY DEF ServerTypes
  <2>2. /\ u.client[c] = [s.client[c] EXCEPT !.repeats = request]
        /\ u.buffered[c] = s.buffered[c] + 1
        /\ \A d \in Clients \ {c} : u.client[d] = s.client[d] /\ u.buffered[d] = s.buffered[d]
    BY DEF ServerTypes
  <2> QED BY <2>1, <2>2 DEF ClientTypes
<1>4. /\ u.grabWaiters = s.grabWaiters
      /\ u.GrabInProgress = s.GrabInProgress /\ u.grabState = s.grabState
      /\ u.grabClient = s.grabClient /\ u.fate = s.fate
      /\ u.GrabImperviousClients = s.GrabImperviousClients
      /\ u.AllClients = s.AllClients /\ u.ClientsWithInput = s.ClientsWithInput
      /\ u.SavedAllClients = s.SavedAllClients
      /\ u.SavedClientsWithInput = s.SavedClientsWithInput
      /\ u.IgnoredClientsWithInput = s.IgnoredClientsWithInput
  BY DEF ServerTypes
<1>5. t = IF fd \in s.AllClients THEN [u EXCEPT !.ClientsWithInput = @ \cup {fd}]
          ELSE [u EXCEPT !.IgnoredClientsWithInput = @ \cup {fd}]
  BY DEF ResetCurrentRequest
<1> HIDE DEF u, t
<1>6. t \in ServerTypes
  BY <1>1, <1>2, <1>5 DEF ServerTypes
<1>7. /\ t.client = u.client /\ t.buffered = u.buffered /\ t.grabWaiters = u.grabWaiters
      /\ t.GrabInProgress = u.GrabInProgress /\ t.grabState = u.grabState
      /\ t.grabClient = u.grabClient /\ t.fate = u.fate
      /\ t.GrabImperviousClients = u.GrabImperviousClients
      /\ t.AllClients = u.AllClients /\ t.SavedAllClients = u.SavedAllClients
      /\ t.SavedClientsWithInput = u.SavedClientsWithInput
      /\ fd \in s.AllClients => /\ t.ClientsWithInput = u.ClientsWithInput \cup {fd}
                                /\ t.IgnoredClientsWithInput = u.IgnoredClientsWithInput
      /\ fd \notin s.AllClients =>
           /\ t.ClientsWithInput = u.ClientsWithInput
           /\ t.IgnoredClientsWithInput = u.IgnoredClientsWithInput \cup {fd}
  BY <1>2, <1>5 DEF ServerTypes
<1>8. Local(s, t, c)
  BY <1>3, <1>4, <1>7 DEF Local, SameGrab, SameClient, SameAt, Fd, fd
<1> QED BY <1>3, <1>4, <1>6, <1>7, <1>8 DEF t, fd

-----------------------------------------------------------------------------
(* The requests that change only their own client's place in the sets.       *)

Turn ==
  /\ server \in ServerTypes /\ Good(server) /\ Sound
  /\ me \in Clients /\ Running(server, me)
  /\ ~Ignored(server, me) /\ ~Barred(server, me)

(* What a request may do to the server's data, and what lets the client go   *)
(* on to its next request.                                                   *)
Harmless(s) ==
  /\ s \in ServerTypes
  /\ s.fate = "sound" => Good(s) /\ Kept(server, s, Clients \ {me})
GoesOn(s) == s.fate = "sound" /\ Running(s, me) => ~Ignored(s, me) /\ ~Barred(s, me)

LEMMA TurnFacts ==
  ASSUME Turn
  PROVE  /\ fdOfMe \in Fds /\ fdOfMe \in server.AllClients
         /\ fdOfMe \in server.ClientsWithInput <=> server.buffered[me] > 0
         /\ fdOfMe \notin server.SavedClientsWithInput
         /\ server.GrabInProgress = 0 => fdOfMe \notin server.SavedAllClients
         /\ server.client[me].waits = "no" /\ me \notin server.grabWaiters
         /\ server.GrabInProgress \in {0, me} \/ fdOfMe \in server.GrabImperviousClients
         /\ server.buffered[me] \in 0 .. Capacity
         /\ server.client[me] \in ClientTypes
<1>1. ClientGood(server, me) /\ Placed(server, me) /\ GrabGood(server)
  BY DEF Turn, Good, ClientGood
<1>2. server.buffered[me] \in 0 .. Capacity /\ server.client[me] \in ClientTypes
  BY DEF Turn, ServerTypes
<1> QED BY <1>1, <1>2 DEF Turn, Placed, ClientGood, GrabGood, Ignored, Barred, fdOfMe, Fd

LEMMA TakenGood ==
  ASSUME Turn, server.buffered[me] > 0
  PROVE  /\ Harmless(Taken) /\ GoesOn(Taken) /\ Good(Taken) /\ Taken.fate = "sound"
         /\ Running(Taken, me) /\ ~Ignored(Taken, me) /\ ~Barred(Taken, me)
         /\ Fd(Taken, me) = fdOfMe /\ SameGrab(server, Taken)
<1>1. /\ server.buffered[me] \in Nat /\ server.client[me].waits = "no"
      /\ me \notin server.grabWaiters
  BY TurnFacts
<1>2. server.client[me] \in ClientTypes
  BY TurnFacts
<1>3. /\ Taken.client[me].waits = server.client[me].waits
      /\ Taken.client[me].state = server.client[me].state
      /\ Taken.client[me].fd = server.client[me].fd
  BY <1>2, TakenDoes DEF Turn, ClientTypes
<1>4. Fd(Taken, me) = fdOfMe /\ Running(Taken, me) /\ SameGrab(server, Taken)
      /\ Taken.fate = "sound"
  BY <1>3, TakenDoes DEF Turn, Local, Sound, Fd, fdOfMe, Running
<1>5. ~Ignored(Taken, me) /\ ~Barred(Taken, me)
  BY <1>1, <1>3, <1>4, TakenDoes DEF Turn, Ignored, Barred, SameGrab, Fd, fdOfMe
<1>6. Placed(Taken, me)
  BY <1>1, <1>4, <1>5, TakenDoes, TurnFacts DEF Turn, Placed
<1>7. ClientGood(Taken, me)
  BY <1>1, <1>4, <1>6, TakenDoes, TurnFacts DEF Turn, ClientGood, Running
<1>8. Good(Taken) /\ Kept(server, Taken, Clients \ {me})
  BY <1>1, <1>4, <1>7, TakenDoes, TurnFacts, LocalGood DEF Turn, SameGrab
<1> QED BY <1>4, <1>5, <1>8, TakenDoes DEF Turn, Harmless, GoesOn

(* Once a client is ignored, only the Ignored set speaks for it.             *)
LEMMA IgnoredGood ==
  ASSUME Turn, NEW s \in ServerTypes, Local(server, s, me),
         Ignored(s, me),
         me \in s.grabWaiters => s.client[me].waits = "no",
         fdOfMe \in s.GrabImperviousClients <=> fdOfMe \in server.GrabImperviousClients,
         fdOfMe \in s.SavedAllClients <=> fdOfMe \in server.SavedAllClients,
         fdOfMe \in s.SavedClientsWithInput <=> fdOfMe \in server.SavedClientsWithInput,
         fdOfMe \notin s.AllClients, fdOfMe \notin s.ClientsWithInput,
         fdOfMe \in s.IgnoredClientsWithInput <=> s.buffered[me] > 0
  PROVE  Harmless(s)
<1>1. Fd(s, me) = fdOfMe /\ Running(s, me) /\ SameGrab(server, s) /\ s.fate = server.fate
  BY DEF Turn, Local, Running, fdOfMe
<1>2. ~Barred(s, me)
  BY <1>1 DEF Turn, Barred, SameGrab, fdOfMe
<1>3. ClientGood(s, me)
  BY <1>1, <1>2, TurnFacts DEF ClientGood, Placed, Running
<1>4. s.GrabInProgress = 0 => Fd(s, me) \notin s.SavedAllClients
  BY <1>1, TurnFacts DEF SameGrab
<1> QED BY <1>3, <1>4, LocalGood DEF Turn, Harmless

LEMMA SameSetsAt ==
  ASSUME NEW s, NEW t, SameSets(s, t)
  PROVE  \A n : SameAt(s, t, n)
BY DEF SameSets, SameAt

LEMMA ClientSet ==
  ASSUME NEW s \in ServerTypes, NEW c \in Clients, NEW x \in ClientTypes
  PROVE  LET t == [s EXCEPT !.client[c] = x]
         IN  /\ t \in ServerTypes
             /\ t.client[c] = x /\ \A d \in Clients \ {c} : t.client[d] = s.client[d]
             /\ SameGrab(s, t) /\ t.fate = s.fate /\ SameRest(s, t) /\ SameSets(s, t)
             /\ x.state = s.client[c].state /\ x.fd = s.client[c].fd => Local(s, t, c)
<1> DEFINE t == [s EXCEPT !.client[c] = x]
<1>1. t \in ServerTypes
  BY DEF ServerTypes
<1>2. t.client[c] = x /\ \A d \in Clients \ {c} : t.client[d] = s.client[d]
  BY DEF ServerTypes
<1>3. SameGrab(s, t) /\ t.fate = s.fate /\ SameRest(s, t)
  BY DEF ServerTypes, SameGrab, SameRest
<1>4. SameSets(s, t)
  BY DEF ServerTypes, SameSets
<1> HIDE DEF t
<1>5. x.state = s.client[c].state /\ x.fd = s.client[c].fd => Local(s, t, c)
  BY <1>2, <1>3, <1>4, SameSetsAt DEF Local, SameClient, SameRest, Fd
<1> QED BY <1>1, <1>2, <1>3, <1>4, <1>5 DEF t

Sleeps(s, c, how) == [s EXCEPT !.client[c].waits = how]

LEMMA SleepDoes ==
  ASSUME NEW s \in ServerTypes, NEW c \in Clients, NEW how,
         how \in {"no", "asked", "told", "time"}
  PROVE  LET t == Sleeps(s, c, how)
         IN  /\ t \in ServerTypes /\ Local(s, t, c)
             /\ t.client[c] = [s.client[c] EXCEPT !.waits = how]
             /\ t.client[c].waits = how
             /\ SameRest(s, t) /\ SameSets(s, t)
<1> DEFINE x == [s.client[c] EXCEPT !.waits = how]
<1>1. s.client[c] \in ClientTypes
  BY DEF ServerTypes
<1>2. x \in ClientTypes /\ x.waits = how /\ x.state = s.client[c].state /\ x.fd = s.client[c].fd
  BY <1>1 DEF ClientTypes
<1>3. Sleeps(s, c, how) = [s EXCEPT !.client[c] = x]
  BY DEF Sleeps
<1> HIDE DEF x
<1>4. LET t == [s EXCEPT !.client[c] = x]
      IN  /\ t \in ServerTypes /\ Local(s, t, c) /\ t.client[c] = x
          /\ SameRest(s, t) /\ SameSets(s, t)
  BY <1>2, ClientSet
<1> QED BY <1>2, <1>3, <1>4 DEF x

LEMMA IgnoreTakenDoes ==
  ASSUME Turn, server.buffered[me] > 0
  PROVE  LET t == IgnoreClient(Taken, me)
         IN  /\ t \in ServerTypes /\ Local(server, t, me)
             /\ t.client[me] = Taken.client[me] /\ t.buffered[me] = Taken.buffered[me]
             /\ me \notin t.grabWaiters
             /\ fdOfMe \in t.GrabImperviousClients <=> fdOfMe \in server.GrabImperviousClients
             /\ fdOfMe \in t.SavedAllClients <=> fdOfMe \in server.SavedAllClients
             /\ fdOfMe \in t.SavedClientsWithInput <=> fdOfMe \in server.SavedClientsWithInput
             /\ fdOfMe \notin t.AllClients /\ fdOfMe \notin t.ClientsWithInput
             /\ fdOfMe \in t.IgnoredClientsWithInput <=> Taken.buffered[me] > 0
<1> DEFINE t == IgnoreClient(Taken, me)
<1>1. Taken \in ServerTypes /\ Local(server, Taken, me) /\ me \in Clients
      /\ Fd(Taken, me) = fdOfMe /\ server.buffered[me] \in Nat
  BY TakenDoes, TakenGood, TurnFacts DEF Turn
<1>2. fdOfMe \in Taken.AllClients
  BY <1>1, TakenDoes, TurnFacts DEF Turn
<1>3. /\ t \in ServerTypes /\ Local(Taken, t, me) /\ SameClient(Taken, t, me)
      /\ fdOfMe \in t.GrabImperviousClients <=> fdOfMe \in Taken.GrabImperviousClients
      /\ fdOfMe \notin t.AllClients /\ fdOfMe \notin t.ClientsWithInput
      /\ fdOfMe \in t.IgnoredClientsWithInput <=> fdOfMe \in Taken.ClientsWithInput
      /\ fdOfMe \in t.SavedAllClients <=> fdOfMe \in Taken.SavedAllClients
      /\ fdOfMe \in t.SavedClientsWithInput <=> fdOfMe \in Taken.SavedClientsWithInput
  BY <1>1, <1>2, IgnoreClientDoes
<1> HIDE DEF t
<1>4. Local(server, t, me)
  BY <1>1, <1>3, LocalTransitive
<1> QED BY <1>1, <1>3, <1>4, TakenDoes, TurnFacts DEF Turn, SameClient, t

LEMMA OpenFontHarmless ==
  ASSUME Turn, server.buffered[me] > 0
  PROVE  Harmless([IgnoreClient(Taken, me) EXCEPT !.client[me].waits = "asked"])
<1> DEFINE s == IgnoreClient(Taken, me)
           t == Sleeps(s, me, "asked")
<1>1. s \in ServerTypes /\ Local(server, s, me) /\ me \in Clients /\ Fd(s, me) = fdOfMe
  BY IgnoreTakenDoes DEF Turn, Local, fdOfMe
<1> HIDE DEF s
<1>2. /\ t \in ServerTypes /\ Local(s, t, me) /\ t.client[me].waits = "asked"
      /\ SameRest(s, t) /\ SameSets(s, t)
  BY <1>1, SleepDoes
<1> HIDE DEF t
<1>3. Local(server, t, me)
  BY <1>1, <1>2, LocalTransitive
<1>4. Ignored(t, me)
  BY <1>2 DEF Ignored
<1>5. Harmless(t)
  BY <1>2, <1>3, <1>4, IgnoreTakenDoes, IgnoredGood DEF s, SameRest, SameSets
<1> QED BY <1>5 DEF t, s, Sleeps

LEMMA FakeInputHarmless ==
  ASSUME Turn, server.buffered[me] > 0
  PROVE  Harmless(ResetCurrentRequest([IgnoreClient(Taken, me) EXCEPT !.client[me].waits = "time"],
                                      me, "FakeInput"))
<1> DEFINE s == IgnoreClient(Taken, me)
           t == Sleeps(s, me, "time")
           u == ResetCurrentRequest(t, me, "FakeInput")
<1>1. s \in ServerTypes /\ Local(server, s, me) /\ me \in Clients /\ Fd(s, me) = fdOfMe
  BY IgnoreTakenDoes DEF Turn, Local, fdOfMe
<1> HIDE DEF s
<1>2. /\ t \in ServerTypes /\ Local(s, t, me) /\ t.client[me].waits = "time"
      /\ SameRest(s, t) /\ SameSets(s, t)
  BY <1>1, SleepDoes
<1> HIDE DEF t
<1>3. Local(server, t, me) /\ Fd(t, me) = fdOfMe /\ fdOfMe \notin t.AllClients
  BY <1>1, <1>2, IgnoreTakenDoes, LocalTransitive DEF Local, s, SameSets
<1>4. t.buffered[me] < Capacity /\ t.buffered[me] \in Nat
  BY <1>2, IgnoreTakenDoes, TakenDoes, TurnFacts, DispatchAssumption DEF Turn, s, SameRest
<1>5. /\ u \in ServerTypes /\ Local(t, u, me)
      /\ u.client[me] = [t.client[me] EXCEPT !.repeats = "FakeInput"]
      /\ u.buffered[me] = t.buffered[me] + 1
      /\ me \in u.grabWaiters <=> me \in t.grabWaiters
      /\ fdOfMe \in u.GrabImperviousClients <=> fdOfMe \in t.GrabImperviousClients
      /\ fdOfMe \in u.AllClients <=> fdOfMe \in t.AllClients
      /\ fdOfMe \in u.SavedAllClients <=> fdOfMe \in t.SavedAllClients
      /\ fdOfMe \in u.SavedClientsWithInput <=> fdOfMe \in t.SavedClientsWithInput
      /\ fdOfMe \in u.ClientsWithInput <=> fdOfMe \in t.ClientsWithInput
      /\ fdOfMe \in u.IgnoredClientsWithInput
  <2> HIDE DEF u
  <2>1. u \in ServerTypes /\ Local(t, u, me)
    BY <1>1, <1>2, <1>4, ResetCurrentRequestDoes DEF u
  <2>2. /\ u.client[me] = [t.client[me] EXCEPT !.repeats = "FakeInput"]
        /\ u.buffered[me] = t.buffered[me] + 1
    BY <1>1, <1>2, <1>4, ResetCurrentRequestDoes DEF u
  <2>3. me \in u.grabWaiters <=> me \in t.grabWaiters
    BY <1>1, <1>2, <1>4, ResetCurrentRequestDoes DEF u
  <2>4. /\ Fd(t, me) \in u.GrabImperviousClients <=> Fd(t, me) \in t.GrabImperviousClients
        /\ Fd(t, me) \in u.AllClients <=> Fd(t, me) \in t.AllClients
        /\ Fd(t, me) \in u.SavedAllClients <=> Fd(t, me) \in t.SavedAllClients
        /\ Fd(t, me) \in u.SavedClientsWithInput <=> Fd(t, me) \in t.SavedClientsWithInput
    BY <1>1, <1>2, <1>3, <1>4, ResetCurrentRequestDoes DEF u
  <2>5. /\ Fd(t, me) \in u.ClientsWithInput <=> Fd(t, me) \in t.ClientsWithInput
        /\ Fd(t, me) \in u.IgnoredClientsWithInput
    BY <1>1, <1>2, <1>3, <1>4, ResetCurrentRequestDoes DEF u
  <2> QED BY <1>3, <2>1, <2>2, <2>3, <2>4, <2>5
<1>6. t.client[me] \in ClientTypes
  BY <1>1, <1>2 DEF ServerTypes
<1>7. Ignored(u, me)
  BY <1>2, <1>5, <1>6 DEF Ignored, ClientTypes
<1> HIDE DEF u
<1>8. Local(server, u, me)
  BY <1>1, <1>3, <1>5, LocalTransitive
<1>9. Harmless(u)
  BY <1>2, <1>4, <1>5, <1>7, <1>8, IgnoreTakenDoes, IgnoredGood DEF s, SameRest, SameSets
<1> QED BY <1>9 DEF s, t, u, Sleeps

LEMMA WaitForServerHarmless ==
  ASSUME Turn, server.buffered[me] > 0
  PROVE  LET s == ResetCurrentRequest(Taken, me, "GrabServer")
         IN  Harmless(IgnoreClient([s EXCEPT !.grabWaiters = @ \cup {me}], me))
<1> DEFINE s == ResetCurrentRequest(Taken, me, "GrabServer")
           t == [s EXCEPT !.grabWaiters = @ \cup {me}]
           u == IgnoreClient(t, me)
<1>1. Taken \in ServerTypes /\ Local(server, Taken, me) /\ me \in Clients
      /\ Fd(Taken, me) = fdOfMe /\ server.buffered[me] \in 0 .. Capacity
      /\ Taken.buffered[me] = server.buffered[me] - 1
  BY TakenDoes, TakenGood, TurnFacts DEF Turn
<1>2. fdOfMe \in Taken.AllClients /\ Taken.buffered[me] < Capacity
  BY <1>1, TakenDoes, TurnFacts, DispatchAssumption DEF Turn
<1>3. /\ s \in ServerTypes /\ Local(Taken, s, me)
      /\ s.client[me] = [Taken.client[me] EXCEPT !.repeats = "GrabServer"]
      /\ s.buffered[me] = Taken.buffered[me] + 1
      /\ me \in s.grabWaiters <=> me \in Taken.grabWaiters
      /\ fdOfMe \in s.GrabImperviousClients <=> fdOfMe \in Taken.GrabImperviousClients
      /\ fdOfMe \in s.AllClients <=> fdOfMe \in Taken.AllClients
      /\ fdOfMe \in s.SavedAllClients <=> fdOfMe \in Taken.SavedAllClients
      /\ fdOfMe \in s.SavedClientsWithInput <=> fdOfMe \in Taken.SavedClientsWithInput
      /\ fdOfMe \in s.ClientsWithInput
  BY <1>1, <1>2, ResetCurrentRequestDoes
<1> HIDE DEF s
<1>4. /\ t \in ServerTypes
      /\ t.client = s.client /\ t.buffered = s.buffered
      /\ t.grabWaiters = s.grabWaiters \cup {me}
      /\ SameGrab(s, t) /\ t.fate = s.fate /\ SameSets(s, t)
  BY <1>1, <1>3 DEF ServerTypes, SameGrab, SameSets
<1> HIDE DEF t
<1>5. Local(s, t, me)
  BY <1>4, SameSetsAt DEF Local, SameClient, Fd
<1>6. Local(server, s, me)
  BY <1>1, <1>3, LocalTransitive
<1>61. Local(server, t, me) /\ Fd(t, me) = fdOfMe /\ fdOfMe \in t.AllClients
  <2>1. Local(server, t, me)
    BY <1>1, <1>5, <1>6, LocalTransitive
  <2> QED BY <1>2, <1>3, <1>4, <2>1 DEF Local, fdOfMe, SameSets
<1>7. /\ u \in ServerTypes /\ Local(t, u, me) /\ SameClient(t, u, me)
      /\ fdOfMe \in u.GrabImperviousClients <=> fdOfMe \in t.GrabImperviousClients
      /\ fdOfMe \notin u.AllClients /\ fdOfMe \notin u.ClientsWithInput
      /\ fdOfMe \in u.IgnoredClientsWithInput <=> fdOfMe \in t.ClientsWithInput
      /\ fdOfMe \in u.SavedAllClients <=> fdOfMe \in t.SavedAllClients
      /\ fdOfMe \in u.SavedClientsWithInput <=> fdOfMe \in t.SavedClientsWithInput
  BY <1>1, <1>4, <1>61, IgnoreClientDoes
<1> HIDE DEF u
<1>8. Local(server, u, me)
  BY <1>1, <1>61, <1>7, LocalTransitive
<1>9. Ignored(u, me) /\ u.client[me] = s.client[me] /\ u.buffered[me] > 0
  BY <1>1, <1>3, <1>4, <1>7 DEF SameClient, Ignored
<1>10. u.client[me].waits = "no"
  <2>1. server.client[me].waits = "no" /\ server.client[me] \in ClientTypes
    BY TurnFacts
  <2>2. Taken.client[me].waits = "no" /\ Taken.client[me] \in ClientTypes
    BY <1>1, <2>1, TakenDoes DEF Turn, ClientTypes
  <2> QED BY <1>3, <1>9, <2>2 DEF ClientTypes
<1>11. Harmless(u)
  <2>1. /\ fdOfMe \in u.GrabImperviousClients <=> fdOfMe \in server.GrabImperviousClients
        /\ fdOfMe \in u.SavedAllClients <=> fdOfMe \in server.SavedAllClients
        /\ fdOfMe \in u.SavedClientsWithInput <=> fdOfMe \in server.SavedClientsWithInput
        /\ fdOfMe \notin u.AllClients /\ fdOfMe \notin u.ClientsWithInput
    BY <1>1, <1>3, <1>4, <1>7, TakenDoes DEF Turn, SameSets
  <2>2. fdOfMe \in u.IgnoredClientsWithInput
    BY <1>3, <1>4, <1>7 DEF SameSets
  <2> QED BY <1>7, <1>8, <1>9, <1>10, <2>1, <2>2, IgnoredGood
<1> QED BY <1>11 DEF s, t, u

LEMMA HarmlessLocal ==
  ASSUME Turn, NEW s \in ServerTypes, Local(server, s, me), ClientGood(s, me),
         fdOfMe \in s.SavedAllClients <=> fdOfMe \in server.SavedAllClients
  PROVE  Harmless(s)
<1>1. s.GrabInProgress = 0 => Fd(s, me) \notin s.SavedAllClients
  BY TurnFacts DEF Turn, Local, SameGrab, fdOfMe
<1> QED BY <1>1, LocalGood DEF Turn, Harmless

LEMMA ImperviousHarmless ==
  ASSUME Turn, server.buffered[me] > 0
  PROVE  Harmless(MakeClientGrabImpervious(Taken)) /\ GoesOn(MakeClientGrabImpervious(Taken))
<1> DEFINE s == Taken
           t == MakeClientGrabImpervious(Taken)
<1>1. s \in ServerTypes /\ Local(server, s, me) /\ me \in Clients /\ Fd(s, me) = fdOfMe
      /\ fdOfMe \in Fds /\ ~Ignored(s, me) /\ Good(s) /\ Running(s, me) /\ ~Barred(s, me)
  BY TakenDoes, TakenGood, TurnFacts DEF Turn
<1>2. fdOfMe \in s.SavedAllClients <=> fdOfMe \in server.SavedAllClients
  BY TakenDoes DEF Turn
<1> HIDE DEF s
<1>3. /\ t \in ServerTypes /\ t.client = s.client /\ SameGrab(s, t) /\ t.fate = s.fate
      /\ SameRest(s, t)
  BY <1>1 DEF MakeClientGrabImpervious, ServerTypes, Numbers, SameGrab, SameRest, s
<1>4. /\ t.AllClients = s.AllClients /\ t.ClientsWithInput = s.ClientsWithInput
      /\ t.SavedAllClients = s.SavedAllClients
      /\ t.SavedClientsWithInput = s.SavedClientsWithInput
      /\ t.IgnoredClientsWithInput = s.IgnoredClientsWithInput
      /\ t.GrabImperviousClients = s.GrabImperviousClients \cup {fdOfMe}
  BY <1>1 DEF MakeClientGrabImpervious, ServerTypes, s
<1> HIDE DEF t
<1>5. \A n \in Numbers \ {fdOfMe} : SameAt(s, t, n)
  BY <1>4 DEF SameAt
<1>6. SameClient(s, t, me) /\ Local(s, t, me) /\ Fd(t, me) = fdOfMe
  BY <1>1, <1>3, <1>5 DEF Local, SameClient, SameRest, Fd
<1>7. ~Ignored(t, me) /\ ~Barred(t, me) /\ Running(t, me)
  BY <1>1, <1>3, <1>4, <1>6 DEF Ignored, Barred, SameClient, SameGrab, Running
<1>8. ClientGood(s, me)
  BY <1>1 DEF Good
<1>9. Placed(t, me)
  <2>1. Placed(s, me)
    BY <1>1, <1>8 DEF ClientGood
  <2> QED BY <1>1, <1>4, <1>6, <1>7, <2>1 DEF Placed, SameClient
<1>10. ClientGood(t, me)
  BY <1>1, <1>6, <1>7, <1>8, <1>9 DEF ClientGood, Running, SameClient
<1>11. Harmless(t)
  BY <1>1, <1>2, <1>3, <1>4, <1>6, <1>10, LocalTransitive, HarmlessLocal
<1> QED BY <1>7, <1>11 DEF t, GoesOn

LEMMA PerviousHarmless ==
  ASSUME Turn, server.buffered[me] > 0
  PROVE  /\ Harmless(MakeClientGrabPervious(Taken))
         /\ server.GrabInProgress \in {0, me} => GoesOn(MakeClientGrabPervious(Taken))
<1> DEFINE s == Taken
           t == [s EXCEPT !.GrabImperviousClients = @ \ {fdOfMe}]
           u == [t EXCEPT !.SavedClientsWithInput = @ \cup (s.ClientsWithInput \cap {fdOfMe}),
                          !.ClientsWithInput = @ \ {fdOfMe}, !.AllClients = @ \ {fdOfMe}]
<1>1. s \in ServerTypes /\ Local(server, s, me) /\ me \in Clients /\ Fd(s, me) = fdOfMe
      /\ fdOfMe \in Fds /\ ~Ignored(s, me) /\ Good(s) /\ Running(s, me) /\ ~Barred(s, me)
      /\ s.GrabInProgress = server.GrabInProgress /\ s.fate = "sound"
  BY TakenDoes, TakenGood, TurnFacts DEF Turn, SameGrab
<1>2. fdOfMe \in s.SavedAllClients <=> fdOfMe \in server.SavedAllClients
  BY TakenDoes DEF Turn
<1>3. ClientGood(s, me) /\ Placed(s, me)
  BY <1>1 DEF Good, ClientGood
<1>4. MakeClientGrabPervious(s) = IF s.GrabInProgress \in {0, me} THEN t
                                  ELSE IF fdOfMe \in s.SavedAllClients THEN u
                                  ELSE Wrong(u, "ClientNotSaved")
  BY DEF MakeClientGrabPervious
<1> HIDE DEF s
<1>5. /\ t \in ServerTypes /\ t.client = s.client /\ SameGrab(s, t) /\ t.fate = s.fate
      /\ SameRest(s, t)
  BY <1>1 DEF ServerTypes, SameGrab, SameRest
<1>6. /\ t.AllClients = s.AllClients /\ t.ClientsWithInput = s.ClientsWithInput
      /\ t.SavedAllClients = s.SavedAllClients
      /\ t.SavedClientsWithInput = s.SavedClientsWithInput
      /\ t.IgnoredClientsWithInput = s.IgnoredClientsWithInput
      /\ t.GrabImperviousClients = s.GrabImperviousClients \ {fdOfMe}
  BY <1>1 DEF ServerTypes
<1> HIDE DEF t
<1>7. /\ u \in ServerTypes /\ u.client = t.client /\ SameGrab(t, u) /\ u.fate = t.fate
      /\ SameRest(t, u)
  BY <1>1, <1>5 DEF ServerTypes, Numbers, SameGrab, SameRest
<1>8. /\ u.AllClients = t.AllClients \ {fdOfMe}
      /\ u.ClientsWithInput = t.ClientsWithInput \ {fdOfMe}
      /\ u.SavedAllClients = t.SavedAllClients
      /\ u.SavedClientsWithInput = t.SavedClientsWithInput \cup (s.ClientsWithInput \cap {fdOfMe})
      /\ u.IgnoredClientsWithInput = t.IgnoredClientsWithInput
      /\ u.GrabImperviousClients = t.GrabImperviousClients
  BY <1>5 DEF ServerTypes
<1> HIDE DEF u
<1>9. \A n \in Numbers \ {fdOfMe} : SameAt(s, t, n) /\ SameAt(s, u, n)
  BY <1>6, <1>8 DEF SameAt
<1>10. /\ SameClient(s, t, me) /\ Local(s, t, me) /\ Fd(t, me) = fdOfMe
       /\ SameClient(s, u, me) /\ Local(s, u, me) /\ Fd(u, me) = fdOfMe
  BY <1>1, <1>5, <1>7, <1>9 DEF Local, SameClient, SameRest, SameGrab, Fd
<1>11. /\ ~Ignored(t, me) /\ Running(t, me) /\ ~Ignored(u, me) /\ Running(u, me)
       /\ t.GrabInProgress = s.GrabInProgress /\ u.GrabInProgress = s.GrabInProgress
  BY <1>1, <1>5, <1>7, <1>10 DEF Ignored, SameClient, SameGrab, Running
<1>12. Local(server, t, me) /\ Local(server, u, me)
  BY <1>1, <1>10, LocalTransitive
<1>13. CASE s.GrabInProgress \in {0, me}
  <2>1. ~Barred(t, me)
    BY <1>11, <1>13 DEF Barred
  <2>2. Placed(t, me)
    BY <1>1, <1>3, <1>6, <1>10, <1>11, <2>1 DEF Placed, SameClient
  <2>3. ClientGood(t, me)
    BY <1>1, <1>3, <1>10, <1>11, <2>2 DEF ClientGood, SameClient
  <2>4. Harmless(t)
    BY <1>2, <1>5, <1>6, <1>12, <2>3, HarmlessLocal
  <2> QED BY <1>4, <1>11, <1>13, <2>1, <2>4 DEF GoesOn, s
<1>14. CASE s.GrabInProgress \notin {0, me} /\ fdOfMe \in s.SavedAllClients
  <2>1. Barred(u, me)
    BY <1>6, <1>8, <1>10, <1>11, <1>14 DEF Barred
  <2>2. Placed(u, me)
    BY <1>1, <1>3, <1>6, <1>8, <1>10, <1>11, <1>14, <2>1 DEF Placed, SameClient
  <2>3. ClientGood(u, me)
    BY <1>1, <1>3, <1>10, <1>11, <2>2 DEF ClientGood, SameClient
  <2>4. Harmless(u)
    BY <1>2, <1>6, <1>7, <1>8, <1>12, <2>3, HarmlessLocal
  <2> QED BY <1>1, <1>4, <1>14, <2>4 DEF s
<1>15. CASE s.GrabInProgress \notin {0, me} /\ fdOfMe \notin s.SavedAllClients
  <2>1. u.fate = "sound"
    BY <1>1, <1>5, <1>7
  <2>2. Wrong(u, "ClientNotSaved") = [u EXCEPT !.fate = "ClientNotSaved"]
    BY <2>1 DEF Wrong
  <2>3. [u EXCEPT !.fate = "ClientNotSaved"] \in ServerTypes
        /\ [u EXCEPT !.fate = "ClientNotSaved"].fate # "sound"
    BY <1>7 DEF ServerTypes
  <2> QED BY <1>1, <1>4, <1>15, <2>2, <2>3 DEF Harmless, s
<1> QED BY <1>13, <1>14, <1>15

LEMMA WrongDoes ==
  ASSUME NEW s \in ServerTypes, NEW what,
         what \in {"IgnoredClientHeard", "ConnectionNumberInUse", "WorkForFreedClient",
                   "ClientWithoutConnection", "ClientNotSaved"}
  PROVE  /\ Wrong(s, what) \in ServerTypes /\ Wrong(s, what).fate # "sound"
         /\ Wrong(s, what).client = s.client /\ Wrong(s, what).buffered = s.buffered
BY DEF Wrong, ServerTypes

LEMMA MinIn ==
  ASSUME NEW S, S \subseteq Clients, S # {}
  PROVE  Min(S) \in S
<1>1. S \subseteq Nat
  BY DEF Clients
<1> DEFINE below == {ss \in Nat \X Nat : ss[1] < ss[2]}
<1>2. IsWellFoundedOn(below, Nat)
  BY NatLessThanWellFounded DEF OpToRel
<1> HIDE DEF below
<1>3. PICK m \in S : \A y \in S : <<y, m>> \notin below
  BY <1>1, <1>2, WFMin
<1>4. ASSUME NEW y \in S PROVE m =< y
  <2>1. <<y, m>> \in Nat \X Nat /\ <<y, m>>[1] = y /\ <<y, m>>[2] = m
    BY <1>1
  <2>2. ~(y < m)
    BY <1>3, <2>1 DEF below
  <2> QED BY <1>1, <2>2
<1> QED BY <1>4 DEF Min

-----------------------------------------------------------------------------
(* Grabs of the server that begin and end.                                   *)

LEMMA GrabHarmless ==
  ASSUME Turn, server.buffered[me] > 0,
         server.grabState = "GrabNone" \/ server.grabClient = me
  PROVE  LET t == [OnlyListenToOneClient(Taken, me) EXCEPT !.grabState = "GrabKickout",
                                                           !.grabClient = me]
         IN  Harmless(t) /\ GoesOn(t)
<1> DEFINE s == Taken
           u == OnlyListenToOneClient(s, me)
           t == [u EXCEPT !.grabState = "GrabKickout", !.grabClient = me]
           heard == s.GrabImperviousClients \cup {fdOfMe}
<1>1. s \in ServerTypes /\ Local(server, s, me) /\ me \in Clients /\ Fd(s, me) = fdOfMe
      /\ fdOfMe \in Fds /\ ~Ignored(s, me) /\ Good(s) /\ Running(s, me) /\ ~Barred(s, me)
      /\ s.GrabInProgress = server.GrabInProgress /\ s.fate = "sound"
      /\ (s.grabState = "GrabNone" \/ s.grabClient = me)
      /\ Kept(server, s, Clients \ {me})
  BY TakenDoes, TakenGood, TurnFacts DEF Turn, SameGrab, Harmless
<1> HIDE DEF s
<1>2. GrabGood(s) /\ me # 0 /\ s.GrabInProgress \in {0, me}
  BY <1>1 DEF Good, GrabGood, Clients
<1>3. /\ u \in ServerTypes
      /\ u.client = s.client /\ u.fate = s.fate /\ SameRest(s, u)
      /\ u.GrabInProgress = me
      /\ u.IgnoredClientsWithInput = s.IgnoredClientsWithInput
      /\ u.GrabImperviousClients = s.GrabImperviousClients
  <2>1. CASE s.GrabInProgress = 0
    <3>1. u = [s EXCEPT !.SavedClientsWithInput = s.ClientsWithInput \ heard,
                        !.ClientsWithInput = @ \cap heard,
                        !.SavedAllClients = s.AllClients,
                        !.AllClients = (@ \cap heard) \cup {fdOfMe},
                        !.GrabInProgress = me]
      BY <1>1, <2>1 DEF OnlyListenToOneClient
    <3> HIDE DEF u
    <3>2. fdOfMe \in Numbers
      BY <1>1 DEF Numbers
    <3>3. u \in ServerTypes
      BY <1>1, <3>1, <3>2 DEF ServerTypes
    <3>4. /\ u.client = s.client /\ u.fate = s.fate /\ u.GrabInProgress = me
          /\ u.IgnoredClientsWithInput = s.IgnoredClientsWithInput
          /\ u.GrabImperviousClients = s.GrabImperviousClients
      BY <3>1 DEF ServerTypes
    <3>5. SameRest(s, u)
      BY <3>1 DEF ServerTypes, SameRest
    <3> QED BY <3>3, <3>4, <3>5
  <2>2. CASE s.GrabInProgress # 0
    <3>1. u = s
      BY <2>2 DEF OnlyListenToOneClient
    <3> QED BY <1>1, <1>2, <2>2, <3>1 DEF SameRest
  <2> QED BY <2>1, <2>2
<1>4. s.GrabInProgress = 0 => /\ u.SavedClientsWithInput = s.ClientsWithInput \ heard
                              /\ u.ClientsWithInput = s.ClientsWithInput \cap heard
                              /\ u.SavedAllClients = s.AllClients
                              /\ u.AllClients = (s.AllClients \cap heard) \cup {fdOfMe}
  BY <1>1 DEF OnlyListenToOneClient, ServerTypes
<1>5. s.GrabInProgress # 0 => u = s
  BY DEF OnlyListenToOneClient
<1> HIDE DEF u
<1>6. /\ t \in ServerTypes /\ t.client = u.client /\ t.fate = u.fate /\ SameRest(u, t)
      /\ t.GrabInProgress = u.GrabInProgress /\ t.grabState = "GrabKickout"
      /\ t.grabClient = me
  BY <1>1, <1>3 DEF ServerTypes, SameRest
<1>7. SameSets(u, t)
  BY <1>3 DEF ServerTypes, SameSets
<1> HIDE DEF t
<1>8. \A c \in Clients : /\ Fd(t, c) = Fd(s, c) /\ (Running(t, c) <=> Running(s, c))
                         /\ (Ignored(t, c) <=> Ignored(s, c)) /\ t.client[c] = s.client[c]
                         /\ t.buffered[c] = s.buffered[c]
                         /\ (c \in t.grabWaiters <=> c \in s.grabWaiters)
  BY <1>3, <1>6 DEF Fd, Running, Ignored, SameRest
<1>9. \A c \in Clients : Barred(t, c) <=> c # me /\ Fd(s, c) \notin s.GrabImperviousClients
  BY <1>2, <1>3, <1>6, <1>7, <1>8 DEF Barred, SameSets, Clients
<1>10. ASSUME NEW c \in Clients, Running(s, c)
       PROVE  Placed(t, c)
  <2>1. Placed(s, c)
    BY <1>1, <1>10 DEF Good, ClientGood
  <2>2. CASE s.GrabInProgress = 0
    <3>1. ~Barred(s, c) /\ (Barred(t, c) <=> Fd(s, c) \notin heard)
      BY <1>1, <1>9, <1>10, <2>2 DEF Barred, Good
    <3>2. Fd(s, c) = fdOfMe => c = me
      BY <1>1, <1>10 DEF Good
    <3> HIDE DEF heard
    <3>3. fdOfMe \in heard
      BY DEF heard
    <3> QED BY <1>1, <1>3, <1>4, <1>7, <1>8, <2>1, <2>2, <3>1, <3>2, <3>3 DEF Placed, SameSets
  <2>3. CASE s.GrabInProgress # 0
    <3>1. Barred(s, c) <=> Barred(t, c)
      BY <1>2, <1>9, <2>3 DEF Barred
    <3> QED BY <1>5, <1>7, <1>8, <2>1, <2>3, <3>1 DEF Placed, SameSets
  <2> QED BY <2>2, <2>3
<1>11. \A c \in Clients : ClientGood(t, c)
  BY <1>1, <1>8, <1>10 DEF Good, ClientGood
<1>12. \A c, d \in Clients : Running(t, c) /\ Running(t, d) /\ Fd(t, c) = Fd(t, d) => c = d
  BY <1>1, <1>8 DEF Good
<1>13. ASSUME NEW fd \in Heard(t) PROVE \E c \in Clients : Owns(t, c, fd)
  <2>1. fd \in Heard(s) \cup {fdOfMe}
    BY <1>3, <1>4, <1>5, <1>7, fd \in Heard(t) DEF Heard, SameSets
  <2>2. \E c \in Clients : Owns(s, c, fd)
    BY <1>1, <2>1 DEF Owns, Good
  <2> QED BY <1>8, <2>2 DEF Owns
<1>14. GrabGood(t)
  BY <1>1, <1>2, <1>3, <1>6, <1>8 DEF GrabGood
<1>15. Good(t)
  BY <1>11, <1>12, <1>13, <1>14 DEF Good
<1>16. Kept(server, t, Clients \ {me})
  BY <1>1, <1>6, <1>8 DEF Kept, MayServe
<1>17. ~Ignored(t, me) /\ ~Barred(t, me)
  BY <1>1, <1>8, <1>9
<1> QED BY <1>6, <1>15, <1>16, <1>17 DEF Harmless, GoesOn, s, u, t

LEMMA ListenToAllClientsDoes ==
  ASSUME NEW s \in ServerTypes, Good(s)
  PROVE  LET t == ListenToAllClients([s EXCEPT !.grabState = "GrabNone", !.grabClient = 0])
         IN  /\ t \in ServerTypes
             /\ t.client = s.client /\ t.fate = s.fate /\ SameRest(s, t)
             /\ t.GrabInProgress = 0 /\ t.grabState = "GrabNone" /\ t.grabClient = 0
             /\ t.AllClients = s.AllClients \cup s.SavedAllClients
             /\ t.ClientsWithInput = s.ClientsWithInput \cup s.SavedClientsWithInput
             /\ t.SavedAllClients = {} /\ t.SavedClientsWithInput = {}
             /\ t.IgnoredClientsWithInput = s.IgnoredClientsWithInput
             /\ t.GrabImperviousClients = s.GrabImperviousClients
<1> DEFINE u == [s EXCEPT !.grabState = "GrabNone", !.grabClient = 0]
           t == ListenToAllClients(u)
<1>1. /\ u \in ServerTypes /\ u.client = s.client /\ u.fate = s.fate
      /\ SameRest(s, u) /\ u.GrabInProgress = s.GrabInProgress
      /\ u.grabState = "GrabNone" /\ u.grabClient = 0
  BY DEF ServerTypes, SameRest
<1>2. SameSets(s, u)
  BY DEF ServerTypes, SameSets
<1>3. s.GrabInProgress = 0 => s.SavedAllClients = {} /\ s.SavedClientsWithInput = {}
  BY DEF Good, GrabGood
<1> HIDE DEF u
<1>4. /\ t \in ServerTypes /\ t.client = u.client /\ t.fate = u.fate /\ SameRest(u, t)
      /\ t.GrabInProgress = 0 /\ t.grabState = u.grabState /\ t.grabClient = u.grabClient
  <2>1. CASE u.GrabInProgress = 0
    <3>1. t = u
      BY <2>1 DEF ListenToAllClients
    <3> QED BY <1>1, <2>1, <3>1 DEF SameRest
  <2>2. CASE u.GrabInProgress # 0
    BY <1>1, <2>2 DEF ListenToAllClients, ServerTypes, SameRest
  <2> QED BY <2>1, <2>2
<1>5. CASE s.GrabInProgress = 0
  <2>1. t = u
    BY <1>1, <1>5 DEF ListenToAllClients
  <2> QED BY <1>1, <1>2, <1>3, <1>4, <1>5, <2>1 DEF SameSets, u
<1>6. CASE s.GrabInProgress # 0
  <2>1. /\ t.AllClients = u.AllClients \cup u.SavedAllClients
        /\ t.ClientsWithInput = u.ClientsWithInput \cup u.SavedClientsWithInput
        /\ t.SavedAllClients = {} /\ t.SavedClientsWithInput = {}
        /\ t.IgnoredClientsWithInput = u.IgnoredClientsWithInput
        /\ t.GrabImperviousClients = u.GrabImperviousClients
    BY <1>1, <1>6 DEF ListenToAllClients, ServerTypes
  <2> HIDE DEF t
  <2>2. SameRest(s, t)
    BY <1>1, <1>4 DEF SameRest
  <2> QED BY <1>1, <1>2, <1>4, <2>1, <2>2 DEF SameSets, u, t
<1> QED BY <1>5, <1>6

LEMMA UngrabDoes ==
  ASSUME NEW s \in ServerTypes, Good(s), s.fate = "sound"
  PROVE  LET t == UngrabServer(s)
         IN  /\ t \in ServerTypes /\ t.client = s.client /\ t.buffered = s.buffered
             /\ \A c \in Clients : ~Ignored(s, c) => ~Ignored(t, c)
             /\ t.fate = "sound" => /\ Good(t) /\ Kept(s, t, Clients)
                                    /\ t.GrabInProgress = 0 /\ t.grabState = "GrabNone"
<1> DEFINE l == ListenToAllClients([s EXCEPT !.grabState = "GrabNone", !.grabClient = 0])
           w == Min(s.grabWaiters)
           W == IF s.grabWaiters = {} THEN {} ELSE {w}
           m == [l EXCEPT !.grabWaiters = @ \ {w}]
           u == IF s.grabWaiters = {} THEN l ELSE AttendClients(m, {w})
           disturbed == {c \in Clients : Ignored(u, c) /\ Fd(u, c) \in u.AllClients}
           t == UngrabServer(s)
<1>1. t = IF disturbed = {} THEN u ELSE Wrong(u, "IgnoredClientHeard")
  BY DEF UngrabServer, AttendClient
<1>2. /\ l \in ServerTypes
      /\ l.client = s.client /\ l.fate = "sound" /\ SameRest(s, l)
      /\ l.GrabInProgress = 0 /\ l.grabState = "GrabNone" /\ l.grabClient = 0
      /\ l.AllClients = s.AllClients \cup s.SavedAllClients
      /\ l.ClientsWithInput = s.ClientsWithInput \cup s.SavedClientsWithInput
      /\ l.SavedAllClients = {} /\ l.SavedClientsWithInput = {}
      /\ l.IgnoredClientsWithInput = s.IgnoredClientsWithInput
      /\ l.GrabImperviousClients = s.GrabImperviousClients
  BY ListenToAllClientsDoes
<1> HIDE DEF l, t
<1>3. W \subseteq Clients /\ W \subseteq s.grabWaiters /\ (W # {} => W = {w} /\ w \in Clients)
  BY MinIn DEF ServerTypes
<1> HIDE DEF w
<1>4. /\ u \in ServerTypes /\ u.client = s.client /\ u.fate = "sound"
      /\ u.buffered = s.buffered /\ u.grabWaiters = s.grabWaiters \ W
      /\ u.GrabInProgress = 0 /\ u.grabState = "GrabNone" /\ u.grabClient = 0
      /\ u.GrabImperviousClients = s.GrabImperviousClients
      /\ u.SavedAllClients = {} /\ u.SavedClientsWithInput = {}
      /\ \A n : /\ n \in u.AllClients <=>
                     n \in s.AllClients \cup s.SavedAllClients \cup {Fd(s, c) : c \in W}
                /\ n \in u.ClientsWithInput <=>
                     \/ n \in s.ClientsWithInput \cup s.SavedClientsWithInput
                     \/ n \in s.IgnoredClientsWithInput /\ n \in {Fd(s, c) : c \in W}
                /\ n \in u.IgnoredClientsWithInput <=> n \in s.IgnoredClientsWithInput
  <2>1. CASE s.grabWaiters = {}
    BY <1>2, <2>1 DEF SameRest
  <2>2. CASE s.grabWaiters # {}
    <3>1. W = {w} /\ w \in Clients /\ u = AttendClients(m, {w})
      BY <1>3, <2>2
    <3>2. /\ m \in ServerTypes /\ m.client = l.client /\ m.fate = l.fate
          /\ m.buffered = l.buffered /\ m.grabWaiters = l.grabWaiters \ {w}
          /\ SameGrab(l, m)
      BY <1>2 DEF ServerTypes, SameGrab
    <3>3. SameSets(l, m)
      BY <1>2 DEF ServerTypes, SameSets
    <3> HIDE DEF m, W, u
    <3> DEFINE fds == {Fd(m, c) : c \in {w}}
               barred == {Fd(m, c) : c \in {d \in {w} : Barred(m, d)}}
               heard == fds \ barred
    <3>4. barred = {} /\ heard = fds /\ fds = {Fd(s, c) : c \in W}
      BY <1>2, <3>1, <3>2 DEF Barred, SameGrab, Fd
    <3>5. /\ u \in ServerTypes
          /\ u.client = m.client /\ u.buffered = m.buffered /\ u.grabWaiters = m.grabWaiters
          /\ SameGrab(m, u) /\ u.fate = m.fate
          /\ u.GrabImperviousClients = m.GrabImperviousClients
          /\ u.AllClients = m.AllClients \cup heard
          /\ u.ClientsWithInput
               = m.ClientsWithInput \cup (m.IgnoredClientsWithInput \cap heard)
          /\ u.SavedAllClients = m.SavedAllClients \cup barred
          /\ u.SavedClientsWithInput
               = m.SavedClientsWithInput \cup (m.IgnoredClientsWithInput \cap barred)
          /\ u.IgnoredClientsWithInput = m.IgnoredClientsWithInput
      <4> HIDE DEF fds, barred
      <4>1. {w} \in SUBSET Clients
        BY <3>1
      <4> QED BY <3>1, <3>2, <4>1, AttendClientsDoes DEF fds, barred
    <3> HIDE DEF fds, barred
    <3>6. /\ u.client = s.client /\ u.fate = "sound"
          /\ u.buffered = s.buffered /\ u.grabWaiters = s.grabWaiters \ W
          /\ u.GrabInProgress = 0 /\ u.grabState = "GrabNone" /\ u.grabClient = 0
      BY <1>2, <3>1, <3>2, <3>5 DEF SameGrab, SameRest
    <3>7. /\ u.GrabImperviousClients = s.GrabImperviousClients
          /\ u.SavedAllClients = {} /\ u.SavedClientsWithInput = {}
      BY <1>2, <3>3, <3>4, <3>5 DEF SameSets
    <3>8. \A n : /\ n \in u.AllClients <=>
                      n \in s.AllClients \cup s.SavedAllClients \cup fds
                 /\ n \in u.ClientsWithInput <=>
                      \/ n \in s.ClientsWithInput \cup s.SavedClientsWithInput
                      \/ n \in s.IgnoredClientsWithInput /\ n \in fds
                 /\ n \in u.IgnoredClientsWithInput <=> n \in s.IgnoredClientsWithInput
      BY <1>2, <3>3, <3>4, <3>5 DEF SameSets
    <3> QED BY <3>4, <3>5, <3>6, <3>7, <3>8
  <2> QED BY <2>1, <2>2
<1> HIDE DEF u, W
<1>5. \A c \in Clients : /\ Fd(u, c) = Fd(s, c) /\ (Running(u, c) <=> Running(s, c))
                         /\ u.client[c] = s.client[c] /\ u.buffered[c] = s.buffered[c]
                         /\ ~Barred(u, c)
                         /\ (~Ignored(s, c) => ~Ignored(u, c))
  BY <1>4 DEF Fd, Running, Ignored, Barred
<1>6. /\ t \in ServerTypes /\ t.client = s.client /\ t.buffered = s.buffered
      /\ \A c \in Clients : ~Ignored(s, c) => ~Ignored(t, c)
  <2>1. CASE disturbed = {}
    BY <1>1, <1>4, <1>5, <2>1
  <2>2. CASE disturbed # {}
    <3>1. t = Wrong(u, "IgnoredClientHeard")
      BY <1>1, <2>2
    <3>2. t = [u EXCEPT !.fate = "IgnoredClientHeard"]
      BY <1>4, <3>1 DEF Wrong
    <3>3. t \in ServerTypes /\ t.client = u.client /\ t.buffered = u.buffered
          /\ t.grabWaiters = u.grabWaiters
      BY <1>4, <3>2 DEF ServerTypes
    <3> QED BY <1>4, <1>5, <3>3 DEF Ignored
  <2> QED BY <2>1, <2>2
<1>7. ASSUME t.fate = "sound"
      PROVE  Good(t) /\ Kept(s, t, Clients) /\ t.GrabInProgress = 0 /\ t.grabState = "GrabNone"
  <2>1. t = u /\ disturbed = {}
    BY <1>1, <1>4, <1>7, WrongDoes
  <2>2. ASSUME NEW c \in Clients, Running(s, c) PROVE Placed(u, c)
    <3>1. Placed(s, c) /\ ClientGood(s, c)
      BY <2>2 DEF Good, ClientGood
    <3>2. Fd(s, c) \in {Fd(s, d) : d \in W} <=> c \in W
      <4>1. \A d \in W : Running(s, d) /\ d \in Clients
        BY <1>3 DEF Good, ClientGood
      <4> QED BY <2>2, <4>1 DEF Good
    <3>3. Fd(s, c) \in u.AllClients => ~Ignored(u, c)
      BY <1>5, <2>1
    <3>4. c \in W => ~Ignored(u, c) /\ Ignored(s, c) /\ ~(c \in u.grabWaiters)
      BY <1>3, <1>4, <1>5, <3>1 DEF Ignored, ClientGood
    <3>5. c \notin W => (Ignored(u, c) <=> Ignored(s, c))
      BY <1>4, <1>5 DEF Ignored
    <3> QED BY <1>4, <1>5, <3>1, <3>2, <3>3, <3>4, <3>5 DEF Placed
  <2>3. \A c \in Clients : ClientGood(u, c)
    BY <1>4, <1>5, <2>2 DEF Good, ClientGood
  <2>4. \A c, d \in Clients : Running(u, c) /\ Running(u, d) /\ Fd(u, c) = Fd(u, d) => c = d
    BY <1>5 DEF Good
  <2>5. ASSUME NEW fd \in Heard(u) PROVE \E c \in Clients : Owns(u, c, fd)
    <3>1. fd \in Heard(s) \/ \E c \in W : fd = Fd(s, c)
      BY <1>4 DEF Heard
    <3>2. \A c \in W : c \in Clients /\ Running(s, c)
      BY <1>3 DEF Good, ClientGood
    <3>3. \E c \in Clients : Owns(s, c, fd)
      BY <3>1, <3>2 DEF Good, Owns
    <3> QED BY <1>5, <3>3 DEF Owns
  <2>6. GrabGood(u)
    BY <1>4 DEF GrabGood
  <2>7. Good(u)
    BY <2>3, <2>4, <2>5, <2>6 DEF Good
  <2>8. Kept(s, u, Clients)
    BY <1>5 DEF Kept, MayServe
  <2> QED BY <1>4, <2>1, <2>7, <2>8
<1> QED BY <1>6, <1>7 DEF t

-----------------------------------------------------------------------------
(* Clients that go.                                                          *)

LEMMA CloseDownFileDescriptorDoes ==
  ASSUME NEW s \in ServerTypes, NEW fd \in Numbers
  PROVE  LET t == CloseDownFileDescriptor(s, fd)
         IN  /\ t \in ServerTypes /\ t.client = s.client /\ SameGrab(s, t) /\ t.fate = s.fate
             /\ SameRest(s, t)
             /\ \A n \in Numbers \ {fd} : SameAt(s, t, n)
             /\ (s.GrabInProgress = 0 => s.SavedAllClients = {} /\ s.SavedClientsWithInput = {})
                  => /\ fd \notin Heard(t)
                     /\ s.GrabInProgress = 0 =>
                          t.SavedAllClients = {} /\ t.SavedClientsWithInput = {}
<1> DEFINE t == CloseDownFileDescriptor(s, fd)
           saved == IF s.GrabInProgress # 0 THEN {fd} ELSE {}
<1>1. t = [s EXCEPT !.AllClients = @ \ {fd}, !.ClientsWithInput = @ \ {fd},
                !.GrabImperviousClients = @ \ {fd},
                !.SavedAllClients = @ \ saved, !.SavedClientsWithInput = @ \ saved]
  BY DEF CloseDownFileDescriptor
<1> HIDE DEF t, saved
<1>2. t \in ServerTypes /\ t.client = s.client /\ t.fate = s.fate
  BY <1>1 DEF ServerTypes
<1>3. SameGrab(s, t) /\ SameRest(s, t)
  BY <1>1 DEF ServerTypes, SameGrab, SameRest
<1>4. /\ t.AllClients = s.AllClients \ {fd} /\ t.ClientsWithInput = s.ClientsWithInput \ {fd}
      /\ t.GrabImperviousClients = s.GrabImperviousClients \ {fd}
      /\ t.IgnoredClientsWithInput = s.IgnoredClientsWithInput
      /\ t.SavedAllClients = s.SavedAllClients \ saved
      /\ t.SavedClientsWithInput = s.SavedClientsWithInput \ saved
  BY <1>1 DEF ServerTypes
<1>5. \A n \in Numbers \ {fd} : SameAt(s, t, n)
  BY <1>4 DEF SameAt, saved
<1>6. (s.GrabInProgress = 0 => s.SavedAllClients = {} /\ s.SavedClientsWithInput = {})
        => /\ fd \notin Heard(t)
           /\ s.GrabInProgress = 0 => t.SavedAllClients = {} /\ t.SavedClientsWithInput = {}
  BY <1>4 DEF Heard, saved
<1> QED BY <1>2, <1>3, <1>5, <1>6 DEF t

(* The clients that remain are neither ignored nor barred on that account.   *)
Spared(s, t, C) ==
  \A c \in C : Running(t, c) => /\ ~Ignored(s, c) => ~Ignored(t, c)
                                /\ ~Barred(s, c) => ~Barred(t, c)

LEMMA DisconnectedDoes ==
  ASSUME NEW s \in ServerTypes, NEW c \in Clients, Good(s), s.fate = "sound", Running(s, c)
  PROVE  LET t == Disconnected(s, c)
         IN  /\ t \in ServerTypes /\ Gone(t, c)
             /\ \A d \in Clients \ {c} : t.client[d] = s.client[d]
             /\ t.fate = "sound" => Good(t) /\ Kept(s, t, Clients) /\ Spared(s, t, Clients)
<1> DEFINE u == IF s.grabState # "GrabNone" /\ s.grabClient = c THEN UngrabServer(s) ELSE s
           fd == Fd(s, c)
           y == [u.client[c] EXCEPT !.state = "gone", !.waits = IF @ = "asked" THEN "told" ELSE @]
           x == [y EXCEPT !.open = FALSE, !.fd = 0, !.repeats = "no"]
           v == [u EXCEPT !.grabWaiters = @ \ {c}, !.client[c] = y]
           w == [v EXCEPT !.client[c] = x, !.buffered[c] = 0]
           t == Disconnected(s, c)
<1>1. fd \in Fds /\ fd \in Numbers /\ GrabGood(s)
  BY DEF Good, ClientGood, Numbers
<1>2. /\ u \in ServerTypes /\ u.client = s.client /\ u.buffered = s.buffered
      /\ \A d \in Clients : ~Ignored(s, d) => ~Ignored(u, d)
      /\ u.fate = "sound" => /\ Good(u) /\ Kept(s, u, Clients)
                             /\ u.GrabInProgress # c
                             /\ u = s \/ (u.GrabInProgress = 0)
  <2>1. CASE s.grabState # "GrabNone" /\ s.grabClient = c
    <3>1. u = UngrabServer(s)
      BY <2>1
    <3>2. c # 0
      BY DEF Clients
    <3> HIDE DEF u
    <3> QED BY <3>1, <3>2, UngrabDoes
  <2>2. CASE ~(s.grabState # "GrabNone" /\ s.grabClient = c)
    <3>1. u = s
      BY <2>2
    <3>2. s.GrabInProgress # c
      BY <1>1, <2>2 DEF GrabGood, Clients
    <3> HIDE DEF u
    <3> QED BY <3>1, <3>2 DEF Kept
  <2> QED BY <2>1, <2>2
<1>3. t = CloseDownFileDescriptor(w, fd)
  <2>1. u.client[c] \in ClientTypes /\ DOMAIN u.client = Clients
    BY <1>2 DEF ServerTypes
  <2>2. v.client[c] = y /\ Fd(v, c) = fd
    <3>1. v.client[c] = y
      <4> HIDE DEF y
      <4> QED BY <1>2 DEF ServerTypes
    <3>2. y.fd = u.client[c].fd
      BY <2>1 DEF ClientTypes
    <3> QED BY <1>2, <3>1, <3>2 DEF Fd
  <2>3. t = CloseDownConnection(v, c)
    BY DEF Disconnected
  <2>4. CloseDownConnection(v, c) = CloseDownFileDescriptor(w, Fd(v, c))
    BY <2>2 DEF CloseDownConnection
  <2> QED BY <2>2, <2>3, <2>4
<1> HIDE DEF u, t
<1>4. /\ y \in ClientTypes /\ x \in ClientTypes
      /\ x.state = "gone" /\ ~x.open /\ x.fd = 0 /\ y.waits # "asked"
  <2>1. u.client[c] \in ClientTypes
    BY <1>2 DEF ServerTypes
  <2>2. y \in ClientTypes /\ y.state = "gone"
    BY <2>1 DEF ClientTypes
  <2>3. y.waits # "asked"
    BY <2>1 DEF ClientTypes
  <2> HIDE DEF y
  <2> QED BY <2>2, <2>3 DEF ClientTypes, Numbers
<1> HIDE DEF y, x
<1>5. /\ v \in ServerTypes /\ v.grabWaiters = u.grabWaiters \ {c}
      /\ v.buffered = u.buffered /\ v.fate = u.fate /\ v.workQueue = u.workQueue
      /\ \A d \in Clients \ {c} : v.client[d] = u.client[d]
  BY <1>2, <1>4 DEF ServerTypes
<1>6. SameGrab(u, v)
  BY <1>2, <1>4 DEF ServerTypes, SameGrab
<1>7. SameSets(u, v)
  BY <1>2, <1>4 DEF ServerTypes, SameSets
<1> HIDE DEF v
<1>8. /\ w \in ServerTypes /\ w.grabWaiters = v.grabWaiters /\ w.fate = v.fate
      /\ w.client[c] = x /\ w.buffered[c] = 0
      /\ \A d \in Clients \ {c} : w.client[d] = v.client[d] /\ w.buffered[d] = v.buffered[d]
  <2>1. 0 \in 0 .. Capacity
    BY DispatchAssumption
  <2> QED BY <1>4, <1>5, <2>1 DEF ServerTypes
<1>9. SameGrab(v, w)
  BY <1>5 DEF ServerTypes, SameGrab
<1>10. SameSets(v, w)
  BY <1>5 DEF ServerTypes, SameSets
<1> HIDE DEF w, fd
<1>11. /\ t \in ServerTypes /\ t.client = w.client /\ SameGrab(w, t) /\ t.fate = w.fate
       /\ SameRest(w, t)
       /\ \A n \in Numbers \ {fd} : SameAt(w, t, n)
       /\ (w.GrabInProgress = 0 => w.SavedAllClients = {} /\ w.SavedClientsWithInput = {})
            => /\ fd \notin Heard(t)
               /\ w.GrabInProgress = 0 => t.SavedAllClients = {} /\ t.SavedClientsWithInput = {}
  BY <1>1, <1>3, <1>8, CloseDownFileDescriptorDoes
<1>12. \A d \in Clients \ {c} : SameClient(u, t, d) /\ t.client[d] = s.client[d]
  BY <1>2, <1>5, <1>8, <1>11 DEF SameClient, SameRest
<1>13. \A n \in Numbers \ {fd} : SameAt(u, t, n)
  BY <1>7, <1>10, <1>11 DEF SameAt, SameSets
<1>14. SameGrab(u, t) /\ t.fate = u.fate
  BY <1>5, <1>6, <1>8, <1>9, <1>11 DEF SameGrab
<1>15. /\ t.client[c].state = "gone" /\ ~t.client[c].open /\ t.client[c].fd = 0
       /\ t.buffered[c] = 0 /\ c \notin t.grabWaiters
  BY <1>4, <1>5, <1>8, <1>11 DEF SameRest
<1>16. ASSUME t.fate = "sound"
       PROVE  Good(t) /\ Kept(s, t, Clients) /\ Spared(s, t, Clients)
  <2>1. Good(u) /\ Kept(s, u, Clients) /\ u.GrabInProgress # c /\ GrabGood(u)
    BY <1>2, <1>14, <1>16 DEF Good
  <2>2. fd \notin Heard(t)
        /\ (t.GrabInProgress = 0 => t.SavedAllClients = {} /\ t.SavedClientsWithInput = {})
    <3>1. w.GrabInProgress = 0 => w.SavedAllClients = {} /\ w.SavedClientsWithInput = {}
      BY <1>6, <1>7, <1>9, <1>10, <2>1 DEF SameGrab, SameSets, GrabGood
    <3> QED BY <1>11, <3>1 DEF SameGrab
  <2>3. GrabGood(t)
    <3>1. t.GrabInProgress \in Clients \cup {0}
      BY <1>11 DEF ServerTypes
    <3>2. \A d \in Clients \ {c} : Running(u, d) <=> Running(t, d)
      BY <1>12 DEF SameClient, Running
    <3> QED BY <1>14, <2>1, <2>2, <3>1, <3>2 DEF GrabGood, SameGrab
  <2>4. Running(u, c) /\ Fd(u, c) = fd
    BY <1>2 DEF Running, Fd, fd
  <2>5. \A d \in Clients \ {c} : Fd(u, d) # fd /\ Fd(u, d) \in Numbers
    <3>1. \A d \in Clients \ {c} : ~Running(u, d) => Fd(u, d) = 0
      BY <2>1 DEF Good, ClientGood
    <3>2. 0 \notin Fds
      BY DEF Fds
    <3> QED BY <1>1, <1>2, <2>1, <2>4, <3>1, <3>2, FdType DEF Good
  <2>6. Outside(u, t, {c}, {fd})
    BY <1>1, <1>12, <1>13, <1>14, <2>4, <2>5 DEF Outside, SameGrab
  <2>7. ClientGood(t, c)
    BY <1>15 DEF ClientGood, Running, Fd
  <2>8. Inside(t, {c}, {fd})
    BY <1>15, <2>2, <2>7 DEF Inside, Running
  <2>9. {c} \in SUBSET Clients /\ {fd} \in SUBSET Fds
    BY <1>1
  <2>10. Good(t)
    BY <1>2, <1>11, <2>1, <2>3, <2>6, <2>8, <2>9, Changed
  <2>11. ASSUME NEW d \in Clients \ {c}
         PROVE  /\ Running(t, d) <=> Running(u, d)
                /\ Ignored(t, d) <=> Ignored(u, d)
                /\ Barred(t, d) <=> Barred(u, d)
    <3>1. SameAt(u, t, Fd(u, d)) /\ SameClient(u, t, d) /\ Fd(t, d) = Fd(u, d)
      BY <1>12, <1>13, <2>5 DEF SameClient, Fd
    <3> QED BY <1>14, <3>1 DEF SameAt, SameClient, SameGrab, Running, Ignored, Barred
  <2>12. ~Running(t, c)
    BY <1>15 DEF Running
  <2>13. Kept(s, t, Clients)
    BY <1>14, <2>1, <2>11, <2>12 DEF Kept, MayServe, SameGrab
  <2>14. Spared(s, t, Clients)
    <3>1. \A d \in Clients : ~Barred(s, d) => ~Barred(u, d)
      BY <1>2, <1>14, <1>16 DEF Barred
    <3> QED BY <1>2, <2>11, <2>12, <3>1 DEF Spared
  <2> QED BY <2>10, <2>13, <2>14
<1> QED BY <1>11, <1>12, <1>15, <1>16 DEF t, Gone

(* If nothing but the work queue and the state of clients that are not       *)
(* connected changes, the sets stay as good as they were.                    *)
LEMMA SetsKeepGood ==
  ASSUME NEW s \in ServerTypes, NEW t \in ServerTypes, NEW C \in SUBSET Clients,
         SameSets(s, t), SameGrab(s, t), t.buffered = s.buffered, t.grabWaiters = s.grabWaiters,
         \A d \in Clients \ C : t.client[d] = s.client[d],
         \A c \in C : ~Running(s, c) /\ t.client[c] = NullClient
  PROVE  /\ Good(s) => Good(t)
         /\ Kept(s, t, Clients) /\ Spared(s, t, Clients)
<1>1. ASSUME Good(s) PROVE Good(t)
  <2>1. \A c \in C : ClientGood(t, c)
    BY <1>1 DEF Good, ClientGood, NullClient, Running, Fd
  <2>2. \A c \in C : ~Running(t, c)
    BY DEF Running, NullClient
  <2>3. Outside(s, t, C, {})
    BY SameSetsAt DEF Outside, SameClient, SameGrab
  <2>4. Inside(t, C, {})
    BY <2>1, <2>2 DEF Inside
  <2>5. GrabGood(t)
    <3>1. t.GrabInProgress \in Clients \cup {0}
      BY DEF ServerTypes
    <3> QED BY <1>1, <3>1 DEF Good, GrabGood, SameGrab, SameSets, Running
  <2>6. {} \in SUBSET Fds
    OBVIOUS
  <2> QED BY <1>1, <2>3, <2>4, <2>5, <2>6, Changed
<1>2. ASSUME NEW c \in Clients, Running(t, c)
      PROVE  Running(s, c) /\ (Ignored(t, c) <=> Ignored(s, c)) /\ (Barred(t, c) <=> Barred(s, c))
  <2>1. c \notin C
    BY <1>2 DEF Running, NullClient
  <2> QED BY <1>2, <2>1 DEF Running, Ignored, Barred, SameGrab, SameSets, Fd
<1>3. Kept(s, t, Clients)
  BY <1>2 DEF Kept, MayServe, SameGrab
<1>4. Spared(s, t, Clients)
  BY <1>2 DEF Spared
<1> QED BY <1>1, <1>3, <1>4

LEMMA QueueDoes ==
  ASSUME NEW s \in ServerTypes, NEW w \in Clients \cup {0}
  PROVE  LET t == QueueWorkProc(s, w)
         IN  /\ t \in ServerTypes /\ t.client = s.client /\ t.fate = s.fate
             /\ SameSets(s, t)
             /\ Good(s) => Good(t)
             /\ Kept(s, t, Clients) /\ Spared(s, t, Clients)
<1> DEFINE t == QueueWorkProc(s, w)
<1>1. s.workQueue \in Seq(Clients \cup {0})
  BY DEF ServerTypes
<1>2. Append(s.workQueue, w) \in Seq(Clients \cup {0})
  BY <1>1
<1>3. /\ t \in ServerTypes /\ t.client = s.client /\ t.fate = s.fate
      /\ t.buffered = s.buffered /\ t.grabWaiters = s.grabWaiters
  BY <1>2 DEF QueueWorkProc, ServerTypes
<1>4. SameGrab(s, t)
  BY DEF QueueWorkProc, ServerTypes, SameGrab
<1>5. SameSets(s, t)
  BY DEF QueueWorkProc, ServerTypes, SameSets
<1> HIDE DEF t
<1>6. (Good(s) => Good(t)) /\ Kept(s, t, Clients) /\ Spared(s, t, Clients)
  <2>1. {} \in SUBSET Clients
    OBVIOUS
  <2>2. \A d \in Clients \ {} : t.client[d] = s.client[d]
    BY <1>3
  <2>3. \A c \in {} : ~Running(s, c) /\ t.client[c] = NullClient
    OBVIOUS
  <2> QED BY <1>3, <1>4, <1>5, <2>1, <2>2, <2>3, SetsKeepGood
<1> QED BY <1>3, <1>5, <1>6 DEF t

LEMMA NullClientType == NullClient \in ClientTypes
BY DEF NullClient, ClientTypes, Numbers

LEMMA FreeDoes ==
  ASSUME NEW s \in ServerTypes, NEW c \in Clients, ~Running(s, c)
  PROVE  LET t == [s EXCEPT !.client[c] = NullClient]
         IN  /\ t \in ServerTypes /\ t.fate = s.fate /\ ~Running(t, c)
             /\ \A d \in Clients \ {c} : t.client[d] = s.client[d]
             /\ Good(s) => Good(t)
             /\ Kept(s, t, Clients) /\ Spared(s, t, Clients)
<1> DEFINE t == [s EXCEPT !.client[c] = NullClient]
<1>1. /\ t \in ServerTypes
      /\ t.client[c] = NullClient /\ \A d \in Clients \ {c} : t.client[d] = s.client[d]
      /\ SameGrab(s, t) /\ t.fate = s.fate /\ SameRest(s, t) /\ SameSets(s, t)
  BY NullClientType, ClientSet
<1> HIDE DEF t
<1>2. (Good(s) => Good(t)) /\ Kept(s, t, Clients) /\ Spared(s, t, Clients)
  <2>1. {c} \in SUBSET Clients
    OBVIOUS
  <2>2. \A d \in {c} : ~Running(s, d) /\ t.client[d] = NullClient
    BY <1>1
  <2> QED BY <1>1, <2>1, <2>2, SetsKeepGood DEF SameRest
<1>3. ~Running(t, c)
  BY <1>1 DEF Running, NullClient
<1> QED BY <1>1, <1>2, <1>3 DEF t

LEMMA KeptSparedTransitive ==
  ASSUME NEW s, NEW t, NEW u, NEW C, Kept(s, t, C), Kept(t, u, C),
         Spared(s, t, C), Spared(t, u, C), \A c \in C : Running(u, c) => Running(t, c)
  PROVE  Kept(s, u, C) /\ Spared(s, u, C)
BY DEF Kept, Spared

LEMMA CloseDownClientDoes ==
  ASSUME NEW s \in ServerTypes, NEW c \in Clients, Good(s), s.fate = "sound",
         s.client[c].state # "none"
  PROVE  LET t == CloseDownClient(s, c)
         IN  /\ t \in ServerTypes /\ ~Running(t, c)
             /\ \A d \in Clients \ {c} : t.client[d] = s.client[d]
             /\ t.fate = "sound" => Good(t) /\ Kept(s, t, Clients) /\ Spared(s, t, Clients)
<1> DEFINE u == IF Gone(s, c) THEN s ELSE Disconnected(s, c)
           t == CloseDownClient(s, c)
<1>1. s.client[c].state \in {"none", "running", "gone"}
  BY DEF ServerTypes, ClientTypes
<1>2. /\ u \in ServerTypes /\ Gone(u, c) /\ ~Running(u, c)
      /\ \A d \in Clients \ {c} : u.client[d] = s.client[d]
      /\ u.fate = "sound" => Good(u) /\ Kept(s, u, Clients) /\ Spared(s, u, Clients)
  <2>1. CASE Gone(s, c)
    BY <2>1 DEF Kept, Spared, Gone, Running
  <2>2. CASE ~Gone(s, c)
    BY <1>1, <2>2, DisconnectedDoes DEF Running, Gone
  <2> QED BY <2>1, <2>2
<1> HIDE DEF u
<1>3. \/ t = u
      \/ t = QueueWorkProc(u, c)
      \/ t = [u EXCEPT !.client[c] = NullClient]
  BY DEF CloseDownClient, ClientSignal, u
<1> HIDE DEF t
<1>4. /\ t \in ServerTypes /\ ~Running(t, c) /\ t.fate = u.fate
      /\ \A d \in Clients \ {c} : t.client[d] = u.client[d]
      /\ Good(u) => Good(t)
      /\ Kept(u, t, Clients) /\ Spared(u, t, Clients)
  <2>1. CASE t = u
    BY <1>2, <2>1 DEF Kept, Spared
  <2>2. CASE t = QueueWorkProc(u, c)
    BY <1>2, <2>2, QueueDoes DEF Running
  <2>3. CASE t = [u EXCEPT !.client[c] = NullClient]
    BY <1>2, <2>3, FreeDoes
  <2> QED BY <1>3, <2>1, <2>2, <2>3
<1>5. \A d \in Clients : Running(t, d) => Running(u, d)
  BY <1>4 DEF Running
<1>6. t.fate = "sound" => Good(t) /\ Kept(s, t, Clients) /\ Spared(s, t, Clients)
  BY <1>2, <1>4, <1>5, KeptSparedTransitive
<1> QED BY <1>2, <1>4, <1>6 DEF t

(* From unsound data a client may still be closed down: they keep their      *)
(* types and stay unsound.                                                   *)
Unsound(s) == s \in ServerTypes /\ s.fate # "sound"

LEMMA UnsoundUngrab ==
  ASSUME NEW s, Unsound(s)
  PROVE  Unsound(UngrabServer(s))
<1> DEFINE a == [s EXCEPT !.grabState = "GrabNone", !.grabClient = 0]
           l == ListenToAllClients(a)
           w == Min(s.grabWaiters)
           m == [l EXCEPT !.grabWaiters = @ \ {w}]
           u == IF s.grabWaiters = {} THEN l ELSE AttendClients(m, {w})
<1>1. Unsound(a) /\ a.grabWaiters = s.grabWaiters
  BY DEF ServerTypes, Unsound
<1> HIDE DEF a
<1>2. Unsound(l)
  BY <1>1 DEF ListenToAllClients, ServerTypes, Unsound
<1> HIDE DEF l
<1>3. Unsound(m)
  BY <1>2 DEF ServerTypes, Unsound
<1> HIDE DEF m
<1>4. CASE s.grabWaiters = {}
  <2>1. Unsound(u)
    BY <1>2, <1>4
  <2> HIDE DEF u
  <2> QED BY <2>1 DEF UngrabServer, Wrong, Unsound, u, m, l, a, AttendClient
<1>5. CASE s.grabWaiters # {}
  <2>1. {w} \in SUBSET Clients
    BY <1>5, MinIn DEF Unsound, ServerTypes
  <2>2. Unsound(AttendClients(m, {w}))
    BY <1>3, <2>1, AttendClientsDoes DEF Unsound
  <2>3. Unsound(u)
    BY <1>5, <2>2
  <2> HIDE DEF u
  <2> QED BY <2>3 DEF UngrabServer, Wrong, Unsound, u, m, l, a, AttendClient
<1> QED BY <1>4, <1>5

LEMMA UnsoundClosed ==
  ASSUME NEW s, Unsound(s), NEW c \in Clients
  PROVE  Unsound(CloseDownClient(s, c))
<1> DEFINE u == IF s.grabState # "GrabNone" /\ s.grabClient = c THEN UngrabServer(s) ELSE s
           y == [u.client[c] EXCEPT !.state = "gone", !.waits = IF @ = "asked" THEN "told" ELSE @]
           v == [u EXCEPT !.grabWaiters = @ \ {c}, !.client[c] = y]
           x == [v.client[c] EXCEPT !.open = FALSE, !.fd = 0, !.repeats = "no"]
           w == [v EXCEPT !.client[c] = x, !.buffered[c] = 0]
           t == IF Gone(s, c) THEN s ELSE Disconnected(s, c)
<1>1. Unsound(u)
  BY UnsoundUngrab
<1>2. Disconnected(s, c) = CloseDownConnection(v, c)
  BY DEF Disconnected
<1> HIDE DEF u
<1>3. y \in ClientTypes
  <2>1. u.client[c] \in ClientTypes
    BY <1>1 DEF Unsound, ServerTypes
  <2> QED BY <2>1 DEF ClientTypes
<1> HIDE DEF y
<1>4. Unsound(v)
  BY <1>1, <1>3 DEF Unsound, ServerTypes
<1>5. CloseDownConnection(v, c) = CloseDownFileDescriptor(w, Fd(v, c))
  BY DEF CloseDownConnection
<1> HIDE DEF v
<1>6. x \in ClientTypes
  <2>1. v.client[c] \in ClientTypes
    BY <1>4 DEF Unsound, ServerTypes
  <2> QED BY <2>1 DEF ClientTypes, Numbers
<1> HIDE DEF x
<1>7. Unsound(w)
  <2>1. 0 \in 0 .. Capacity
    BY DispatchAssumption
  <2> QED BY <1>4, <1>6, <2>1 DEF Unsound, ServerTypes
<1> HIDE DEF w
<1>8. Unsound(Disconnected(s, c))
  <2>1. Fd(v, c) \in Numbers
    BY <1>4, FdType DEF Unsound
  <2> QED BY <1>2, <1>5, <1>7, <2>1, CloseDownFileDescriptorDoes DEF Unsound
<1>9. Unsound(t)
  BY <1>8
<1>10. CloseDownClient(s, c) \in {t, QueueWorkProc(t, c), [t EXCEPT !.client[c] = NullClient]}
  BY DEF CloseDownClient, ClientSignal
<1> HIDE DEF t
<1>11. Unsound(QueueWorkProc(t, c))
  BY <1>9, QueueDoes DEF Unsound
<1>12. Unsound([t EXCEPT !.client[c] = NullClient])
  BY <1>9, NullClientType DEF Unsound, ServerTypes
<1> QED BY <1>9, <1>10, <1>11, <1>12

LEMMA FailDoes ==
  ASSUME NEW s \in ServerTypes, NEW failing \in SUBSET Clients
  PROVE  LET t == Fail(s, failing)
         IN  /\ t \in ServerTypes /\ t.fate = s.fate /\ SameGrab(s, t)
             /\ t.buffered = s.buffered
             /\ \A c \in Clients : /\ Fd(t, c) = Fd(s, c) /\ (Running(t, c) <=> Running(s, c))
                                   /\ (Ignored(t, c) <=> Ignored(s, c))
                                   /\ (Barred(t, c) <=> Barred(s, c))
             /\ Kept(s, t, Clients)
             /\ Good(s) /\ (\A c \in failing : s.client[c].open) => Good(t)
<1> DEFINE t == Fail(s, failing)
           shut == [c \in Clients |-> IF c \in failing THEN [s.client[c] EXCEPT !.open = FALSE]
                                      ELSE s.client[c]]
<1>1. t = [s EXCEPT !.client = shut]
  BY DEF Fail
<1>2. \A c \in Clients : s.client[c] \in ClientTypes
  BY DEF ServerTypes
<1>3. \A c \in Clients : /\ shut[c] \in ClientTypes /\ shut[c].state = s.client[c].state
                         /\ shut[c].fd = s.client[c].fd /\ shut[c].waits = s.client[c].waits
                         /\ c \notin failing => shut[c] = s.client[c]
                         /\ shut[c].open => s.client[c].open
  BY <1>2 DEF ClientTypes
<1>4. shut \in [Clients -> ClientTypes]
  BY <1>3
<1> HIDE DEF t, shut
<1>5. /\ t \in ServerTypes /\ t.fate = s.fate /\ t.client = shut
      /\ t.buffered = s.buffered /\ t.grabWaiters = s.grabWaiters
  BY <1>1, <1>4 DEF ServerTypes
<1>6. SameGrab(s, t)
  BY <1>1 DEF ServerTypes, SameGrab
<1>7. SameSets(s, t)
  BY <1>1 DEF ServerTypes, SameSets
<1>8. \A c \in Clients : /\ Fd(t, c) = Fd(s, c) /\ (Running(t, c) <=> Running(s, c))
                         /\ (Ignored(t, c) <=> Ignored(s, c))
                         /\ (Barred(t, c) <=> Barred(s, c))
  BY <1>3, <1>5, <1>6, <1>7 DEF Fd, Running, Ignored, Barred, SameGrab, SameSets
<1>9. ASSUME Good(s), \A c \in failing : s.client[c].open PROVE Good(t)
  <2>1. \A c \in failing : Running(s, c)
    BY <1>9 DEF Good, ClientGood
  <2>2. ASSUME NEW c \in Clients PROVE ClientGood(t, c)
    <3>1. ClientGood(s, c)
      BY <1>9 DEF Good
    <3>2. Running(s, c) => Placed(t, c)
      BY <1>5, <1>7, <1>8, <3>1 DEF ClientGood, Placed, SameSets
    <3>3. t.client[c].state = "none" => t.client[c] = s.client[c]
      BY <1>3, <1>5, <2>1 DEF Running
    <3>4. t.client[c].state = s.client[c].state /\ t.client[c].waits = s.client[c].waits
          /\ (t.client[c].open => s.client[c].open)
      BY <1>3, <1>5
    <3> QED BY <1>5, <1>8, <3>1, <3>2, <3>3, <3>4 DEF ClientGood
  <2>3. \A c, d \in Clients : Running(t, c) /\ Running(t, d) /\ Fd(t, c) = Fd(t, d) => c = d
    BY <1>8, <1>9 DEF Good
  <2>4. \A fd \in Heard(t) : \E c \in Clients : Owns(t, c, fd)
    BY <1>7, <1>8, <1>9 DEF Good, Heard, SameSets, Owns
  <2>5. GrabGood(t)
    <3>1. t.GrabInProgress \in Clients \cup {0}
      BY <1>5 DEF ServerTypes
    <3> QED BY <1>6, <1>7, <1>8, <1>9, <3>1 DEF Good, GrabGood, SameGrab, SameSets
  <2> QED BY <2>2, <2>3, <2>4, <2>5 DEF Good
<1>10. Kept(s, t, Clients)
  BY <1>6, <1>8 DEF Kept, MayServe, SameGrab
<1> QED BY <1>5, <1>6, <1>8, <1>9, <1>10 DEF t

-----------------------------------------------------------------------------
(* The turn of a client: each way that it may end, or go on.                 *)

LEMMA TurnStart ==
  ASSUME DispatchInv, Serving
  PROVE  Turn
BY DEF DispatchInv, Serving, Sound, LoopGood, Turn

LEMMA FlushKeepsGood ==
  ASSUME NEW s \in ServerTypes, NEW sockets, FlushAllOutput(s, sockets)
  PROVE  /\ server' \in ServerTypes /\ server'.fate = s.fate
         /\ \A c \in Clients : Running(server', c) <=> Running(s, c)
         /\ Good(s) => Good(server')
         /\ Kept(s, server', Clients)
<1>1. PICK failing \in SUBSET {c \in CanFail(s) : Fd(s, c) \notin s.ClientsWithInput} :
        BecomesWith(Fail(s, failing), sockets)
  BY DEF FlushAllOutput
<1>2. server' = Fail(s, failing)
  BY <1>1 DEF BecomesWith
<1>3. failing \in SUBSET Clients /\ \A c \in failing : s.client[c].open
  BY DEF CanFail
<1> QED BY <1>2, <1>3, FailDoes

LEMMA LoopTypesOf ==
  ASSUME NEW at \in {"wait", "pick", "serve", "check"}, NEW ready, ready \subseteq Fds \X Clients,
         NEW c \in Clients \cup {0}, loop' = [at |-> at, ready |-> ready, client |-> c]
  PROVE  LoopTypes'
BY DEF LoopTypes

LEMMA ServeDoes ==
  ASSUME NEW ready, ready \subseteq Fds \X Clients, Serve(ready)
  PROVE  /\ LoopTypes' /\ loop.at' \in {"wait", "pick"} /\ loop.ready' = ready
<1>1. CASE ready = {}
  <2>1. loop' = [at |-> "wait", ready |-> ready, client |-> 0]
    BY <1>1 DEF Serve
  <2> QED BY <2>1, LoopTypesOf
<1>2. CASE ready # {}
  <2>1. loop' = [at |-> "pick", ready |-> ready, client |-> 0]
    BY <1>2 DEF Serve
  <2> QED BY <2>1, LoopTypesOf
<1> QED BY <1>1, <1>2

LEMMA EndsKeeps ==
  ASSUME DispatchInv, Serving, NEW s, Harmless(s), NEW sockets, EndsWith(s, sockets)
  PROVE  DispatchInv'
<1>1. FlushAllOutput(s, sockets) /\ Serve(loop.ready) /\ s \in ServerTypes
  BY DEF EndsWith, Harmless
<1>2. /\ server' \in ServerTypes /\ server'.fate = s.fate
      /\ Good(s) => Good(server')
      /\ Kept(s, server', Clients)
  BY <1>1, FlushKeepsGood
<1>3. loop.ready \subseteq Fds \X Clients /\ LoopGood /\ loop.at = "serve"
  BY DEF DispatchInv, LoopTypes, Serving
<1>4. /\ LoopTypes' /\ loop.at' \in {"wait", "pick"} /\ loop.ready' = loop.ready
  BY <1>1, <1>3, ServeDoes
<1>5. ASSUME Sound' PROVE Good(server') /\ LoopGood'
  <2>1. s.fate = "sound"
    BY <1>2, <1>5 DEF Sound
  <2>2. Good(s) /\ Kept(server, s, Clients \ {me})
    BY <2>1 DEF Harmless
  <2>3. ASSUME NEW r \in loop.ready PROVE MayServe(server', r[2])
    <3>1. r[2] \in Clients \ {me} /\ MayServe(server, r[2])
      BY <1>3 DEF LoopGood
    <3> QED BY <1>2, <2>2, <3>1 DEF Kept
  <2>4. LoopGood'
    BY <1>3, <1>4, <2>3 DEF LoopGood
  <2> QED BY <1>2, <2>2, <2>4
<1> QED BY <1>2, <1>4, <1>5 DEF DispatchInv

LEMMA ClosedHarmless ==
  ASSUME Turn, NEW s, Harmless(s), NEW c \in Clients,
         s.fate = "sound" => s.client[c].state # "none"
  PROVE  /\ Harmless(CloseDownClient(s, c))
         /\ GoesOn(s) => GoesOn(CloseDownClient(s, c))
<1> DEFINE t == CloseDownClient(s, c)
<1>1. CASE s.fate # "sound"
  <2>1. Unsound(t)
    BY <1>1, UnsoundClosed DEF Unsound, Harmless
  <2> QED BY <2>1 DEF Unsound, Harmless, GoesOn
<1>2. CASE s.fate = "sound"
  <2>1. Good(s) /\ Kept(server, s, Clients \ {me}) /\ s \in ServerTypes
    BY <1>2 DEF Harmless
  <2>2. /\ t \in ServerTypes /\ ~Running(t, c)
        /\ \A d \in Clients \ {c} : t.client[d] = s.client[d]
        /\ t.fate = "sound" => Good(t) /\ Kept(s, t, Clients) /\ Spared(s, t, Clients)
    BY <1>2, <2>1, CloseDownClientDoes
  <2> HIDE DEF t
  <2>3. Harmless(t)
    BY <2>1, <2>2 DEF Harmless, Kept
  <2>4. GoesOn(s) => GoesOn(t)
    BY <1>2, <2>2 DEF GoesOn, Spared, Running, Turn
  <2> QED BY <2>3, <2>4 DEF t
<1> QED BY <1>1, <1>2

LEMMA GoOnKeeps ==
  ASSUME DispatchInv, Serving, NEW s, Harmless(s), GoesOn(s),
         s.fate = "sound" => Running(s, me),
         server' = s, UNCHANGED loop
  PROVE  DispatchInv'
<1>1. me' = me
  BY DEF me
<1>2. server' \in ServerTypes
  BY DEF Harmless
<1>3. LoopTypes'
  BY DEF DispatchInv, LoopTypes
<1>4. ASSUME Sound' PROVE Good(server') /\ LoopGood'
  <2>1. Good(s) /\ Kept(server, s, Clients \ {me}) /\ LoopGood /\ loop.at = "serve"
        /\ s.fate = "sound" /\ loop.ready \subseteq Fds \X Clients
    BY <1>4 DEF Sound, Harmless, DispatchInv, Serving, LoopTypes
  <2>2. me \in Clients /\ ~Ignored(s, me) /\ ~Barred(s, me)
    BY <2>1 DEF LoopGood, GoesOn
  <2>3. ASSUME NEW r \in loop.ready PROVE MayServe(s, r[2])
    <3>1. r[2] \in Clients \ {me} /\ MayServe(server, r[2])
      BY <2>1 DEF LoopGood
    <3> QED BY <2>1, <3>1 DEF Kept
  <2>4. LoopGood'
    BY <1>1, <2>1, <2>2, <2>3 DEF LoopGood
  <2> QED BY <2>1, <2>4
<1> QED BY <1>2, <1>3, <1>4 DEF DispatchInv

LEMMA DoneKeeps ==
  ASSUME DispatchInv, Serving, NEW s, Harmless(s), NEW yields \in BOOLEAN, yields \/ GoesOn(s),
         Done(s, yields)
  PROVE  DispatchInv'
<1>1. CASE Running(s, me) /\ ~s.client[me].open /\ Ends(CloseDownClient(s, me))
  <2>1. Turn
    BY TurnStart
  <2>2. Harmless(CloseDownClient(s, me))
    BY <1>1, <2>1, ClosedHarmless DEF Turn, Running
  <2> QED BY <1>1, <2>2, EndsKeeps DEF Ends
<1>2. CASE Ends(s)
  BY <1>2, EndsKeeps DEF Ends
<1>3. CASE ~yields /\ s.buffered[me] > 0 /\ Becomes(s) /\ UNCHANGED loop
  <2>1. s.fate = "sound" => Running(s, me)
    <3>1. me \in Clients
      BY DEF DispatchInv, Serving, LoopGood
    <3>2. Good(s) /\ ~Running(s, me) => s.buffered[me] = 0
      BY <3>1 DEF Good, ClientGood
    <3> QED BY <1>3, <3>2 DEF Harmless
  <2> QED BY <1>3, <2>1, GoOnKeeps DEF Becomes, BecomesWith
<1> QED BY <1>1, <1>2, <1>3 DEF Done

-----------------------------------------------------------------------------
(* What a client's turn may do keeps the invariant.                          *)

LEMMA StillHeard ==
  ASSUME Turn, NEW s \in ServerTypes, Local(server, s, me),
         s.client[me].waits = "no", me \notin s.grabWaiters,
         fdOfMe \in s.GrabImperviousClients <=> fdOfMe \in server.GrabImperviousClients,
         fdOfMe \in s.AllClients <=> fdOfMe \in server.AllClients,
         fdOfMe \in s.ClientsWithInput <=> s.buffered[me] > 0,
         fdOfMe \in s.SavedAllClients <=> fdOfMe \in server.SavedAllClients,
         fdOfMe \in s.SavedClientsWithInput <=> fdOfMe \in server.SavedClientsWithInput
  PROVE  Harmless(s) /\ GoesOn(s) /\ Running(s, me)
<1>1. Fd(s, me) = fdOfMe /\ Running(s, me) /\ SameGrab(server, s) /\ s.fate = server.fate
  BY DEF Turn, Local, Running, fdOfMe
<1>2. ~Ignored(s, me) /\ ~Barred(s, me)
  BY <1>1 DEF Turn, Ignored, Barred, SameGrab, fdOfMe
<1>3. ClientGood(s, me)
  BY <1>1, <1>2, TurnFacts DEF ClientGood, Placed, Running
<1>4. Harmless(s)
  BY <1>3, HarmlessLocal
<1> QED BY <1>1, <1>2, <1>4 DEF GoesOn

LEMMA ReadFailsKeeps ==
  ASSUME DispatchInv, ReadFails
  PROVE  DispatchInv'
<1>1. Serving /\ Turn
  BY TurnStart DEF ReadFails, Reads
<1>2. Harmless(server)
  BY <1>1 DEF Turn, Harmless, Kept
<1>3. Harmless(CloseDownClient(server, me))
  BY <1>1, <1>2, ClosedHarmless DEF Turn, Running
<1> QED BY <1>1, <1>3, EndsKeeps DEF ReadFails, Ends

LEMMA ReadPartKeeps ==
  ASSUME DispatchInv, ReadPartOfRequest
  PROVE  DispatchInv'
<1> DEFINE s == [server EXCEPT !.ClientsWithInput = @ \ {fdOfMe}]
<1>1. Serving /\ Turn /\ server.buffered[me] = 0 /\ EndsWith(s, SocketRead)
  BY TurnStart DEF ReadPartOfRequest, Reads
<1>2. server \in ServerTypes
  BY <1>1 DEF Turn
<1>3. /\ s \in ServerTypes /\ s.client = server.client /\ s.fate = server.fate
      /\ s.buffered = server.buffered /\ s.grabWaiters = server.grabWaiters
  BY <1>2 DEF ServerTypes
<1>4. SameGrab(server, s)
  BY <1>2 DEF ServerTypes, SameGrab
<1>5. /\ s.AllClients = server.AllClients
      /\ s.ClientsWithInput = server.ClientsWithInput \ {fdOfMe}
      /\ s.SavedAllClients = server.SavedAllClients
      /\ s.SavedClientsWithInput = server.SavedClientsWithInput
      /\ s.IgnoredClientsWithInput = server.IgnoredClientsWithInput
      /\ s.GrabImperviousClients = server.GrabImperviousClients
  BY <1>2 DEF ServerTypes
<1> HIDE DEF s
<1>6. \A n \in Numbers \ {fdOfMe} : SameAt(server, s, n)
  BY <1>5 DEF SameAt
<1>7. Local(server, s, me)
  BY <1>1, <1>3, <1>4, <1>6 DEF Local, SameClient, fdOfMe, Fd
<1>8. Harmless(s)
  BY <1>1, <1>3, <1>5, <1>7, TurnFacts, StillHeard
<1> QED BY <1>1, <1>8, EndsKeeps

LEMMA ReadSomeKeeps ==
  ASSUME DispatchInv, ReadSome
  PROVE  DispatchInv'
<1>1. Serving /\ Turn /\ UNCHANGED loop
  BY TurnStart DEF ReadSome, Reads
<1>2. PICK n \in 1 .. Capacity : server' = [server EXCEPT !.buffered[me] = n,
                                                          !.ClientsWithInput = @ \cup {fdOfMe}]
  BY DEF ReadSome
<1> DEFINE s == [server EXCEPT !.buffered[me] = n, !.ClientsWithInput = @ \cup {fdOfMe}]
<1>3. server \in ServerTypes /\ fdOfMe \in Numbers /\ me \in Clients
      /\ n \in 0 .. Capacity /\ n > 0
  BY <1>1, TurnFacts DEF Turn, Numbers
<1>4. /\ s \in ServerTypes /\ s.client = server.client /\ s.fate = server.fate
      /\ s.grabWaiters = server.grabWaiters
  BY <1>3 DEF ServerTypes
<1>5. s.buffered[me] = n /\ \A d \in Clients \ {me} : s.buffered[d] = server.buffered[d]
  BY <1>3 DEF ServerTypes
<1>6. SameGrab(server, s)
  BY <1>3 DEF ServerTypes, SameGrab
<1>7. /\ s.AllClients = server.AllClients
      /\ s.ClientsWithInput = server.ClientsWithInput \cup {fdOfMe}
      /\ s.SavedAllClients = server.SavedAllClients
      /\ s.SavedClientsWithInput = server.SavedClientsWithInput
      /\ s.IgnoredClientsWithInput = server.IgnoredClientsWithInput
      /\ s.GrabImperviousClients = server.GrabImperviousClients
  BY <1>3 DEF ServerTypes
<1>8. server' = s
  BY <1>2
<1> HIDE DEF s
<1>9. \A k \in Numbers \ {fdOfMe} : SameAt(server, s, k)
  BY <1>7 DEF SameAt
<1>10. Local(server, s, me)
  BY <1>1, <1>4, <1>5, <1>6, <1>9 DEF Local, SameClient, fdOfMe, Fd
<1>11. Harmless(s) /\ GoesOn(s) /\ Running(s, me)
  BY <1>1, <1>3, <1>4, <1>5, <1>7, <1>10, TurnFacts, StillHeard
<1> QED BY <1>1, <1>8, <1>11, GoOnKeeps

LEMMA RequestStart ==
  ASSUME DispatchInv, Request
  PROVE  Turn /\ Serving /\ server.buffered[me] > 0
BY TurnStart DEF Request

LEMMA OtherRequestKeeps ==
  ASSUME DispatchInv, OtherRequest
  PROVE  DispatchInv'
<1>1. Turn /\ Serving /\ server.buffered[me] > 0
  BY RequestStart DEF OtherRequest, Fresh, Repeats
<1>2. PICK failing \in SUBSET CanFail(server) : Done(Fail(Taken, failing), FALSE)
  BY DEF OtherRequest
<1> DEFINE s == Fail(Taken, failing)
<1>3. failing \in SUBSET Clients /\ \A c \in failing : server.client[c].open
  BY DEF CanFail
<1>4. /\ Taken \in ServerTypes /\ Good(Taken) /\ Kept(server, Taken, Clients \ {me})
      /\ Taken.fate = "sound" /\ ~Ignored(Taken, me) /\ ~Barred(Taken, me) /\ me \in Clients
  BY <1>1, TakenGood DEF Harmless, Turn
<1>5. \A c \in failing : Taken.client[c].open
  <2>1. \A c \in Clients \ {me} : Taken.client[c] = server.client[c]
    BY <1>1, TakenDoes DEF Turn, Local, SameClient
  <2>2. Taken.client[me].open = server.client[me].open
    BY <1>1, TakenDoes, TurnFacts DEF Turn, ClientTypes
  <2> QED BY <1>3, <2>1, <2>2
<1>6. /\ s \in ServerTypes /\ s.fate = Taken.fate
      /\ (Ignored(s, me) <=> Ignored(Taken, me)) /\ (Barred(s, me) <=> Barred(Taken, me))
      /\ Kept(Taken, s, Clients) /\ Good(s)
  BY <1>3, <1>4, <1>5, FailDoes
<1> HIDE DEF s
<1>7. Harmless(s) /\ GoesOn(s)
  BY <1>4, <1>6 DEF Harmless, GoesOn, Kept
<1> QED BY <1>1, <1>2, <1>7, DoneKeeps DEF s

LEMMA ProcGrabServerKeeps ==
  ASSUME DispatchInv, ProcGrabServer
  PROVE  DispatchInv'
<1>1. Turn /\ Serving /\ server.buffered[me] > 0
  BY RequestStart DEF ProcGrabServer, Fresh, Repeats
<1>2. CASE server.grabState # "GrabNone" /\ server.grabClient # me
  <2> DEFINE s == ResetCurrentRequest(Taken, me, "GrabServer")
             t == IgnoreClient([s EXCEPT !.grabWaiters = @ \cup {me}], me)
  <2>1. Done(t, TRUE)
    BY <1>2 DEF ProcGrabServer
  <2>2. Harmless(t)
    BY <1>1, WaitForServerHarmless
  <2> HIDE DEF t
  <2> QED BY <1>1, <2>1, <2>2, DoneKeeps
<1>3. CASE server.grabState = "GrabNone" \/ server.grabClient = me
  <2> DEFINE t == [OnlyListenToOneClient(Taken, me) EXCEPT !.grabState = "GrabKickout",
                                                           !.grabClient = me]
  <2>1. Done(t, FALSE)
    BY <1>3 DEF ProcGrabServer
  <2>2. Harmless(t) /\ GoesOn(t)
    BY <1>1, <1>3, GrabHarmless
  <2> HIDE DEF t
  <2> QED BY <1>1, <2>1, <2>2, DoneKeeps
<1> QED BY <1>2, <1>3

LEMMA ProcUngrabServerKeeps ==
  ASSUME DispatchInv, ProcUngrabServer
  PROVE  DispatchInv'
<1> DEFINE t == UngrabServer(Taken)
<1>1. Turn /\ Serving /\ server.buffered[me] > 0 /\ Done(t, FALSE)
  BY RequestStart DEF ProcUngrabServer, Fresh, Repeats
<1>2. /\ Taken \in ServerTypes /\ Good(Taken) /\ Kept(server, Taken, Clients \ {me})
      /\ Taken.fate = "sound" /\ ~Ignored(Taken, me) /\ me \in Clients
  BY <1>1, TakenGood DEF Harmless, Turn
<1>3. /\ t \in ServerTypes /\ ~Ignored(t, me)
      /\ t.fate = "sound" => Good(t) /\ Kept(Taken, t, Clients) /\ t.GrabInProgress = 0
  BY <1>2, UngrabDoes
<1> HIDE DEF t
<1>4. Harmless(t) /\ GoesOn(t)
  BY <1>2, <1>3 DEF Harmless, GoesOn, Kept, Barred
<1> QED BY <1>1, <1>4, DoneKeeps

LEMMA ProcOpenFontKeeps ==
  ASSUME DispatchInv, ProcOpenFont
  PROVE  DispatchInv'
<1> DEFINE t == [IgnoreClient(Taken, me) EXCEPT !.client[me].waits = "asked"]
<1>1. Turn /\ Serving /\ server.buffered[me] > 0 /\ Done(t, TRUE)
  BY RequestStart DEF ProcOpenFont, Fresh, Repeats
<1>2. Harmless(t)
  BY <1>1, OpenFontHarmless
<1> HIDE DEF t
<1> QED BY <1>1, <1>2, DoneKeeps

LEMMA ProcXTestFakeInputKeeps ==
  ASSUME DispatchInv, ProcXTestFakeInput
  PROVE  DispatchInv'
<1> DEFINE s == [IgnoreClient(Taken, me) EXCEPT !.client[me].waits = "time"]
           t == ResetCurrentRequest(s, me, "FakeInput")
<1>1. Turn /\ Serving /\ server.buffered[me] > 0 /\ Done(t, TRUE)
  BY RequestStart DEF ProcXTestFakeInput, Fresh, Repeats
<1>2. Harmless(t)
  BY <1>1, FakeInputHarmless
<1> HIDE DEF t
<1> QED BY <1>1, <1>2, DoneKeeps

LEMMA ProcXTestGrabControlKeeps ==
  ASSUME DispatchInv, ProcXTestGrabControl
  PROVE  DispatchInv'
<1>1. Turn /\ Serving /\ server.buffered[me] > 0
  BY RequestStart DEF ProcXTestGrabControl, Fresh, Repeats
<1>2. CASE Done(MakeClientGrabImpervious(Taken), FALSE)
  BY <1>1, <1>2, ImperviousHarmless, DoneKeeps
<1>3. CASE Done(MakeClientGrabPervious(Taken), server.GrabInProgress \notin {0, me})
  <2> DEFINE yields == server.GrabInProgress \notin {0, me}
  <2>1. yields \in BOOLEAN /\ Harmless(MakeClientGrabPervious(Taken))
        /\ (yields \/ GoesOn(MakeClientGrabPervious(Taken)))
    BY <1>1, PerviousHarmless
  <2>2. Done(MakeClientGrabPervious(Taken), yields)
    BY <1>3
  <2> HIDE DEF yields
  <2> QED BY <1>1, <2>1, <2>2, DoneKeeps
<1> QED BY <1>2, <1>3 DEF ProcXTestGrabControl

LEMMA ProcChangeCloseDownModeKeeps ==
  ASSUME DispatchInv, ProcChangeCloseDownMode
  PROVE  DispatchInv'
<1>1. Turn /\ Serving /\ server.buffered[me] > 0
  BY RequestStart DEF ProcChangeCloseDownMode, Fresh, Repeats
<1>2. PICK mode \in Modes : Done([Taken EXCEPT !.client[me].mode = mode], FALSE)
  BY DEF ProcChangeCloseDownMode
<1> DEFINE x == [Taken.client[me] EXCEPT !.mode = mode]
           t == [Taken EXCEPT !.client[me] = x]
<1>3. Taken \in ServerTypes /\ Local(server, Taken, me) /\ me \in Clients
      /\ Fd(Taken, me) = fdOfMe /\ Taken.client[me] \in ClientTypes
      /\ Taken.client[me].waits = "no"
  <2>1. Taken \in ServerTypes /\ Local(server, Taken, me) /\ me \in Clients
        /\ Fd(Taken, me) = fdOfMe
    BY <1>1, TakenDoes, TakenGood DEF Turn
  <2>2. Taken.client[me].waits = "no"
    BY <1>1, TakenDoes, TurnFacts DEF Turn, ClientTypes
  <2> QED BY <2>1, <2>2 DEF ServerTypes
<1>4. x \in ClientTypes /\ x.state = Taken.client[me].state /\ x.fd = Taken.client[me].fd
      /\ x.waits = "no"
  BY <1>3 DEF ClientTypes
<1>5. Done(t, FALSE)
  BY <1>2
<1> HIDE DEF x
<1>6. t \in ServerTypes /\ Local(Taken, t, me) /\ t.client[me] = x
      /\ SameRest(Taken, t) /\ SameSets(Taken, t)
  BY <1>3, <1>4, ClientSet
<1> HIDE DEF t
<1>7. Local(server, t, me)
  BY <1>3, <1>6, LocalTransitive
<1>8. /\ me \notin t.grabWaiters
      /\ fdOfMe \in t.GrabImperviousClients <=> fdOfMe \in server.GrabImperviousClients
      /\ fdOfMe \in t.AllClients <=> fdOfMe \in server.AllClients
      /\ fdOfMe \in t.ClientsWithInput <=> t.buffered[me] > 0
      /\ fdOfMe \in t.SavedAllClients <=> fdOfMe \in server.SavedAllClients
      /\ fdOfMe \in t.SavedClientsWithInput <=> fdOfMe \in server.SavedClientsWithInput
  BY <1>1, <1>6, TakenDoes, TurnFacts DEF Turn, SameRest, SameSets
<1>9. Harmless(t) /\ GoesOn(t)
  BY <1>1, <1>4, <1>6, <1>7, <1>8, StillHeard
<1> QED BY <1>1, <1>5, <1>9, DoneKeeps

LEMMA ProcKillClientKeeps ==
  ASSUME DispatchInv, ProcKillClient
  PROVE  DispatchInv'
<1>1. Turn /\ Serving /\ server.buffered[me] > 0
  BY RequestStart DEF ProcKillClient, Fresh, Repeats
<1>2. PICK c \in Clients : server.client[c].state # "none"
                           /\ Done(CloseDownClient(Taken, c), c = me)
  BY DEF ProcKillClient
<1>3. Harmless(Taken) /\ GoesOn(Taken)
  BY <1>1, TakenGood
<1>4. Taken.client[c].state # "none"
  BY <1>1, <1>2, TakenDoes DEF Turn, Local, SameClient
<1>5. Harmless(CloseDownClient(Taken, c)) /\ GoesOn(CloseDownClient(Taken, c))
  BY <1>1, <1>3, <1>4, ClosedHarmless
<1> DEFINE yields == c = me
<1>6. yields \in BOOLEAN /\ Done(CloseDownClient(Taken, c), yields)
  BY <1>2
<1> HIDE DEF yields
<1> QED BY <1>1, <1>5, <1>6, DoneKeeps

LEMMA ClientsFinite ==
  ASSUME NEW C \in SUBSET Clients
  PROVE  IsFiniteSet(C) /\ Cardinality(C) \in Nat
<1>1. IsFiniteSet(Clients)
  BY DispatchAssumption, FS_Interval DEF Clients
<1>2. IsFiniteSet(C)
  BY <1>1, FS_Subset
<1> QED BY <1>2, FS_CardinalityType

LEMMA OrdersType ==
  ASSUME NEW C \in SUBSET Clients, NEW order \in Orders(C)
  PROVE  order \in Seq(Clients \cup {0})
<1> DEFINE n == Cardinality(C)
<1>1. n \in Nat
  BY ClientsFinite
<1>2. order \in [1 .. n -> C]
  BY DEF Orders
<1> HIDE DEF n
<1>3. order \in [1 .. n -> Clients \cup {0}]
  BY <1>2
<1> QED BY <1>1, <1>3

LEMMA RetainedKeeps ==
  ASSUME DispatchInv, CloseDownRetainedResources
  PROVE  DispatchInv'
<1> DEFINE retained == {c \in Clients : /\ Gone(server, c)
                                        /\ server.client[c].mode = "RetainTemporary"}
           asleep == {c \in retained : ClientIsAsleep(server, c)}
           freed == retained \ asleep
           client(c) == IF c \in freed THEN NullClient ELSE Taken.client[c]
           clients == [c \in Clients |-> client(c)]
<1>1. Turn /\ Serving /\ server.buffered[me] > 0
  BY RequestStart DEF CloseDownRetainedResources, Fresh, Repeats
<1>2. PICK signals \in Orders(asleep) :
        Done([Taken EXCEPT !.workQueue = @ \o signals, !.client = clients], FALSE)
  BY DEF CloseDownRetainedResources
<1> DEFINE queue == Taken.workQueue \o signals
           t == [Taken EXCEPT !.workQueue = queue, !.client = clients]
<1>3. /\ Taken \in ServerTypes /\ Good(Taken) /\ Kept(server, Taken, Clients \ {me})
      /\ Taken.fate = "sound" /\ ~Ignored(Taken, me) /\ ~Barred(Taken, me) /\ me \in Clients
  BY <1>1, TakenGood DEF Harmless, Turn
<1>4. freed \in SUBSET Clients /\ asleep \in SUBSET Clients
  OBVIOUS
<1>5. \A c \in freed : ~Running(Taken, c)
  <2>1. \A c \in freed : ~Running(server, c)
    BY DEF Gone, Running
  <2>2. \A c \in Clients : Running(Taken, c) => Running(server, c)
    BY <1>1, TakenDoes DEF Turn, Local, SameClient, Running
  <2> HIDE DEF freed
  <2> QED BY <1>4, <2>1, <2>2
<1>6. queue \in Seq(Clients \cup {0})
  <2>1. Taken.workQueue \in Seq(Clients \cup {0})
    BY <1>3 DEF ServerTypes
  <2>2. signals \in Seq(Clients \cup {0})
    BY <1>4, OrdersType
  <2> QED BY <2>1, <2>2
<1> HIDE DEF freed, queue
<1>7. clients \in [Clients -> ClientTypes]
  BY <1>3, NullClientType DEF ServerTypes
<1>8. (\A c \in Clients \ freed : clients[c] = Taken.client[c])
      /\ (\A c \in freed : clients[c] = NullClient)
  BY <1>4
<1>9. Done(t, FALSE)
  BY <1>2 DEF queue
<1> HIDE DEF clients
<1>10. t \in ServerTypes /\ t.client = clients /\ t.buffered = Taken.buffered
       /\ t.grabWaiters = Taken.grabWaiters /\ t.fate = Taken.fate
  BY <1>3, <1>6, <1>7 DEF ServerTypes
<1>11. SameGrab(Taken, t)
  BY <1>3 DEF ServerTypes, SameGrab
<1>12. SameSets(Taken, t)
  BY <1>3 DEF ServerTypes, SameSets
<1> HIDE DEF t
<1>13. Good(t) /\ Kept(Taken, t, Clients) /\ Spared(Taken, t, Clients)
  <2>1. \A d \in Clients \ freed : t.client[d] = Taken.client[d]
    BY <1>8, <1>10
  <2>2. \A c \in freed : ~Running(Taken, c) /\ t.client[c] = NullClient
    BY <1>5, <1>8, <1>10
  <2> QED BY <1>3, <1>4, <1>10, <1>11, <1>12, <2>1, <2>2, SetsKeepGood
<1>14. Harmless(t) /\ GoesOn(t)
  BY <1>3, <1>10, <1>13 DEF Harmless, GoesOn, Kept, Spared
<1> QED BY <1>1, <1>9, <1>14, DoneKeeps

-----------------------------------------------------------------------------
(* What the server does while it waits.                                      *)

LEMMA SleptGood ==
  ASSUME NEW s \in ServerTypes, NEW c \in Clients, Good(s), ClientIsAsleep(s, c),
         NEW how \in {"no", "asked", "told"}
  PROVE  LET t == Sleeps(s, c, how)
         IN  /\ Gone(s, c) => Good(t)
             /\ Running(s, c) /\ how # "no" => Good(t)
             /\ Running(s, c) /\ how = "no" => Good(AttendClient(t, c))
<1> DEFINE t == Sleeps(s, c, how)
           u == AttendClient(t, c)
<1>1. /\ t \in ServerTypes /\ Local(s, t, c) /\ t.client[c] = [s.client[c] EXCEPT !.waits = how]
      /\ t.client[c].waits = how
      /\ SameRest(s, t) /\ SameSets(s, t)
  BY SleepDoes
<1> HIDE DEF t
<1>2. /\ ClientGood(s, c) /\ s.client[c].waits \in {"asked", "told"}
      /\ c \notin s.grabWaiters /\ Ignored(s, c)
      /\ t.client[c].open = s.client[c].open
      /\ t.client[c].state = s.client[c].state /\ Fd(t, c) = Fd(s, c)
  <2>1. s.client[c] \in ClientTypes
    BY DEF ServerTypes
  <2> QED BY <1>1, <2>1 DEF Good, ClientIsAsleep, ClientGood, Ignored, ClientTypes, Local
<1>3. /\ t.buffered[c] = s.buffered[c] /\ c \notin t.grabWaiters
      /\ t.GrabInProgress = s.GrabInProgress /\ (Barred(t, c) <=> Barred(s, c))
  BY <1>1, <1>2 DEF Local, SameGrab, SameRest, SameSets, Barred
<1>4. t.GrabInProgress = 0 => Fd(t, c) \notin t.SavedAllClients
  BY <1>1, <1>3 DEF Good, GrabGood, SameSets
<1>5. ASSUME Gone(s, c) PROVE Good(t)
  <2>1. ClientGood(t, c)
    BY <1>2, <1>3, <1>5 DEF ClientGood, Gone, Running
  <2>2. Outside(s, t, {c}, {})
    BY <1>1, <1>3, <1>5, SameSetsAt DEF Outside, Local, Gone, Running
  <2>3. Inside(t, {c}, {})
    BY <1>2, <1>5, <2>1 DEF Inside, Gone, Running
  <2>4. GrabGood(t)
    <3>1. s.GrabInProgress \in Clients \cup {0}
      BY DEF ServerTypes
    <3>2. \A d \in Clients \ {c} : Running(t, d) <=> Running(s, d)
      BY <1>1 DEF Local, SameClient, Running
    <3> QED BY <1>1, <1>5, <3>1, <3>2 DEF Good, GrabGood, Local, SameGrab, SameSets, Gone, Running
  <2>5. {c} \in SUBSET Clients /\ {} \in SUBSET Fds
    OBVIOUS
  <2> QED BY <1>1, <2>2, <2>3, <2>4, <2>5, Changed
<1>6. ASSUME Running(s, c), how # "no" PROVE Good(t)
  <2>1. Ignored(t, c) /\ Running(t, c)
    BY <1>1, <1>2, <1>6 DEF Ignored, Running
  <2>2. Placed(t, c)
    BY <1>1, <1>2, <1>3, <1>6, <2>1 DEF ClientGood, Placed, SameSets
  <2>3. ClientGood(t, c)
    BY <1>2, <1>3, <1>6, <2>1, <2>2 DEF ClientGood, Running
  <2> QED BY <1>1, <1>4, <1>6, <2>3, LocalGood
<1>7. ASSUME Running(s, c), how = "no" PROVE Good(u)
  <2>1. /\ u \in ServerTypes /\ Local(t, u, c) /\ SameClient(t, u, c)
        /\ Fd(t, c) \in u.GrabImperviousClients <=> Fd(t, c) \in t.GrabImperviousClients
        /\ ~Barred(t, c) =>
             /\ Fd(t, c) \in u.AllClients
             /\ Fd(t, c) \in u.ClientsWithInput <=>
                  Fd(t, c) \in t.ClientsWithInput \cup t.IgnoredClientsWithInput
             /\ Fd(t, c) \in u.SavedAllClients <=> Fd(t, c) \in t.SavedAllClients
             /\ Fd(t, c) \in u.SavedClientsWithInput <=> Fd(t, c) \in t.SavedClientsWithInput
        /\ Barred(t, c) =>
             /\ Fd(t, c) \in u.AllClients <=> Fd(t, c) \in t.AllClients
             /\ Fd(t, c) \in u.ClientsWithInput <=> Fd(t, c) \in t.ClientsWithInput
             /\ Fd(t, c) \in u.SavedAllClients
             /\ Fd(t, c) \in u.SavedClientsWithInput <=>
                  Fd(t, c) \in t.SavedClientsWithInput \cup t.IgnoredClientsWithInput
    BY <1>1, AttendClientDoes
  <2> HIDE DEF u
  <2>2. Local(s, u, c)
    BY <1>1, <2>1, LocalTransitive
  <2>3. /\ Running(u, c) /\ Fd(u, c) = Fd(s, c) /\ u.client[c].waits = "no"
        /\ c \notin u.grabWaiters /\ u.buffered[c] = s.buffered[c]
        /\ u.GrabInProgress = s.GrabInProgress
    BY <1>1, <1>2, <1>3, <1>7, <2>1, <2>2 DEF Local, SameGrab, SameClient, Running
  <2>4. ~Ignored(u, c) /\ (Barred(u, c) <=> Barred(s, c))
    BY <1>2, <1>3, <2>1, <2>3 DEF Ignored, Barred, SameSets
  <2>5. Placed(u, c)
    BY <1>1, <1>2, <1>3, <1>7, <2>1, <2>3, <2>4 DEF ClientGood, Placed, SameSets
  <2>6. ClientGood(u, c)
    BY <1>2, <1>7, <2>3, <2>5 DEF ClientGood, Running
  <2>7. u.GrabInProgress = 0 => Fd(u, c) \notin u.SavedAllClients
    BY <1>2, <1>3, <1>4, <2>1, <2>3 DEF Barred
  <2> QED BY <1>7, <2>1, <2>2, <2>6, <2>7, LocalGood
<1> QED BY <1>5, <1>6, <1>7 DEF t, u

(* While the server waits only its data matter.                              *)
LEMMA WaitKeeps ==
  ASSUME DispatchInv, loop.at = "wait", UNCHANGED loop, server' \in ServerTypes,
         server'.fate = "sound" => Good(server')
  PROVE  DispatchInv'
<1>1. LoopTypes'
  BY DEF DispatchInv, LoopTypes
<1>2. LoopGood'
  BY DEF LoopGood
<1> QED BY <1>1, <1>2 DEF DispatchInv, Sound

LEMMA OpenFontResumed ==
  ASSUME NEW s \in ServerTypes, Good(s), s.fate = "sound", NEW c \in Clients, doOpenFont(s, c)
  PROVE  server' \in ServerTypes /\ (server'.fate = "sound" => Good(server'))
<1>1. CASE Becomes(Wrong(s, "WorkForFreedClient"))
  BY <1>1, WrongDoes DEF Becomes, BecomesWith
<1>2. CASE ClientIsAsleep(s, c) /\ Becomes(ClientWakeup(s, c))
  <2> DEFINE t == Sleeps(s, c, "no")
  <2>1. t \in ServerTypes /\ t.fate = s.fate /\ t.client[c].state = s.client[c].state
    BY SleepDoes DEF Local
  <2>2. server' = IF Gone(s, c) THEN CloseDownClient(t, c) ELSE AttendClient(t, c)
    BY <1>2 DEF Becomes, BecomesWith, ClientWakeup, Sleeps
  <2>3. s.client[c].state \in {"none", "running", "gone"} /\ s.client[c].state # "none"
    <3>1. s.client[c].state = "none" => s.client[c].waits = "no"
      BY DEF Good, ClientGood, NullClient
    <3> QED BY <1>2, <3>1 DEF ServerTypes, ClientTypes, ClientIsAsleep
  <2>4. /\ Gone(s, c) => Good(t)
        /\ Running(s, c) => Good(AttendClient(t, c))
    BY <1>2, SleptGood
  <2> HIDE DEF t
  <2>5. CASE Gone(s, c)
    <3>1. t.client[c].state # "none"
      BY <2>1, <2>3
    <3> QED BY <2>1, <2>2, <2>4, <2>5, <3>1, CloseDownClientDoes
  <2>6. CASE ~Gone(s, c)
    BY <2>1, <2>2, <2>3, <2>4, <2>6, AttendClientDoes DEF Gone, Running
  <2> QED BY <2>5, <2>6
<1>3. CASE ClientIsAsleep(s, c) /\ Running(s, c) /\ Becomes([s EXCEPT !.client[c].waits = "asked"])
  <2>1. server' = Sleeps(s, c, "asked")
    BY <1>3 DEF Becomes, BecomesWith, Sleeps
  <2> QED BY <1>3, <2>1, SleepDoes, SleptGood
<1> QED BY <1>1, <1>2, <1>3 DEF doOpenFont

LEMMA NewcomerGood ==
  ASSUME NEW s \in ServerTypes, Good(s), NEW fd \in Fds, \A c \in Clients : Fd(s, c) # fd
  PROVE  Newcomer(s, fd) \in ServerTypes /\ Good(Newcomer(s, fd))
<1> DEFINE free == {c \in Clients : s.client[c].state = "none"}
           t == FdSet(s, fd)
<1>1. /\ fd \in Numbers /\ fd \notin Heard(s) /\ GrabGood(s)
      /\ s.GrabInProgress \in Clients \cup {0}
  <2>1. s.GrabInProgress \in Clients \cup {0}
    BY DEF ServerTypes
  <2> QED BY <2>1 DEF Numbers, Good, Owns
<1>2. /\ t \in ServerTypes /\ t.client = s.client /\ SameRest(s, t)
      /\ SameGrab(s, t)
  BY <1>1 DEF FdSet, ServerTypes, SameRest, SameGrab
<1>3. /\ s.GrabInProgress = 0 => t.AllClients = s.AllClients \cup {fd}
                                 /\ t.SavedAllClients = s.SavedAllClients
      /\ s.GrabInProgress # 0 => t.SavedAllClients = s.SavedAllClients \cup {fd}
                                 /\ t.AllClients = s.AllClients
      /\ t.ClientsWithInput = s.ClientsWithInput
      /\ t.SavedClientsWithInput = s.SavedClientsWithInput
      /\ t.IgnoredClientsWithInput = s.IgnoredClientsWithInput
      /\ t.GrabImperviousClients = s.GrabImperviousClients
  BY DEF FdSet, ServerTypes
<1> HIDE DEF t
<1>4. \A n \in Numbers \ {fd} : SameAt(s, t, n)
  BY <1>3 DEF SameAt
<1>5. {fd} \in SUBSET Fds
  OBVIOUS
<1>6. CASE free = {}
  <2> DEFINE u == CloseDownFileDescriptor(t, fd)
  <2>1. Newcomer(s, fd) = u
    BY <1>6 DEF Newcomer, t
  <2>2. t.GrabInProgress = 0 => t.SavedAllClients = {} /\ t.SavedClientsWithInput = {}
    BY <1>1, <1>2, <1>3 DEF GrabGood, SameGrab
  <2>3. /\ u \in ServerTypes /\ u.client = t.client /\ SameGrab(t, u)
        /\ SameRest(t, u)
        /\ \A n \in Numbers \ {fd} : SameAt(t, u, n)
        /\ fd \notin Heard(u)
        /\ t.GrabInProgress = 0 => u.SavedAllClients = {} /\ u.SavedClientsWithInput = {}
    BY <1>1, <1>2, <2>2, CloseDownFileDescriptorDoes
  <2> HIDE DEF u
  <2>4. \A n \in Numbers \ {fd} : SameAt(s, u, n)
    BY <1>4, <2>3 DEF SameAt
  <2>5. Outside(s, u, {}, {fd})
    BY <1>2, <2>3, <2>4 DEF Outside, SameClient, SameRest, SameGrab
  <2>6. Inside(u, {}, {fd})
    BY <2>3 DEF Inside
  <2>7. GrabGood(u)
    BY <1>1, <1>2, <2>3 DEF GrabGood, SameGrab, Running
  <2>8. {} \in SUBSET Clients
    OBVIOUS
  <2>9. Good(u)
    BY <1>5, <2>3, <2>5, <2>6, <2>7, <2>8, Changed
  <2> QED BY <2>1, <2>3, <2>9
<1>7. CASE free # {}
  <2> DEFINE c == Min(free)
             x == [NullClient EXCEPT !.state = "running", !.fd = fd, !.open = TRUE]
             u == [t EXCEPT !.client[c] = x, !.ClientsWithInput = @ \ {fd}]
  <2>1. Newcomer(s, fd) = u
    BY <1>7 DEF Newcomer, t
  <2>2. c \in Clients /\ s.client[c].state = "none"
    <3>1. c \in free
      BY <1>7, MinIn
    <3> QED BY <3>1
  <2>3. x \in ClientTypes /\ x.state = "running" /\ x.fd = fd /\ x.waits = "no"
    BY <1>1 DEF NullClient, ClientTypes
  <2> HIDE DEF c, x
  <2>4. /\ u \in ServerTypes /\ u.client[c] = x
        /\ \A d \in Clients \ {c} : u.client[d] = t.client[d]
    BY <1>2, <2>2, <2>3 DEF ServerTypes
  <2>5. SameGrab(t, u) /\ SameRest(t, u)
    BY <1>2 DEF ServerTypes, SameGrab, SameRest
  <2>6. /\ u.AllClients = t.AllClients /\ u.ClientsWithInput = t.ClientsWithInput \ {fd}
        /\ u.SavedAllClients = t.SavedAllClients
        /\ u.SavedClientsWithInput = t.SavedClientsWithInput
        /\ u.IgnoredClientsWithInput = t.IgnoredClientsWithInput
        /\ u.GrabImperviousClients = t.GrabImperviousClients
    BY <1>2 DEF ServerTypes
  <2> HIDE DEF u
  <2>7. \A n \in Numbers \ {fd} : SameAt(s, u, n)
    BY <1>4, <2>6 DEF SameAt
  <2>8. ~Running(s, c) /\ s.buffered[c] = 0 /\ c \notin s.grabWaiters /\ Fd(s, c) = 0
        /\ s.GrabInProgress # c
    <3>1. ~Running(s, c)
      BY <2>2 DEF Running
    <3>2. c # 0
      BY <2>2 DEF Clients
    <3> QED BY <1>1, <2>2, <3>1, <3>2 DEF Good, ClientGood, GrabGood
  <2>9. /\ Running(u, c) /\ Fd(u, c) = fd /\ u.buffered[c] = 0 /\ c \notin u.grabWaiters
        /\ ~Ignored(u, c) /\ (Barred(u, c) <=> s.GrabInProgress # 0)
    <3>1. fd \notin u.GrabImperviousClients
      BY <1>1, <1>3, <2>6 DEF Heard
    <3> QED BY <1>2, <2>3, <2>4, <2>5, <2>8, <3>1
            DEF SameRest, SameGrab, Running, Fd, Ignored, Barred
  <2>10. Placed(u, c)
    BY <1>1, <1>3, <2>6, <2>9 DEF Placed, Heard
  <2>11. ClientGood(u, c)
    BY <2>3, <2>4, <2>9, <2>10 DEF ClientGood, Running
  <2>12. Outside(s, u, {c}, {fd})
    BY <1>2, <2>4, <2>5, <2>7, <2>8 DEF Outside, SameClient, SameRest, SameGrab
  <2>13. Inside(u, {c}, {fd})
    BY <2>2, <2>9, <2>11 DEF Inside, Owns
  <2>14. GrabGood(u)
    <3>1. \A d \in Clients \ {c} : Running(u, d) <=> Running(s, d)
      BY <1>2, <2>4 DEF Running
    <3> QED BY <1>1, <1>2, <1>3, <2>5, <2>6, <2>8, <3>1 DEF GrabGood, SameGrab
  <2>15. {c} \in SUBSET Clients
    BY <2>2
  <2>16. Good(u)
    BY <1>5, <2>4, <2>12, <2>13, <2>14, <2>15, Changed
  <2> QED BY <2>1, <2>4, <2>16
<1> QED BY <1>6, <1>7

LEMMA ProcessWorkQueueKeeps ==
  ASSUME DispatchInv, ProcessWorkQueue
  PROVE  DispatchInv'
<1> DEFINE w == Head(server.workQueue)
           s == [server EXCEPT !.workQueue = Tail(@)]
<1>1. /\ server \in ServerTypes /\ Good(server) /\ Sound /\ loop.at = "wait" /\ UNCHANGED loop
      /\ server.workQueue \in Seq(Clients \cup {0}) /\ server.workQueue # <<>>
      /\ IF w = 0 THEN EstablishNewConnections(s) ELSE doOpenFont(s, w)
  BY DEF DispatchInv, ProcessWorkQueue, Waiting, ServerTypes
<1>2. w \in Clients \cup {0} /\ Tail(server.workQueue) \in Seq(Clients \cup {0})
  BY <1>1
<1> HIDE DEF w
<1>3. /\ s \in ServerTypes /\ s.client = server.client /\ s.fate = "sound"
      /\ s.buffered = server.buffered /\ s.grabWaiters = server.grabWaiters
  BY <1>1, <1>2 DEF ServerTypes, Sound
<1>4. SameGrab(server, s)
  BY <1>1 DEF ServerTypes, SameGrab
<1>5. SameSets(server, s)
  BY <1>1 DEF ServerTypes, SameSets
<1> HIDE DEF s
<1>6. Good(s)
  <2>1. {} \in SUBSET Clients
    OBVIOUS
  <2>2. \A d \in Clients \ {} : s.client[d] = server.client[d]
    BY <1>3
  <2>3. \A c \in {} : ~Running(server, c) /\ s.client[c] = NullClient
    OBVIOUS
  <2> QED BY <1>1, <1>3, <1>4, <1>5, <2>1, <2>2, <2>3, SetsKeepGood
<1>7. server' \in ServerTypes /\ (server'.fate = "sound" => Good(server'))
  <2>1. CASE w = 0
    <3>1. EstablishNewConnections(s)
      BY <1>1, <2>1
    <3>2. \/ \E fd \in Fds : \/ server' = Wrong(s, "ConnectionNumberInUse")
                             \/ /\ \A c \in Clients : Fd(s, c) # fd
                                /\ server' = Newcomer(s, fd)
          \/ server' = s
      BY <3>1 DEF EstablishNewConnections, Becomes, BecomesWith
    <3>3. Wrong(s, "ConnectionNumberInUse") \in ServerTypes
          /\ Wrong(s, "ConnectionNumberInUse").fate # "sound"
      BY <1>3, WrongDoes
    <3> QED BY <1>3, <1>6, <3>2, <3>3, NewcomerGood
  <2>2. CASE w # 0
    BY <1>1, <1>2, <1>3, <1>6, <2>2, OpenFontResumed
  <2> QED BY <2>1, <2>2
<1> QED BY <1>1, <1>7, WaitKeeps

LEMMA ClientAwakenDoes ==
  ASSUME NEW s \in ServerTypes, Good(s), NEW C \in SUBSET Clients,
         \A c \in C : s.client[c].waits = "time"
  PROVE  LET t == ClientAwaken(s, C)
         IN  /\ t \in ServerTypes /\ t.fate = s.fate /\ Good(t)
             /\ s.AllClients \subseteq t.AllClients
             /\ t.grabState = s.grabState
             /\ \A c \in Clients : Fd(t, c) = Fd(s, c) /\ (Running(t, c) <=> Running(s, c))
             /\ \A c \in Clients \ C : t.client[c] = s.client[c]
<1> DEFINE awake == [c \in Clients |-> IF c \in C THEN [s.client[c] EXCEPT !.waits = "no"]
                                       ELSE s.client[c]]
           u == [s EXCEPT !.client = awake]
           W == {c \in C : ~Gone(s, c)}
           fds == {Fd(u, c) : c \in W}
           barred == {Fd(u, c) : c \in {d \in W : Barred(u, d)}}
           heard == fds \ barred
           t == ClientAwaken(s, C)
<1>2. \A c \in Clients : s.client[c] \in ClientTypes
  BY DEF ServerTypes
<1>3. \A c \in Clients : /\ awake[c] \in ClientTypes /\ awake[c].state = s.client[c].state
                         /\ awake[c].fd = s.client[c].fd /\ awake[c].open = s.client[c].open
                         /\ c \notin C => awake[c] = s.client[c]
                         /\ c \in C => awake[c].waits = "no"
  BY <1>2 DEF ClientTypes
<1>4. awake \in [Clients -> ClientTypes]
  BY <1>3
<1>5. t = AttendClients(u, W)
  BY DEF ClientAwaken
<1> HIDE DEF awake, t
<1>6. /\ u \in ServerTypes /\ u.client = awake /\ u.buffered = s.buffered
      /\ u.grabWaiters = s.grabWaiters /\ u.fate = s.fate
  BY <1>4 DEF ServerTypes
<1>7. SameGrab(s, u)
  BY DEF ServerTypes, SameGrab
<1>8. SameSets(s, u)
  BY DEF ServerTypes, SameSets
<1> HIDE DEF u
<1>9. W \in SUBSET Clients
  OBVIOUS
<1>10. \A c \in W : Running(s, c) /\ c \in Clients /\ c \notin s.grabWaiters /\ c \in C
  <2>1. \A c \in Clients : s.client[c].state = "none" => s.client[c].waits = "no"
    BY DEF Good, ClientGood, NullClient
  <2>2. \A c \in Clients : c \in s.grabWaiters => s.client[c].waits = "no"
    BY DEF Good, ClientGood
  <2>3. \A c \in Clients : s.client[c].state \in {"none", "running", "gone"}
    BY <1>2 DEF ClientTypes
  <2> QED BY <2>1, <2>2, <2>3 DEF Gone, Running
<1>11. \A c \in C \ W : ~Running(s, c)
  BY DEF Gone, Running
<1>12. \A c \in Clients : Fd(u, c) = Fd(s, c) /\ (Running(u, c) <=> Running(s, c))
                          /\ (Barred(u, c) <=> Barred(s, c))
  BY <1>3, <1>6, <1>7, <1>8 DEF Fd, Running, Barred, SameGrab, SameSets
<1> HIDE DEF W
<1>13. /\ t \in ServerTypes
       /\ t.client = u.client /\ t.buffered = u.buffered /\ t.grabWaiters = u.grabWaiters
       /\ SameGrab(u, t) /\ t.fate = u.fate
       /\ t.GrabImperviousClients = u.GrabImperviousClients
       /\ t.AllClients = u.AllClients \cup heard
       /\ t.ClientsWithInput = u.ClientsWithInput \cup (u.IgnoredClientsWithInput \cap heard)
       /\ t.SavedAllClients = u.SavedAllClients \cup barred
       /\ t.SavedClientsWithInput
            = u.SavedClientsWithInput \cup (u.IgnoredClientsWithInput \cap barred)
       /\ t.IgnoredClientsWithInput = u.IgnoredClientsWithInput
  <2> HIDE DEF fds, barred
  <2> QED BY <1>5, <1>6, <1>9, AttendClientsDoes DEF fds, barred
<1>14. ASSUME NEW c \in Clients, Running(s, c)
       PROVE  /\ Fd(s, c) \in fds <=> c \in W
              /\ Fd(s, c) \in barred <=> c \in W /\ Barred(s, c)
  <2>1. \A d \in W : Fd(u, d) = Fd(s, c) => d = c
    BY <1>10, <1>12, <1>14 DEF Good
  <2> QED BY <1>9, <1>12, <1>14, <2>1
<1>15. \A fd \in fds \cup barred : \E c \in Clients : Owns(s, c, fd)
  <2>1. \A fd \in fds \cup barred : \E c \in W : fd = Fd(u, c)
    OBVIOUS
  <2> HIDE DEF fds, barred
  <2> QED BY <1>10, <1>12, <2>1 DEF Owns
<1>16. s.GrabInProgress = 0 => barred = {}
  BY <1>7 DEF Barred, SameGrab
<1> HIDE DEF fds, barred
<1>17. \A c \in Clients : /\ Fd(t, c) = Fd(s, c) /\ (Running(t, c) <=> Running(s, c))
                          /\ (Barred(t, c) <=> Barred(s, c))
                          /\ t.client[c] = awake[c] /\ t.buffered[c] = s.buffered[c]
                          /\ (c \in t.grabWaiters <=> c \in s.grabWaiters)
                          /\ (Ignored(t, c) <=> Ignored(s, c) /\ (c \notin C \/ c \in s.grabWaiters))
  <2>1. \A c \in Clients : Fd(t, c) = Fd(u, c) /\ (Running(t, c) <=> Running(u, c))
                           /\ (Barred(t, c) <=> Barred(u, c))
    BY <1>8, <1>13 DEF Fd, Running, Barred, SameGrab, SameSets
  <2> QED BY <1>3, <1>6, <1>12, <1>13, <2>1 DEF Ignored
<1>18. ASSUME NEW c \in Clients PROVE ClientGood(t, c)
  <2>1. ClientGood(s, c)
    BY DEF Good
  <2>2. CASE ~Running(s, c)
    <3>1. t.client[c].state = "none" => t.client[c] = NullClient
      <4>1. s.client[c].state = "none" => c \notin C
        BY <2>1 DEF ClientGood, NullClient
      <4> QED BY <1>3, <1>17, <2>1, <4>1 DEF ClientGood
    <3> QED BY <1>3, <1>17, <2>1, <2>2, <3>1 DEF ClientGood
  <2>3. CASE Running(s, c) /\ c \notin W
    <3>1. c \notin C
      BY <1>11, <2>3
    <3>2. Ignored(t, c) <=> Ignored(s, c)
      BY <1>17, <3>1
    <3>3. Placed(t, c)
      BY <1>8, <1>13, <1>14, <1>17, <2>1, <2>3, <3>2 DEF ClientGood, Placed, SameSets
    <3> QED BY <1>3, <1>17, <2>1, <2>3, <3>1, <3>3 DEF ClientGood
  <2>4. CASE c \in W
    <3>1. Running(s, c) /\ c \in C /\ c \notin s.grabWaiters /\ ~Ignored(t, c) /\ Ignored(s, c)
      BY <1>10, <1>17, <2>4 DEF Ignored
    <3>2. Placed(t, c)
      BY <1>8, <1>13, <1>14, <1>17, <2>1, <2>4, <3>1 DEF ClientGood, Placed, SameSets
    <3> QED BY <1>3, <1>17, <2>1, <3>1, <3>2 DEF ClientGood, Running
  <2> QED BY <2>2, <2>3, <2>4
<1>19. \A c, d \in Clients : Running(t, c) /\ Running(t, d) /\ Fd(t, c) = Fd(t, d) => c = d
  BY <1>17 DEF Good
<1>20. ASSUME NEW fd \in Heard(t) PROVE \E c \in Clients : Owns(t, c, fd)
  <2>1. fd \in Heard(s) \cup fds \cup barred
    BY <1>8, <1>13, fd \in Heard(t) DEF Heard, SameSets
  <2>2. \E c \in Clients : Owns(s, c, fd)
    BY <1>15, <2>1 DEF Good
  <2> QED BY <1>17, <2>2 DEF Owns
<1>21. GrabGood(t)
  <2>1. s.GrabInProgress \in Clients \cup {0}
    BY DEF ServerTypes
  <2>2. s.GrabInProgress = 0 => t.SavedAllClients = {} /\ t.SavedClientsWithInput = {}
    BY <1>8, <1>13, <1>16 DEF Good, GrabGood, SameSets
  <2> QED BY <1>7, <1>13, <1>17, <2>1, <2>2 DEF Good, GrabGood, SameGrab
<1>22. Good(t)
  BY <1>18, <1>19, <1>20, <1>21 DEF Good
<1> QED BY <1>3, <1>6, <1>7, <1>8, <1>13, <1>17, <1>22 DEF SameGrab, SameSets, t

(* The list of those to serve names each client once, with its connection.   *)
LEMMA ConnectionsDoes ==
  ASSUME server \in ServerTypes, Good(server), NEW fds,
         \A fd \in fds : \E c \in Clients : Owns(server, c, fd)
  PROVE  /\ Connections(fds) \subseteq Fds \X Clients
         /\ \A r \in Connections(fds) : r[1] \in fds /\ Owns(server, r[2], r[1])
         /\ \A r, q \in Connections(fds) : r[2] = q[2] => r = q
<1>1. \A fd \in fds : /\ fd \in Fds /\ ConnectionTranslation(server, fd) \in Clients
                      /\ Owns(server, ConnectionTranslation(server, fd), fd)
  <2> SUFFICES ASSUME NEW fd \in fds
               PROVE  /\ fd \in Fds /\ ConnectionTranslation(server, fd) \in Clients
                      /\ Owns(server, ConnectionTranslation(server, fd), fd)
    OBVIOUS
  <2> DEFINE d == ConnectionTranslation(server, fd)
  <2>1. PICK c \in Clients : Owns(server, c, fd)
    OBVIOUS
  <2>2. fd \in Fds
    BY <2>1 DEF Owns, Good, ClientGood
  <2>3. d \in Clients /\ Fd(server, d) = fd
    BY <2>1 DEF Owns, ConnectionTranslation
  <2> HIDE DEF d
  <2>4. Running(server, d)
    <3>1. ~Running(server, d) => Fd(server, d) = 0
      BY <2>3 DEF Good, ClientGood
    <3> QED BY <2>2, <2>3, <3>1 DEF Fds
  <2> QED BY <2>2, <2>3, <2>4 DEF Owns, d
<1>2. Connections(fds) \subseteq Fds \X Clients
  BY <1>1 DEF Connections
<1>3. \A r \in Connections(fds) : r[1] \in fds /\ Owns(server, r[2], r[1])
  BY <1>1 DEF Connections
<1>4. ASSUME NEW r \in Connections(fds), NEW q \in Connections(fds), r[2] = q[2]
      PROVE  r = q
  <2>1. r[1] = q[1]
    BY <1>3, <1>4 DEF Owns
  <2>2. r = <<r[1], r[2]>> /\ q = <<q[1], q[2]>>
    BY <1>2
  <2> QED BY <1>4, <2>1, <2>2
<1> QED BY <1>2, <1>3, <1>4

(* Any step of the waiting server that makes a list of clients to serve.     *)
LEMMA ServeConnectionsKeeps ==
  ASSUME DispatchInv, Sound, server' \in ServerTypes,
         server'.fate = "sound" => Good(server'),
         NEW fds, \A fd \in fds : \E c \in Clients : Owns(server, c, fd),
         \A c \in Clients : Fd(server, c) \in fds /\ Running(server, c) => MayServe(server', c),
         ServeConnections(fds)
  PROVE  DispatchInv'
<1>1. server \in ServerTypes /\ Good(server)
  BY DEF DispatchInv
<1>2. /\ Connections(fds) \subseteq Fds \X Clients
      /\ \A r \in Connections(fds) : r[1] \in fds /\ Owns(server, r[2], r[1])
      /\ \A r, q \in Connections(fds) : r[2] = q[2] => r = q
  BY <1>1, ConnectionsDoes
<1>3. LoopTypes' /\ loop.at' \in {"wait", "pick"} /\ loop.ready' = Connections(fds)
  BY <1>2, ServeDoes DEF ServeConnections
<1>4. \A r \in Connections(fds) : r[2] \in Clients /\ Fd(server, r[2]) \in fds
                                  /\ Running(server, r[2])
  BY <1>2 DEF Owns
<1>5. LoopGood'
  BY <1>2, <1>3, <1>4 DEF LoopGood
<1> QED BY <1>3, <1>5 DEF DispatchInv, Sound

LEMMA UseBufferedKeeps ==
  ASSUME DispatchInv, UseBuffered
  PROVE  DispatchInv'
<1>1. /\ server \in ServerTypes /\ Good(server) /\ Sound
      /\ server' = server /\ ServeConnections(server.ClientsWithInput)
  BY DEF DispatchInv, UseBuffered, Waiting
<1>2. \A fd \in server.ClientsWithInput : \E c \in Clients : Owns(server, c, fd)
  BY <1>1 DEF Good, Heard
<1>3. ASSUME NEW c \in Clients, Fd(server, c) \in server.ClientsWithInput, Running(server, c)
      PROVE  MayServe(server', c)
  BY <1>1, <1>3 DEF Good, ClientGood, Placed, MayServe
<1> QED BY <1>1, <1>2, <1>3, ServeConnectionsKeeps

LEMMA FlushBeforeSelectKeeps ==
  ASSUME DispatchInv, FlushBeforeSelect
  PROVE  DispatchInv'
<1>1. /\ server \in ServerTypes /\ Good(server) /\ loop.at = "wait" /\ UNCHANGED loop
      /\ FlushAllOutput(server, socket)
  BY DEF DispatchInv, FlushBeforeSelect, Selects, Waiting
<1> QED BY <1>1, FlushKeepsGood, WaitKeeps

LEMMA SelectFailsKeeps ==
  ASSUME DispatchInv, SelectFails
  PROVE  DispatchInv'
<1>1. /\ server \in ServerTypes /\ Good(server) /\ Sound /\ server' = server
      /\ loop' = [at |-> "check", ready |-> Connections(Dead), client |-> 0]
  BY DEF DispatchInv, SelectFails, Selects, Waiting
<1>2. \A fd \in Dead : \E c \in Clients : Owns(server, c, fd)
  BY <1>1 DEF Good, Heard, Dead
<1>3. /\ Connections(Dead) \subseteq Fds \X Clients
      /\ \A r \in Connections(Dead) : r[1] \in Dead /\ Owns(server, r[2], r[1])
      /\ \A r, q \in Connections(Dead) : r[2] = q[2] => r = q
  BY <1>1, <1>2, ConnectionsDoes
<1>4. LoopTypes'
  BY <1>1, <1>3, LoopTypesOf
<1>5. LoopGood'
  BY <1>1, <1>3 DEF LoopGood, Owns
<1> QED BY <1>1, <1>4, <1>5 DEF DispatchInv, Sound

LEMMA CheckConnectionsKeeps ==
  ASSUME DispatchInv, CheckConnections
  PROVE  DispatchInv'
<1>1. PICK r \in loop.ready :
        /\ Becomes(CloseDownClient(server, r[2]))
        /\ loop' = [at |-> IF loop.ready \ {r} = {} THEN "wait" ELSE "check",
                    ready |-> loop.ready \ {r}, client |-> 0]
  BY DEF CheckConnections
<1> DEFINE rest == loop.ready \ {r}
           c == r[2]
<1>2. /\ server \in ServerTypes /\ Good(server) /\ server.fate = "sound"
      /\ loop.ready \subseteq Fds \X Clients /\ LoopGood /\ loop.at = "check"
  BY DEF DispatchInv, CheckConnections, LoopTypes, Sound
<1>3. c \in Clients /\ server.client[c].state # "none"
  BY <1>2 DEF LoopGood, Running
<1>4. server' = CloseDownClient(server, c)
  BY <1>1 DEF Becomes, BecomesWith
<1> HIDE DEF c
<1>5. /\ server' \in ServerTypes
      /\ server'.fate = "sound" => Good(server')
      /\ \A d \in Clients \ {c} : server'.client[d] = server.client[d]
  BY <1>2, <1>3, <1>4, CloseDownClientDoes
<1>6. LoopTypes' /\ loop.ready' = rest /\ loop.at' \in {"wait", "check"}
  <2>1. CASE rest = {}
    <3>1. loop' = [at |-> "wait", ready |-> rest, client |-> 0]
      BY <1>1, <2>1
    <3> QED BY <1>2, <3>1, LoopTypesOf
  <2>2. CASE rest # {}
    <3>1. loop' = [at |-> "check", ready |-> rest, client |-> 0]
      BY <1>1, <2>2
    <3> QED BY <1>2, <3>1, LoopTypesOf
  <2> QED BY <2>1, <2>2
<1>7. \A q \in rest : q[2] \in Clients \ {c} /\ Running(server', q[2])
  <2> SUFFICES ASSUME NEW q \in rest PROVE q[2] \in Clients \ {c} /\ Running(server', q[2])
    OBVIOUS
  <2>1. q[2] \in Clients /\ q[2] # c /\ Running(server, q[2])
    BY <1>2 DEF LoopGood, c
  <2> QED BY <1>5, <2>1 DEF Running
<1>8. LoopGood'
  BY <1>2, <1>6, <1>7 DEF LoopGood
<1> QED BY <1>5, <1>6, <1>8 DEF DispatchInv, Sound

(* A font server has answered client a, in C: the work procedure is queued.  *)
LEMMA SignalDoes ==
  ASSUME NEW s \in ServerTypes, Good(s), NEW a \in Clients, s.client[a].waits = "asked"
  PROVE  LET t == ClientSignal([s EXCEPT !.client[a].waits = "told"], a)
         IN  /\ t \in ServerTypes /\ t.fate = s.fate /\ Good(t)
             /\ \A c \in Clients : Running(s, c) /\ ~Ignored(s, c) /\ ~Barred(s, c) => MayServe(t, c)
<1> DEFINE u == Sleeps(s, a, "told")
           t == ClientSignal([s EXCEPT !.client[a].waits = "told"], a)
<1>1. t = QueueWorkProc(u, a)
  BY DEF Sleeps, ClientSignal
<1>2. /\ u \in ServerTypes /\ Local(s, u, a) /\ SameRest(s, u) /\ SameSets(s, u)
  BY SleepDoes
<1>3. Good(u)
  <2>1. s.client[a].state = "none" => s.client[a].waits = "no"
    BY DEF Good, ClientGood, NullClient
  <2>2. s.client[a].state \in {"none", "running", "gone"}
    BY DEF ServerTypes, ClientTypes
  <2>3. Gone(s, a) \/ Running(s, a)
    BY <2>1, <2>2 DEF Gone, Running
  <2>4. ClientIsAsleep(s, a)
    BY DEF ClientIsAsleep
  <2> QED BY <2>3, <2>4, SleptGood
<1> HIDE DEF u, t
<1>4. /\ t \in ServerTypes /\ t.fate = u.fate /\ Good(t) /\ Kept(u, t, Clients)
  BY <1>1, <1>2, <1>3, QueueDoes
<1>5. ASSUME NEW c \in Clients, Running(s, c), ~Ignored(s, c), ~Barred(s, c)
      PROVE  MayServe(t, c)
  <2>1. c # a
    BY <1>5 DEF Ignored
  <2>2. SameClient(s, u, c) /\ SameGrab(s, u)
    BY <1>2, <2>1 DEF Local
  <2>3. MayServe(u, c)
    BY <1>2, <1>5, <2>2 DEF SameClient, SameGrab, SameSets, MayServe, Running, Ignored, Barred, Fd
  <2> QED BY <1>4, <2>3 DEF Kept
<1> QED BY <1>2, <1>4, <1>5 DEF t, Local

LEMMA SelectFindsKeeps ==
  ASSUME DispatchInv, NEW new \in BOOLEAN, SelectFinds(new)
  PROVE  DispatchInv'
<1>1. PICK expired \in SUBSET Sleeping("time"),
           answered \in {{}} \cup {{c} : c \in Sleeping("asked")} :
        LET s == ClientAwaken(server, expired)
            t == IF answered = {} THEN s
                 ELSE ClientSignal([s EXCEPT !.client[Min(answered)].waits = "told"],
                                   Min(answered))
        IN  /\ server' = IF new THEN QueueWorkProc(t, 0) ELSE t
            /\ ServeConnections(Readable \cup ({Fd(s, c) : c \in expired} \cap s.AllClients))
  BY DEF SelectFinds
<1> DEFINE s == ClientAwaken(server, expired)
           a == Min(answered)
           t == IF answered = {} THEN s
                ELSE ClientSignal([s EXCEPT !.client[a].waits = "told"], a)
           fds == Readable \cup ({Fd(s, c) : c \in expired} \cap s.AllClients)
<1>2. /\ server' = IF new THEN QueueWorkProc(t, 0) ELSE t
      /\ ServeConnections(fds)
  BY <1>1
<1>3. /\ server \in ServerTypes /\ Good(server) /\ Sound
      /\ expired \in SUBSET Clients /\ \A c \in expired : server.client[c].waits = "time"
  BY DEF DispatchInv, SelectFinds, Selects, Waiting, Sleeping
<1> HIDE DEF s
<1>4. /\ s \in ServerTypes /\ s.fate = server.fate /\ Good(s)
      /\ server.AllClients \subseteq s.AllClients
      /\ \A c \in Clients : Fd(s, c) = Fd(server, c) /\ (Running(s, c) <=> Running(server, c))
      /\ \A c \in Clients \ expired : s.client[c] = server.client[c]
  BY <1>3, ClientAwakenDoes DEF s
<1>5. fds \subseteq s.AllClients
  BY <1>4 DEF Readable
<1>6. \A fd \in fds : \E c \in Clients : Owns(server, c, fd)
  BY <1>4, <1>5 DEF Good, Heard, Owns
<1> HIDE DEF fds
<1>7. /\ t \in ServerTypes /\ t.fate = s.fate /\ Good(t)
      /\ \A c \in Clients : Running(s, c) /\ ~Ignored(s, c) /\ ~Barred(s, c) => MayServe(t, c)
  <2>1. CASE answered = {}
    BY <1>4, <2>1 DEF MayServe
  <2>2. CASE answered # {}
    <3>1. answered \subseteq Sleeping("asked") /\ Sleeping("asked") \subseteq Clients
      BY DEF Sleeping
    <3>2. a \in Sleeping("asked")
      BY <2>2, <3>1, MinIn
    <3>3. a \in Clients /\ server.client[a].waits = "asked"
      BY <3>2 DEF Sleeping
    <3>4. s.client[a].waits = "asked"
      BY <1>3, <1>4, <3>3
    <3> HIDE DEF a
    <3>5. t = ClientSignal([s EXCEPT !.client[a].waits = "told"], a)
      BY <2>2
    <3> QED BY <1>4, <3>3, <3>4, <3>5, SignalDoes
  <2> QED BY <2>1, <2>2
<1> HIDE DEF t
<1>8. /\ server' \in ServerTypes /\ Good(server')
      /\ \A c \in Clients : Running(s, c) /\ ~Ignored(s, c) /\ ~Barred(s, c)
                              => MayServe(server', c)
  <2>1. CASE new
    <3>1. server' = QueueWorkProc(t, 0) /\ 0 \in Clients \cup {0}
      BY <1>2, <2>1
    <3>2. server' \in ServerTypes /\ Good(server') /\ Kept(t, server', Clients)
      BY <1>7, <3>1, QueueDoes
    <3> QED BY <1>7, <3>2 DEF Kept
  <2>2. CASE ~new
    BY <1>2, <1>7, <2>2
  <2> QED BY <2>1, <2>2
<1>9. ASSUME NEW c \in Clients, Fd(server, c) \in fds, Running(server, c)
      PROVE  MayServe(server', c)
  <2>1. Running(s, c) /\ Fd(s, c) \in s.AllClients
    BY <1>4, <1>5, <1>9
  <2>2. ~Ignored(s, c) /\ ~Barred(s, c)
    BY <1>4, <2>1 DEF Good, ClientGood, Placed
  <2> QED BY <1>8, <2>1, <2>2
<1> QED BY <1>2, <1>3, <1>6, <1>8, <1>9, ServeConnectionsKeeps

LEMMA PickKeeps ==
  ASSUME DispatchInv, Pick
  PROVE  DispatchInv'
<1>1. PICK r \in loop.ready :
        LET c == r[2]
            rest == loop.ready \ {r}
            killed == server.client[c].state = "none"
            kickout == ~killed /\ server.grabState = "GrabKickout"
        IN  \/ killed /\ Serve(rest) /\ UNCHANGED server
            \/ kickout /\ Serve({}) /\ server' = [server EXCEPT !.grabState = "GrabActive"]
            \/ /\ ~killed /\ ~kickout /\ Gone(server, c)
               /\ server' = Wrong(server, "ClientWithoutConnection") /\ UNCHANGED loop
            \/ /\ ~killed /\ ~kickout /\ Running(server, c)
               /\ loop' = [at |-> "serve", ready |-> rest, client |-> c]
               /\ UNCHANGED server
  BY DEF Pick
<1> DEFINE c == r[2]
           rest == loop.ready \ {r}
           killed == server.client[c].state = "none"
           kickout == ~killed /\ server.grabState = "GrabKickout"
<1>2. /\ server \in ServerTypes /\ Good(server) /\ Sound
      /\ loop.ready \subseteq Fds \X Clients /\ LoopTypes /\ LoopGood /\ loop.at = "pick"
  BY DEF DispatchInv, Pick, LoopTypes
<1>3. c \in Clients /\ rest \subseteq Fds \X Clients
  BY <1>2
<1>4. \A q \in rest : q[2] \in Clients /\ q[2] # c
  BY <1>2 DEF LoopGood
<1>5. MayServe(server, c) /\ \A q \in rest : MayServe(server, q[2])
  BY <1>2 DEF LoopGood
<1>6. \A q, p \in rest : q[2] = p[2] => q = p
  BY <1>2 DEF LoopGood
<1>7. CASE killed /\ Serve(rest) /\ UNCHANGED server
  <2>1. LoopTypes' /\ loop.at' \in {"wait", "pick"} /\ loop.ready' = rest
    BY <1>3, <1>7, ServeDoes
  <2>2. LoopGood'
    BY <1>5, <1>6, <1>7, <2>1 DEF LoopGood
  <2> QED BY <1>2, <1>7, <2>1, <2>2 DEF DispatchInv, Sound
<1>8. CASE kickout /\ Serve({}) /\ server' = [server EXCEPT !.grabState = "GrabActive"]
  <2>1. LoopTypes' /\ loop.at' \in {"wait", "pick"} /\ loop.ready' = {}
    BY <1>8, ServeDoes
  <2>2. LoopGood'
    BY <2>1 DEF LoopGood
  <2>3. server' \in ServerTypes
    BY <1>2, <1>8 DEF ServerTypes
  <2>4. /\ server'.client = server.client /\ server'.buffered = server.buffered
        /\ server'.grabWaiters = server.grabWaiters
        /\ server'.GrabInProgress = server.GrabInProgress
        /\ server'.grabClient = server.grabClient /\ server'.grabState = "GrabActive"
    BY <1>2, <1>8 DEF ServerTypes
  <2>5. SameSets(server, server')
    BY <1>2, <1>8 DEF ServerTypes, SameSets
  <2>6. \A d \in Clients : ClientGood(server', d)
    <3>1. \A d \in Clients : SameClient(server, server', d)
      BY <2>4 DEF SameClient
    <3>2. \A d \in Clients : SameAt(server, server', Fd(server, d))
      BY <2>5, SameSetsAt
    <3> QED BY <1>2, <2>4, <3>1, <3>2, SameGood DEF Good
  <2>7. \A d \in Clients : /\ Running(server', d) <=> Running(server, d)
                           /\ Fd(server', d) = Fd(server, d)
    BY <2>4 DEF Running, Fd
  <2>8. Heard(server') = Heard(server)
    BY <2>5 DEF Heard, SameSets
  <2>9. GrabGood(server')
    <3>1. server.GrabInProgress # 0 /\ server.GrabInProgress \in Clients
      BY <1>2, <1>8 DEF Good, GrabGood, ServerTypes
    <3> QED BY <1>2, <2>4, <2>7, <3>1 DEF Good, GrabGood
  <2>10. Good(server')
    <3>1. \A fd \in Heard(server') : \E d \in Clients : Owns(server', d, fd)
      BY <1>2, <2>7, <2>8 DEF Good, Owns
    <3> QED BY <1>2, <2>6, <2>7, <2>9, <3>1 DEF Good
  <2> QED BY <2>1, <2>2, <2>3, <2>10 DEF DispatchInv
<1>9. CASE server' = Wrong(server, "ClientWithoutConnection") /\ UNCHANGED loop
  <2>1. server' \in ServerTypes /\ ~Sound'
    BY <1>2, <1>9, WrongDoes DEF Sound
  <2>2. LoopTypes'
    BY <1>2, <1>9 DEF LoopTypes
  <2> QED BY <2>1, <2>2 DEF DispatchInv
<1>10. CASE /\ ~kickout /\ ~killed /\ Running(server, c)
            /\ loop' = [at |-> "serve", ready |-> rest, client |-> c]
            /\ UNCHANGED server
  <2>1. LoopTypes'
    BY <1>3, <1>10, LoopTypesOf
  <2>2. /\ loop'.at = "serve" /\ loop'.ready = rest /\ loop'.client = c
    BY <1>10
  <2>3. ~Ignored(server, c) /\ ~Barred(server, c)
    BY <1>5, <1>10 DEF MayServe
  <2> HIDE DEF c, rest
  <2>4. LoopGood'
    BY <1>3, <1>4, <1>5, <1>6, <1>10, <2>2, <2>3 DEF LoopGood, me
  <2> QED BY <1>2, <1>10, <2>1, <2>4 DEF DispatchInv, Sound
<1> QED BY <1>1, <1>7, <1>8, <1>9, <1>10

-----------------------------------------------------------------------------
(* The theorems.                                                             *)

LEMMA InitGood ==
  ASSUME Init
  PROVE  DispatchInv
<1>1. \A c \in Clients : server.client[c] = NullClient /\ ~Running(server, c)
  BY DEF Init, NullClient, Running
<1>2. server \in ServerTypes
  <2>1. [c \in Clients |-> NullClient] \in [Clients -> ClientTypes]
    BY NullClientType
  <2>2. [c \in Clients |-> 0] \in [Clients -> 0 .. Capacity]
    BY DispatchAssumption
  <2>3. <<>> \in Seq(Clients \cup {0})
    OBVIOUS
  <2> QED BY <2>1, <2>2, <2>3 DEF Init, ServerTypes
<1>3. LoopTypes
  BY DEF Init, LoopTypes
<1>4. LoopGood
  BY DEF Init, LoopGood
<1>5. \A c \in Clients : ClientGood(server, c)
  BY <1>1 DEF ClientGood, Init, NullClient, Fd
<1>6. Heard(server) = {}
  BY DEF Heard, Init
<1>7. GrabGood(server)
  BY DEF GrabGood, Init
<1> QED BY <1>1, <1>2, <1>3, <1>4, <1>5, <1>6, <1>7 DEF DispatchInv, Good

LEMMA UnchangedKeeps ==
  ASSUME DispatchInv, UNCHANGED <<server, loop>>
  PROVE  DispatchInv'
<1>1. LoopTypes'
  BY DEF DispatchInv, LoopTypes
<1>2. Sound => Good(server') /\ LoopGood'
  BY DEF DispatchInv, LoopGood, me
<1> QED BY <1>1, <1>2 DEF DispatchInv, Sound

LEMMA NextKeeps ==
  ASSUME DispatchInv, [Next]_vars
  PROVE  DispatchInv'
<1>1. CASE ProcessWorkQueue
  BY <1>1, ProcessWorkQueueKeeps
<1>2. CASE UseBuffered
  BY <1>2, UseBufferedKeeps
<1>3. CASE SelectFails
  BY <1>3, SelectFailsKeeps
<1>4. CASE CheckConnections
  BY <1>4, CheckConnectionsKeeps
<1>5. CASE Select \/ SelectFindsConnection
  <2>1. CASE Select
    BY <2>1, SelectFindsKeeps DEF Select
  <2>2. CASE SelectFindsConnection
    BY <2>2, SelectFindsKeeps DEF SelectFindsConnection
  <2> QED BY <1>5, <2>1, <2>2
<1>6. CASE Pick
  BY <1>6, PickKeeps
<1>7. CASE ReadFails
  BY <1>7, ReadFailsKeeps
<1>8. CASE ReadPartOfRequest
  BY <1>8, ReadPartKeeps
<1>9. CASE ReadSome
  BY <1>9, ReadSomeKeeps
<1>10. CASE OtherRequest
  BY <1>10, OtherRequestKeeps
<1>11. CASE ProcGrabServer
  BY <1>11, ProcGrabServerKeeps
<1>12. CASE ProcUngrabServer
  BY <1>12, ProcUngrabServerKeeps
<1>13. CASE ProcOpenFont
  BY <1>13, ProcOpenFontKeeps
<1>14. CASE ProcXTestFakeInput
  BY <1>14, ProcXTestFakeInputKeeps
<1>15. CASE ProcXTestGrabControl
  BY <1>15, ProcXTestGrabControlKeeps
<1>16. CASE ProcChangeCloseDownMode
  BY <1>16, ProcChangeCloseDownModeKeeps
<1>17. CASE ProcKillClient
  BY <1>17, ProcKillClientKeeps
<1>18. CASE CloseDownRetainedResources
  BY <1>18, RetainedKeeps
<1>19. CASE FlushBeforeSelect
  BY <1>19, FlushBeforeSelectKeeps
<1>20. CASE \E fd \in Fds : Send(fd) \/ PeerGone(fd)
  BY <1>20, UnchangedKeeps DEF Send, PeerGone
<1>21. CASE Stopped \/ UNCHANGED vars
  BY <1>21, UnchangedKeeps DEF Stopped, vars
<1> QED BY <1>1, <1>2, <1>3, <1>4, <1>5, <1>6, <1>7, <1>8, <1>9, <1>10, <1>11, <1>12,
           <1>13, <1>14, <1>15, <1>16, <1>17, <1>18, <1>19, <1>20, <1>21
        DEF Next, Server, Peers

LEMMA Invariance == Spec => []DispatchInv
<1>1. Init => DispatchInv
  BY InitGood
<1>2. DispatchInv /\ [Next]_vars => DispatchInv'
  BY NextKeeps
<1> QED BY <1>1, <1>2, PTL DEF Spec

(* The server's sets, queue and loop have their types, and only clients are  *)
(* served.                                                                   *)
THEOREM TypeCorrect == Spec => []TypeOK
<1>1. DispatchInv => TypeOK
  BY DEF DispatchInv, ServerTypes, ClientTypes, Numbers, LoopTypes, TypeOK
<1> QED BY <1>1, Invariance, PTL

(* However many clients sleep, wake, are barred by a grab or become          *)
(* impervious to it, the server listens to exactly those that may be served, *)
(* and a grab that ends brings back exactly those that do not sleep.         *)
THEOREM ListensToAllWhoMayBeServed == Spec => []Listened
<1>1. DispatchInv => Listened
  <2> SUFFICES ASSUME DispatchInv, Sound, NEW c \in Clients, Running(server, c)
               PROVE  LET fd == Fd(server, c)
                      IN  /\ fd \in server.AllClients <=> ~Ignored(server, c) /\ ~Barred(server, c)
                          /\ Barred(server, c) =>
                               (fd \in server.SavedAllClients <=> ~Ignored(server, c))
    BY DEF Listened
  <2> QED BY DEF DispatchInv, Good, ClientGood, Placed
<1> QED BY <1>1, Invariance, PTL

(* A request left in a buffer is never forgotten: whichever set speaks for a *)
(* client, ClientsWithInput, the Saved or the Ignored one, it tells whether  *)
(* the client's buffer has requests.                                         *)
THEOREM BufferedRequestsAreKnown == Spec => []NoneForgotten
<1>1. DispatchInv => NoneForgotten
  <2> SUFFICES ASSUME DispatchInv, Sound, NEW c \in Clients, Running(server, c)
               PROVE  LET told == IF Ignored(server, c) THEN server.IgnoredClientsWithInput
                                  ELSE IF Barred(server, c) THEN server.SavedClientsWithInput
                                  ELSE server.ClientsWithInput
                      IN  Fd(server, c) \in told <=> server.buffered[c] > 0
    BY DEF NoneForgotten
  <2> QED BY DEF DispatchInv, Good, ClientGood, Placed
<1> QED BY <1>1, Invariance, PTL

(* A connection number in any of the sets is that of a client that is        *)
(* connected: whoever gets the number of a closed connection starts afresh.  *)
THEOREM NewClientsStartAfresh == Spec => []NothingInherited
<1>1. DispatchInv => NothingInherited
  <2> SUFFICES ASSUME DispatchInv, Sound
               PROVE  \A fd \in Heard(server) :
                        fd \in {Fd(server, c) : c \in {d \in Clients : Running(server, d)}}
    BY DEF NothingInherited, Heard
  <2> QED BY DEF DispatchInv, Good, Owns
<1> QED BY <1>1, Invariance, PTL

(* While a client has the server grabbed, no other's request is executed but *)
(* those of the clients impervious to grabs.                                 *)
THEOREM GrabsExclude == Spec => []GrabExclusive
<1>1. DispatchInv => GrabExclusive
  BY DEF DispatchInv, LoopGood, Serving, GrabExclusive
<1> QED BY <1>1, Invariance, PTL

=============================================================================
