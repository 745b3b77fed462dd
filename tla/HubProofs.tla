----------------------------- MODULE HubProofs -----------------------------
(* For any number of clients, rooms, sessions and notifying goroutines, and  *)
(* any buffer: the types, and the safety of the hub's own sends.             *)
EXTENDS Hub, TLAPS

LEMMA InitTypeOK == Init => TypeOK
  BY SendBufferIsPositive, NoneIsNothing DEF Init, TypeOK, Selecting, Resting

\* A nonblocking send keeps the buffer within its bound.
LEMMA TrySendType ==
  ASSUME TypeOK, NEW c \in Clients, NEW who \in {"hub", "notify"}, TrySend(who, c)
  PROVE  /\ send' \in [Clients -> 0 .. SendBuffer]
         /\ panic' \in {"no", "hub", "dispatch", "notify"}
  BY SendBufferIsPositive DEF TypeOK, TrySend, Enqueue

LEMMA ReadType ==
  ASSUME TypeOK, NEW c \in Clients, ReadStep(c)
  PROVE  TypeOK'
<1>1. CASE Connect(c)
  BY <1>1 DEF TypeOK, Connect, hubVars
<1>2. CASE Answer(c)
  BY <1>2 DEF TypeOK, Answer, hubVars
<1>3. ASSUME NEW s \in Sessions, Joined(c, s) PROVE TypeOK'
  BY <1>3 DEF TypeOK, Joined
<1>4. CASE Respond(c)
  BY <1>4, SendBufferIsPositive DEF TypeOK, Respond, Enqueue, hubVars
<1>5. CASE ReadFails(c)
  BY <1>5 DEF TypeOK, ReadFails, hubVars
<1>6. QED
  BY <1>1, <1>2, <1>3, <1>4, <1>5 DEF ReadStep

LEMMA WriteType ==
  ASSUME TypeOK, NEW c \in Clients, WriteStep(c)
  PROVE  TypeOK'
<1>1. CASE Write(c)
  BY <1>1, SendBufferIsPositive DEF TypeOK, Write, hubVars
<1>2. CASE WriteFails(c)
  BY <1>2, SendBufferIsPositive DEF TypeOK, WriteFails, hubVars
<1>3. CASE WriterEnds(c)
  BY <1>3 DEF TypeOK, WriterEnds, hubVars
<1>4. QED
  BY <1>1, <1>2, <1>3 DEF WriteStep

LEMMA AfterUnregisterType ==
  ASSUME NEW c \in Clients, NEW peers \in SUBSET Clients
  PROVE  /\ AfterUnregister(c, peers) \in
              [pc : {"select", "peerLeft", "report"}, client : Clients \cup {None},
               todo : SUBSET Clients]
         /\ AfterUnregister(c, peers).pc # "select" => AfterUnregister(c, peers).client \in Clients
  BY DEF AfterUnregister, Selecting

LEMMA HubType ==
  ASSUME TypeOK, HubStep
  PROVE  TypeOK'
<1>1. ASSUME NEW c \in Clients, Register(c) PROVE TypeOK'
  BY <1>1 DEF TypeOK, Register
<1>2. ASSUME NEW c \in Clients, Unregister(c) PROVE TypeOK'
  <2> DEFINE peers == roomClients[room[c]] \ {c}
  <2>1. peers \in SUBSET Clients
    BY DEF TypeOK
  <2>2. /\ hub' \in [pc : {"select", "peerLeft", "report"}, client : Clients \cup {None},
                     todo : SUBSET Clients]
        /\ hub'.pc # "select" => hub'.client \in Clients
    BY <1>2, <2>1, AfterUnregisterType DEF Unregister
  <2>3. sessionClients' \in [Sessions -> Clients \cup {None}]
    BY <1>2 DEF TypeOK, Unregister
  <2>4. roomClients' \in [Rooms -> SUBSET Clients]
    BY <1>2, <2>1 DEF TypeOK, Unregister
  <2>5. reader' \in [Clients -> {"unborn", "registering", "reading", "respond", "ending", "gone"}]
    BY <1>2 DEF TypeOK, Unregister
  <2>6. UNCHANGED <<room, writer, session, send, notifier, reported, panic>>
        /\ clients' \subseteq Clients /\ closed' \subseteq Clients
    BY <1>2 DEF TypeOK, Unregister
  <2> QED
    BY <2>2, <2>3, <2>4, <2>5, <2>6 DEF TypeOK
<1>3. ASSUME NEW p \in Clients, PeerLeft(p) PROVE TypeOK'
  <2>1. send' \in [Clients -> 0 .. SendBuffer] /\ panic' \in {"no", "hub", "dispatch", "notify"}
    BY <1>3, TrySendType DEF PeerLeft
  <2>2. /\ hub' \in [pc : {"select", "peerLeft", "report"}, client : Clients \cup {None},
                     todo : SUBSET Clients]
        /\ hub'.pc # "select" => hub'.client \in Clients
    BY <1>3 DEF PeerLeft, TypeOK
  <2>3. QED
    BY <1>3, <2>1, <2>2 DEF TypeOK, PeerLeft
<1>4. CASE Report
  BY <1>4 DEF TypeOK, Report, Selecting, clientVars
<1>5. QED
  BY <1>1, <1>2, <1>3, <1>4 DEF HubStep

LEMMA NotifyType ==
  ASSUME TypeOK, NEW n \in Notifiers, NotifyStep(n)
  PROVE  TypeOK'
<1>1. ASSUME NEW s \in Sessions, NotifyLookup(n, s) PROVE TypeOK'
  BY <1>1 DEF TypeOK, NotifyLookup, clientVars, hubVars
<1>2. CASE NotifySend(n)
  <2>1. notifier[n].client \in Clients
    BY <1>2 DEF TypeOK, NotifySend
  <2>2. send' \in [Clients -> 0 .. SendBuffer] /\ panic' \in {"no", "hub", "dispatch", "notify"}
    BY <1>2, <2>1, TrySendType DEF NotifySend
  <2>3. QED
    BY <1>2, <2>2 DEF TypeOK, NotifySend, Resting, hubVars
<1>3. QED
  BY <1>1, <1>2 DEF NotifyStep

LEMMA NextTypeOK == TypeOK /\ [Next]_vars => TypeOK'
<1> SUFFICES ASSUME TypeOK, [Next]_vars PROVE TypeOK'
  OBVIOUS
<1>1. CASE UNCHANGED vars
  BY <1>1 DEF TypeOK, vars, clientVars, hubVars
<1>2. CASE Next
  BY <1>2, ReadType, WriteType, HubType, NotifyType DEF Next
<1>3. QED
  BY <1>1, <1>2

\* Every variable keeps its type in every behaviour.
THEOREM TypeCorrect == Spec => []TypeOK
  BY InitTypeOK, NextTypeOK, PTL DEF Spec

-----------------------------------------------------------------------------
(* What a client's readPump says of the lists of the hub, and that the hub  *)
(* loop is only about to send to clients that are registered.               *)

Connected == {"reading", "respond", "ending"}

ReaderKnown ==
  /\ \A c \in Clients : c \in clients <=> reader[c] \in Connected
  /\ \A c \in closed : reader[c] = "gone"

TodoConnected == hub.todo \subseteq clients

HubInv == ReaderKnown /\ TodoConnected /\ RoomListExact /\ RouteSound /\ OwnSendsSafe

LEMMA InitHubInv == Init => HubInv
  BY DEF Init, HubInv, ReaderKnown, TodoConnected, RoomListExact, RouteSound,
         OwnSendsSafe, Connected, Selecting

\* A step of the pumps other than a join: nothing the invariant reads changes,
\* but the place of one reader within its call.
LEMMA ReadHubInv ==
  ASSUME TypeOK, HubInv, NEW c \in Clients, ReadStep(c)
  PROVE  HubInv'
<1>1. CASE Connect(c)
  BY <1>1 DEF TypeOK, HubInv, ReaderKnown, TodoConnected, RoomListExact, RouteSound,
              OwnSendsSafe, Connected, Connect, hubVars
<1>2. CASE Answer(c)
  BY <1>2 DEF TypeOK, HubInv, ReaderKnown, TodoConnected, RoomListExact, RouteSound,
              OwnSendsSafe, Connected, Answer, hubVars
<1>3. ASSUME NEW s \in Sessions, Joined(c, s) PROVE HubInv'
  <2>1. c \in clients
    BY <1>3 DEF HubInv, ReaderKnown, Connected, Joined
  <2>2. RouteSound'
    <3> SUFFICES ASSUME NEW t \in Sessions, sessionClients'[t] # None
                 PROVE  /\ session'[sessionClients'[t]] # None
                        /\ session'[sessionClients'[t]] = t => sessionClients'[t] \in clients
      BY <1>3 DEF RouteSound, Joined
    <3>1. CASE t = s
      BY <1>3, <2>1, <3>1, NoneIsNothing DEF TypeOK, Joined
    <3>2. CASE t # s
      <4>1. sessionClients'[t] = sessionClients[t] /\ sessionClients[t] \in Clients
        BY <1>3, <3>2 DEF TypeOK, Joined
      <4>2. CASE sessionClients[t] = c
        BY <1>3, <2>1, <4>1, <4>2, NoneIsNothing DEF TypeOK, Joined
      <4>3. CASE sessionClients[t] # c
        BY <1>3, <4>1, <4>3 DEF TypeOK, Joined, HubInv, RouteSound
      <4>4. QED
        BY <4>2, <4>3
    <3>3. QED
      BY <3>1, <3>2
  <2>3. QED
    BY <1>3, <2>2 DEF TypeOK, HubInv, ReaderKnown, TodoConnected, RoomListExact,
                      OwnSendsSafe, Connected, Joined
<1>4. CASE Respond(c)
  <2>1. c \notin closed
    BY <1>4 DEF HubInv, ReaderKnown, Respond
  <2>2. QED
    BY <1>4, <2>1 DEF TypeOK, HubInv, ReaderKnown, TodoConnected, RoomListExact, RouteSound,
                      OwnSendsSafe, Connected, Respond, hubVars
<1>5. CASE ReadFails(c)
  BY <1>5 DEF TypeOK, HubInv, ReaderKnown, TodoConnected, RoomListExact, RouteSound,
              OwnSendsSafe, Connected, ReadFails, hubVars
<1>6. QED
  BY <1>1, <1>2, <1>3, <1>4, <1>5 DEF ReadStep

LEMMA WriteHubInv ==
  ASSUME HubInv, NEW c \in Clients, WriteStep(c)
  PROVE  HubInv'
  BY DEF HubInv, ReaderKnown, TodoConnected, RoomListExact, RouteSound, OwnSendsSafe,
         WriteStep, Write, WriteFails, WriterEnds, hubVars

LEMMA UnregisterHubInv ==
  ASSUME TypeOK, HubInv, NEW c \in Clients, Unregister(c)
  PROVE  HubInv'
<1> DEFINE peers == roomClients[room[c]] \ {c}
<1>1. c \in clients
  BY DEF HubInv, ReaderKnown, Connected, Unregister
<1>2. RoomListExact'
  BY <1>1 DEF TypeOK, HubInv, RoomListExact, Unregister
<1>3. ReaderKnown'
  BY <1>1 DEF TypeOK, HubInv, ReaderKnown, Connected, Unregister
<1>4. peers \subseteq clients'
  BY DEF TypeOK, HubInv, RoomListExact, Unregister
<1>5. TodoConnected'
  BY <1>4 DEF TodoConnected, Unregister, AfterUnregister, Selecting
<1>6. RouteSound'
  BY <1>1 DEF TypeOK, HubInv, RouteSound, Unregister
<1>7. QED
  BY <1>2, <1>3, <1>5, <1>6 DEF HubInv, OwnSendsSafe, Unregister

LEMMA HubHubInv ==
  ASSUME TypeOK, HubInv, HubStep
  PROVE  HubInv'
<1>1. ASSUME NEW c \in Clients, Register(c) PROVE HubInv'
  <2>1. RoomListExact'
    <3>1. c \notin closed
      BY <1>1 DEF HubInv, ReaderKnown, Register
    <3>2. QED
      BY <1>1, <3>1 DEF TypeOK, HubInv, RoomListExact, Register
  <2>2. QED
    BY <1>1, <2>1 DEF TypeOK, HubInv, ReaderKnown, TodoConnected, RouteSound,
                      OwnSendsSafe, Connected, Register
<1>2. ASSUME NEW c \in Clients, Unregister(c) PROVE HubInv'
  BY <1>2, UnregisterHubInv
<1>3. ASSUME NEW p \in Clients, PeerLeft(p) PROVE HubInv'
  <2>1. p \notin closed
    BY <1>3 DEF HubInv, TodoConnected, RoomListExact, PeerLeft
  <2>2. UNCHANGED panic
    BY <1>3, <2>1 DEF PeerLeft, TrySend
  <2>3. hub'.todo = hub.todo \ {p}
    BY <1>3 DEF PeerLeft, TypeOK
  <2>4. QED
    BY <1>3, <2>2, <2>3 DEF HubInv, ReaderKnown, TodoConnected, RoomListExact, RouteSound,
                            OwnSendsSafe, PeerLeft
<1>4. CASE Report
  BY <1>4 DEF HubInv, ReaderKnown, TodoConnected, RoomListExact, RouteSound, OwnSendsSafe,
              Report, Selecting, clientVars
<1>5. QED
  BY <1>1, <1>2, <1>3, <1>4 DEF HubStep

LEMMA NotifyHubInv ==
  ASSUME HubInv, NEW n \in Notifiers, NotifyStep(n)
  PROVE  HubInv'
  BY DEF HubInv, ReaderKnown, TodoConnected, RoomListExact, RouteSound, OwnSendsSafe,
         NotifyStep, NotifyLookup, NotifySend, TrySend, Enqueue, clientVars, hubVars

LEMMA NextHubInv == TypeOK /\ HubInv /\ [Next]_vars => HubInv'
<1> SUFFICES ASSUME TypeOK, HubInv, [Next]_vars PROVE HubInv'
  OBVIOUS
<1>1. CASE UNCHANGED vars
  BY <1>1 DEF HubInv, ReaderKnown, TodoConnected, RoomListExact, RouteSound, OwnSendsSafe,
              vars, clientVars, hubVars
<1>2. CASE Next
  BY <1>2, ReadHubInv, WriteHubInv, HubHubInv, NotifyHubInv DEF Next
<1>3. QED
  BY <1>1, <1>2

LEMMA HubCorrect == Spec => []HubInv
  BY InitHubInv, NextHubInv, TypeCorrect, PTL DEF Spec

\* The sends that the hub loop and dispatch make outside the mutex never meet a
\* closed channel.
THEOREM OwnSendsNeverPanic == Spec => []OwnSendsSafe
<1>1. HubInv => OwnSendsSafe
  BY DEF HubInv
<1>2. QED
  BY <1>1, HubCorrect, PTL

\* The list of a room always holds the registered clients of that room.
THEOREM RoomListsExact == Spec => []RoomListExact
<1>1. HubInv => RoomListExact
  BY DEF HubInv
<1>2. QED
  BY <1>1, HubCorrect, PTL

\* A session leads to a client bound to it, registered unless it joined again.
THEOREM RoutesSound == Spec => []RouteSound
<1>1. HubInv => RouteSound
  BY DEF HubInv
<1>2. QED
  BY <1>1, HubCorrect, PTL

-----------------------------------------------------------------------------
(* The loss of a client, and its report.                                     *)

\* The hub loop has unregistered c and is on its way to OnDisconnect.
Reporting(c) == hub.pc # "select" /\ hub.client = c

\* A client is reported, or about to be, exactly when it had a session and is
\* unregistered (hub.go:86-139), and never twice: the safety part of
\* LossReported.
LossAccounted ==
  \A c \in Clients :
    /\ c \in reported \/ Reporting(c) <=> reader[c] = "gone" /\ session[c] # None
    /\ ~(c \in reported /\ Reporting(c))

LEMMA InitLoss == Init => LossAccounted
  BY DEF Init, LossAccounted, Reporting, Selecting

\* Every step but those of the hub loop leaves alone who is gone, who is
\* reported and what the loop is at.
LEMMA SameLoss ==
  ASSUME LossAccounted, UNCHANGED <<hub, reported>>,
         \A c \in Clients : \/ reader'[c] = reader[c] /\ session'[c] = session[c]
                            \/ reader[c] # "gone" /\ reader'[c] # "gone"
  PROVE  LossAccounted'
  BY DEF LossAccounted, Reporting

LEMMA UnregisterLoss ==
  ASSUME TypeOK, LossAccounted, NEW c \in Clients, Unregister(c)
  PROVE  LossAccounted'
<1> DEFINE peers == roomClients[room[c]] \ {c}
<1>1. /\ hub.pc = "select" /\ hub' = AfterUnregister(c, peers)
      /\ reader' = [reader EXCEPT ![c] = "gone"] /\ reader[c] = "ending"
      /\ UNCHANGED <<session, reported>>
  BY DEF Unregister
<1> HIDE DEF peers
<1>2. /\ c \notin reported /\ reader'[c] = "gone"
      /\ \A d \in Clients \ {c} : reader'[d] = reader[d]
  BY <1>1 DEF LossAccounted, TypeOK
<1>3. CASE session[c] = None
  <2>1. hub'.pc = "select"
    BY <1>1, <1>3 DEF AfterUnregister, Selecting
  <2> QED
    BY <1>1, <1>2, <1>3, <2>1 DEF LossAccounted, Reporting
<1>4. CASE session[c] # None
  <2>1. hub'.pc # "select" /\ hub'.client = c
    BY <1>1, <1>4 DEF AfterUnregister
  <2> QED
    BY <1>1, <1>2, <1>4, <2>1 DEF LossAccounted, Reporting
<1> QED
  BY <1>3, <1>4

LEMMA NextLoss == TypeOK /\ LossAccounted /\ [Next]_vars => LossAccounted'
<1> SUFFICES ASSUME TypeOK, LossAccounted, [Next]_vars PROVE LossAccounted'
  OBVIOUS
<1>1. ASSUME NEW c \in Clients, ReadStep(c) PROVE LossAccounted'
  BY <1>1, SameLoss
  DEF ReadStep, Connect, Answer, Joined, Respond, ReadFails, TypeOK, hubVars
<1>2. ASSUME NEW c \in Clients, WriteStep(c) PROVE LossAccounted'
  BY <1>2, SameLoss DEF WriteStep, Write, WriteFails, WriterEnds, hubVars
<1>3. ASSUME NEW c \in Clients, Register(c) PROVE LossAccounted'
  BY <1>3, SameLoss DEF Register, TypeOK
<1>4. ASSUME NEW c \in Clients, Unregister(c) PROVE LossAccounted'
  BY <1>4, UnregisterLoss
<1>5. ASSUME NEW p \in Clients, PeerLeft(p) PROVE LossAccounted'
  <2>1. /\ hub.pc # "select" /\ hub'.pc # "select" /\ hub'.client = hub.client
        /\ UNCHANGED <<reader, session, reported>>
    BY <1>5 DEF PeerLeft, TypeOK
  <2> QED
    BY <2>1 DEF LossAccounted, Reporting
<1>6. CASE Report
  BY <1>6 DEF Report, Selecting, LossAccounted, Reporting, clientVars
<1>7. ASSUME NEW n \in Notifiers, NotifyStep(n) PROVE LossAccounted'
  BY <1>7, SameLoss DEF NotifyStep, NotifyLookup, NotifySend, clientVars, hubVars
<1>8. CASE UNCHANGED vars
  BY <1>8, SameLoss DEF vars, clientVars, hubVars
<1> QED
  BY <1>1, <1>2, <1>3, <1>4, <1>5, <1>6, <1>7, <1>8 DEF Next, HubStep

\* The loss of every client that had a session is given to OnDisconnect exactly
\* once, or the hub loop is just about to: however clients come, join, rejoin and
\* go, no session loses its connection without the start of a grace period.
THEOREM LossesAccounted == Spec => []LossAccounted
  BY InitLoss, NextLoss, TypeCorrect, PTL DEF Spec
=============================================================================
