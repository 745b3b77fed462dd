----------------------------- MODULE CallProofs -----------------------------
(* For any number of attempts, sockets and loops: the phone gives up only     *)
(* after all its attempts and never counts as connected again, whatever the   *)
(* server does; the server in a call is such a server; and the notice that    *)
(* the room was closed reaches no phone.                                      *)
EXTENDS Call, TLAPS

(* The types of the phone.                                                    *)

LEMMA BoundsFacts ==
  /\ MaxAttempts \in Nat /\ MaxAttempts > 0 /\ MaxSockets \in Nat
  /\ MaxSockets > MaxAttempts /\ 1 \in Sockets /\ Sockets \subseteq Nat \ {0}
  /\ MaxLoops \in Nat /\ 1 \in Loops
  BY BoundsArePositive DEF Sockets, Loops

LEMMA InitTypeOK == Init => TypeOK
<1> SUFFICES ASSUME Init PROVE TypeOK
  OBVIOUS
<1>1. <<>> \in Seq({"join", "offer", "leave"}) /\ <<>> \in Seq({"joined", "answer"})
  OBVIOUS
<1>2. /\ asked \in [Sockets -> Seq({"join", "offer", "leave"})]
      /\ coming \in [Sockets -> Seq({"joined", "answer"})]
  BY <1>1 DEF Init
<1>3. loop \in [Loops -> [at : {"none", "waiting", "offering", "over"},
                         attempt : 0 .. MaxAttempts]]
  BY BoundsFacts DEF Init
<1>4. wsRef \in 0 .. MaxSockets /\ (wsRef # 0 => socket[wsRef] # "none")
  BY BoundsFacts DEF Init, Sockets
<1> QED
  BY <1>2, <1>3, <1>4 DEF Init, TypeOK

SocketStates == {"none", "connecting", "open", "closing", "closed"}
Requests == {"join", "offer", "leave"}

LEMMA AppendType ==
  ASSUME NEW S, NEW s \in Seq(S), NEW e \in S
  PROVE  Append(s, e) \in Seq(S)
  OBVIOUS

LEMMA TailType ==
  ASSUME NEW S, NEW s \in Seq(S), s # <<>>
  PROVE  Tail(s) \in Seq(S)
  OBVIOUS

LEMMA OneElement ==
  ASSUME NEW e
  PROVE  Append(<<>>, e) = <<e>> /\ Tail(<<e>>) = <<>> /\ Head(<<e>>) = e
  OBVIOUS

LEMMA EmptyDomain == DOMAIN <<>> = {}
  OBVIOUS

LEMMA HeadIsFirst ==
  ASSUME NEW S, NEW s \in Seq(S), s # <<>>
  PROVE  Head(s) \in S /\ Head(s) = s[1] /\ 1 \in DOMAIN s
  OBVIOUS

LEMMA TailElements ==
  ASSUME NEW S, NEW s \in Seq(S), s # <<>>
  PROVE  \A i \in DOMAIN Tail(s) : Tail(s)[i] = s[i + 1] /\ i + 1 \in DOMAIN s
  OBVIOUS

LEMMA AppendWithout ==
  ASSUME NEW S, NEW s \in Seq(S), NEW e \in S, NEW x, e # x, \A i \in DOMAIN s : s[i] # x
  PROVE  \A i \in DOMAIN Append(s, e) : Append(s, e)[i] # x
  OBVIOUS

LEMMA ClosingType ==
  ASSUME TypeOK
  PROVE  /\ Closing \in [Sockets -> SocketStates]
         /\ \A w \in Sockets : Closing[w] = "none" <=> socket[w] = "none"
  BY DEF TypeOK, Closing, SocketStates

LEMMA SendType ==
  ASSUME TypeOK, NEW m \in Requests, Send(m)
  PROVE  asked' \in [Sockets -> Seq(Requests)]
<1>1. CASE wsRef # 0 /\ socket[wsRef] = "open"
  <2>1. wsRef \in Sockets
    BY <1>1 DEF TypeOK, Sockets
  <2>2. Append(asked[wsRef], m) \in Seq(Requests)
    BY <2>1 DEF TypeOK, Requests
  <2> QED
    BY <1>1, <2>1, <2>2 DEF TypeOK, Send, Requests
<1>2. CASE ~(wsRef # 0 /\ socket[wsRef] = "open")
  BY <1>2 DEF TypeOK, Send, Requests
<1> QED
  BY <1>1, <1>2

LEMMA ReceiveType ==
  ASSUME TypeOK, NEW w \in Sockets, NEW a, Receive(w, a)
  PROVE  asked' = asked /\ coming' \in [Sockets -> Seq({"joined", "answer"})]
  BY DEF TypeOK, Receive

LEMMA ReconnectType ==
  ASSUME TypeOK, Reconnect
  PROVE  /\ socket' \in [Sockets -> SocketStates]
         /\ wsRef' \in Sockets /\ socket'[wsRef'] # "none"
<1>1. PICK w \in Sockets : socket' = [Closing EXCEPT ![w] = "connecting"] /\ wsRef' = w
  BY DEF Reconnect
<1> QED
  BY <1>1, ClosingType DEF SocketStates

LEMMA WebSocketType ==
  ASSUME TypeOK, NEW w \in Sockets, OnOpen(w) \/ OnClose(w) \/ Message(w) \/ News(w)
  PROVE  TypeOK'
<1>1. CASE OnOpen(w)
  BY <1>1 DEF TypeOK, OnOpen, storeVars, wireVars, offerVars, retryVars
<1>2. CASE OnClose(w)
  <2>1. socket' \in [Sockets -> SocketStates]
    BY <1>2 DEF TypeOK, OnClose, SocketStates
  <2>2. wsRef' # 0 => wsRef \in Sockets /\ socket'[wsRef] # "none"
    BY <1>2 DEF TypeOK, OnClose, Sockets
  <2> QED
    BY <1>2, <2>1, <2>2 DEF TypeOK, OnClose, SocketStates, storeVars, wireVars, offerVars, retryVars
<1>3. CASE OnJoined(w)
  BY <1>3, ReceiveType DEF TypeOK, OnJoined, offerVars, retryVars
<1>4. CASE OnAnswer(w)
  BY <1>4, ReceiveType DEF TypeOK, OnAnswer, storeVars, offerVars
<1>5. CASE OnPeerLeft(w)
  BY <1>5 DEF TypeOK, OnPeerLeft, socketVars, wireVars, offerVars, retryVars
<1>6. CASE OnRoomClosed(w)
  BY <1>6 DEF TypeOK, OnRoomClosed, socketVars, wireVars, offerVars, retryVars
<1> QED
  BY <1>1, <1>2, <1>3, <1>4, <1>5, <1>6 DEF Message, News

LEMMA HandleType ==
  ASSUME TypeOK, NEW w \in Sockets, NEW a \in {"joined", "answer", ""}, Handle(w, a)
  PROVE  TypeOK'
<1>1. asked' \in [Sockets -> Seq(Requests)]
  <2>1. Tail(asked[w]) \in Seq(Requests)
    BY TailType DEF TypeOK, Handle, Requests
  <2> QED
    BY <2>1 DEF TypeOK, Handle, Requests
<1>2. coming' \in [Sockets -> Seq({"joined", "answer"})]
  <2>1. CASE a = ""
    BY <2>1 DEF TypeOK, Handle
  <2>2. CASE a # ""
    <3>1. a \in {"joined", "answer"} /\ coming[w] \in Seq({"joined", "answer"})
      BY <2>2 DEF TypeOK
    <3>2. Append(coming[w], a) \in Seq({"joined", "answer"})
      BY <3>1, AppendType
    <3> QED
      BY <2>2, <3>2 DEF TypeOK, Handle
  <2> QED
    BY <2>1, <2>2
<1> QED
  BY <1>1, <1>2 DEF TypeOK, Handle, Requests, storeVars, offerVars, retryVars

LEMMA EffectType ==
  ASSUME TypeOK, Effect
  PROVE  TypeOK'
<1>1. CASE JoinEffect
  <2>1. asked' \in [Sockets -> Seq(Requests)]
    BY <1>1, SendType DEF JoinEffect, Requests
  <2> QED
    BY <1>1, <2>1 DEF TypeOK, JoinEffect, Requests, offerVars, retryVars
<1>2. CASE OfferEffect
  BY <1>2 DEF TypeOK, OfferEffect, storeVars, socketVars, wireVars, retryVars
<1>3. CASE TriggerEffect
  <2>1. /\ loop' \in [Loops -> [at : {"none", "waiting", "offering", "over"},
                                attempt : 0 .. MaxAttempts]]
        /\ reconnection' \in {"connected", "reconnecting", "failed"}
    BY <1>3, BoundsFacts DEF TypeOK, TriggerEffect
  <2> QED
    BY <1>3, <2>1 DEF TypeOK, TriggerEffect, socketVars, wireVars, offerVars
<1>4. CASE Unmount
  <2>1. /\ socket' \in [Sockets -> SocketStates] /\ screen' = "home" /\ pc' = "closed"
        /\ wsRef' # 0 => socket'[wsRef'] # "none"
    BY <1>4, ClosingType, BoundsFacts DEF Unmount, TypeOK, Sockets
  <2> QED
    BY <1>4, <2>1 DEF TypeOK, Unmount, SocketStates, storeVars, wireVars, retryVars
<1> QED
  BY <1>1, <1>2, <1>3, <1>4 DEF Effect

LEMMA AttemptType ==
  ASSUME TypeOK, NEW l \in Loops, Attempt(l)
  PROVE  TypeOK'
<1>1. CASE TimerFires(l)
  <2>1. /\ loop' \in [Loops -> [at : {"none", "waiting", "offering", "over"},
                                attempt : 0 .. MaxAttempts]]
        /\ reconnection' \in {"connected", "reconnecting", "failed"}
    <3>1. CASE loop' = [loop EXCEPT ![l].at = "over"] /\ reconnection' \in {reconnection, "connected"}
      BY <3>1 DEF TypeOK
    <3>2. CASE loop' = [loop EXCEPT ![l].at = "offering"] /\ reconnection' = reconnection
      BY <3>2 DEF TypeOK
    <3> QED
      BY <1>1, <3>1, <3>2 DEF TimerFires, At, Resolved
  <2>2. /\ socket' \in [Sockets -> SocketStates] /\ wsRef' \in 0 .. MaxSockets
        /\ wsRef' # 0 => socket'[wsRef'] # "none"
    BY <1>1, ReconnectType, BoundsFacts DEF TypeOK, TimerFires, SocketStates, Sockets
  <2> QED
    BY <1>1, <2>1, <2>2 DEF TypeOK, TimerFires, SocketStates, storeVars, wireVars, offerVars
<1>2. CASE OfferMade(l)
  <2>1. asked' \in [Sockets -> Seq(Requests)]
    BY <1>2, SendType DEF OfferMade, Requests
  <2> QED
    BY <1>2, <2>1 DEF TypeOK, OfferMade, Resolved, At, Requests, storeVars, offerVars
<1>3. CASE OfferFails(l)
  <2>1. CASE At(l, "over") /\ UNCHANGED <<reconnection, connectionState>>
    BY <1>3, <2>1 DEF TypeOK, OfferFails, At, socketVars, wireVars, offerVars
  <2>2. CASE GivesUp(l)
    BY <1>3, <2>2 DEF TypeOK, OfferFails, GivesUp, At, socketVars, wireVars, offerVars
  <2>3. CASE TriesAgain(l)
    <3>1. loop' \in [Loops -> [at : {"none", "waiting", "offering", "over"},
                               attempt : 0 .. MaxAttempts]]
      BY <2>3, BoundsFacts DEF TypeOK, TriesAgain
    <3> QED
      BY <1>3, <2>3, <3>1 DEF TypeOK, OfferFails, TriesAgain, socketVars, wireVars, offerVars
  <2> QED
    BY <1>3, <2>1, <2>2, <2>3 DEF OfferFails
<1> QED
  BY <1>1, <1>2, <1>3 DEF Attempt

LEMMA NextTypeOK == TypeOK /\ [Next]_vars => TypeOK'
<1> SUFFICES ASSUME TypeOK, [Next]_vars PROVE TypeOK'
  OBVIOUS
<1>1. CASE UNCHANGED vars
  BY <1>1 DEF TypeOK, vars, storeVars, socketVars, wireVars, offerVars, retryVars
<1>2. CASE StreamReady
  BY <1>2 DEF TypeOK, StreamReady, storeVars, socketVars, wireVars, retryVars
<1>3. CASE FirstOfferSettles
  <2>1. asked' \in [Sockets -> Seq(Requests)]
    BY <1>3, SendType DEF TypeOK, FirstOfferSettles, Requests
  <2> QED
    BY <1>3, <2>1 DEF TypeOK, FirstOfferSettles, Requests, storeVars, retryVars
<1>4. CASE EndCall
  <2>1. asked' \in [Sockets -> Seq(Requests)]
    BY <1>4, SendType DEF TypeOK, EndCall, Requests
  <2>2. socket' \in [Sockets -> SocketStates] /\ wsRef' = 0 /\ wsRef' \in 0 .. MaxSockets
    BY <1>4, ClosingType, BoundsFacts DEF EndCall
  <2> QED
    BY <1>4, <2>1, <2>2 DEF TypeOK, EndCall, Requests, SocketStates
<1> QED
  BY <1>1, <1>2, <1>3, <1>4, WebSocketType, HandleType, EffectType, AttemptType DEF Next

\* The variables of the phone have their types, with any server.
THEOREM PhoneTypes == Spec => []TypeOK
  BY InitTypeOK, NextTypeOK, PTL DEF Spec

-----------------------------------------------------------------------------
(* The phone joins once, so it is "joined" once; hence only the first loop of *)
(* attempts is ever started, and each attempt opens the next socket.          *)

Quiet(w) == asked[w] = <<>> /\ coming[w] = <<>>

\* The join is the only message on its way.
Joining(w) ==
  /\ \/ asked[w] = <<"join">> /\ coming[w] = <<>>
     \/ asked[w] = <<>> /\ coming[w] = <<"joined">>
  /\ \A v \in Sockets \ {w} : Quiet(v)

NeverConnected ==
  /\ sessionId = FALSE
  /\ connectionState \in {"idle", "connecting"}
  /\ firstOffer = "none"
  /\ \A l \in Loops : loop[l].at = "none"

NotJoined == ~hasJoined /\ NeverConnected /\ \A w \in Sockets : Quiet(w)
Asking == hasJoined /\ NeverConnected /\ \E w \in Sockets : Joining(w)
Answered == hasJoined /\ \A w \in Sockets : ~JoinPending(w)

Stage == NotJoined \/ Asking \/ Answered

OneLoop ==
  /\ \A l \in Loops \ {1} : loop[l].at = "none"
  /\ connectionState = "connected" => loop[1].at = "none"
  /\ connectionState = "failed" =>
       loop[1].at = "over" /\ Opened = 1 .. MaxAttempts + 1

SocketPerAttempt ==
  /\ loop[1].at = "none" => Opened = 1 .. 1
  /\ loop[1].at \in {"waiting", "offering"} => loop[1].attempt \in 1 .. MaxAttempts
  /\ loop[1].at = "waiting" => Opened = 1 .. loop[1].attempt
  /\ loop[1].at = "offering" => Opened = 1 .. loop[1].attempt + 1
  /\ SocketsBounded

IInv == TypeOK /\ Stage /\ OneLoop /\ SocketPerAttempt

LEMMA InitIInv == Init => IInv
<1> SUFFICES ASSUME Init PROVE IInv
  OBVIOUS
<1>1. NotJoined
  BY DEF Init, NotJoined, NeverConnected, Quiet
<1>2. Opened = {1}
  BY BoundsFacts DEF Init, Opened
<1>3. 1 .. 1 = {1}
  OBVIOUS
<1>4. OneLoop /\ SocketPerAttempt
  BY <1>2, <1>3, BoundsFacts DEF Init, OneLoop, SocketPerAttempt, SocketsBounded
<1> QED
  BY <1>1, <1>4, InitTypeOK DEF IInv, Stage

(* Stages.                                                                    *)

LEMMA SendWithoutJoin ==
  ASSUME TypeOK, NEW m \in {"offer", "leave"}, Send(m), coming' = coming,
         \A w \in Sockets : ~JoinPending(w)
  PROVE  \A w \in Sockets : ~JoinPending(w)'
<1> SUFFICES ASSUME NEW w \in Sockets PROVE ~JoinPending(w)'
  OBVIOUS
<1>1. CASE asked' = asked
  BY <1>1 DEF JoinPending
<1>2. CASE asked' = [asked EXCEPT ![wsRef] = Append(@, m)] /\ wsRef # w
  <2>1. asked'[w] = asked[w]
    BY <1>2 DEF TypeOK
  <2> QED
    BY <2>1 DEF JoinPending
<1>3. CASE asked' = [asked EXCEPT ![wsRef] = Append(@, m)] /\ wsRef = w
  <2>1. asked[w] \in Seq(Requests)
    BY DEF TypeOK, Requests
  <2>2. asked'[w] = Append(asked[w], m)
    BY <1>3 DEF TypeOK
  <2>3. \A i \in DOMAIN asked[w] : asked[w][i] # "join"
    BY DEF JoinPending
  <2>4. \A i \in DOMAIN asked'[w] : asked'[w][i] # "join"
    BY <2>1, <2>2, <2>3
  <2> QED
    BY <2>4 DEF JoinPending
<1> QED
  BY <1>1, <1>2, <1>3 DEF Send

\* A step that leaves the wire alone and does not connect the phone.
LEMMA QuietStep ==
  ASSUME Stage, wireVars' = wireVars, hasJoined' = hasJoined,
         NeverConnected => NeverConnected'
  PROVE  Stage'
<1>1. \A w \in Sockets : (Quiet(w)' <=> Quiet(w)) /\ (JoinPending(w)' <=> JoinPending(w))
  BY DEF wireVars, Quiet, JoinPending
<1>2. \A w \in Sockets : Joining(w) => Joining(w)'
  BY <1>1 DEF wireVars, Joining
<1> QED
  BY <1>1, <1>2 DEF Stage, NotJoined, Asking, Answered

LEMMA JoinEffectStage ==
  ASSUME TypeOK, Stage, JoinEffect
  PROVE  Stage'
<1>1. NotJoined
  BY DEF Stage, Asking, Answered, JoinEffect
<1>2. NeverConnected' /\ hasJoined'
  BY <1>1 DEF NotJoined, NeverConnected, JoinEffect, offerVars, retryVars
<1>3. CASE wsRef # 0 /\ socket[wsRef] = "open"
  <2>1. wsRef \in Sockets
    BY <1>3 DEF TypeOK, Sockets
  <2>2. asked[wsRef] = <<>> /\ Append(asked[wsRef], "join") = <<"join">>
    BY <1>1, <2>1, OneElement DEF NotJoined, Quiet
  <2>3. asked' = [asked EXCEPT ![wsRef] = <<"join">>] /\ coming' = coming
    BY <1>3, <2>2 DEF JoinEffect, Send
  <2>4. asked'[wsRef] = <<"join">> /\ \A v \in Sockets \ {wsRef} : asked'[v] = asked[v]
    BY <2>1, <2>3 DEF TypeOK
  <2>5. Joining(wsRef)'
    <3>1. \A v \in Sockets \ {wsRef} : asked'[v] = <<>> /\ coming'[v] = <<>>
      BY <1>1, <2>3, <2>4 DEF NotJoined, Quiet
    <3>2. coming'[wsRef] = <<>>
      BY <1>1, <2>1, <2>3 DEF NotJoined, Quiet
    <3>3. wsRef' = wsRef
      BY DEF JoinEffect
    <3> QED
      BY <2>4, <3>1, <3>2, <3>3 DEF Joining, Quiet
  <2>6. wsRef' \in Sockets
    BY <2>1 DEF JoinEffect
  <2> QED
    BY <1>2, <2>5, <2>6 DEF Stage, Asking
<1>4. CASE ~(wsRef # 0 /\ socket[wsRef] = "open")
  <2>1. asked' = asked /\ coming' = coming
    BY <1>4 DEF JoinEffect, Send
  <2>2. \A w \in Sockets : ~JoinPending(w)'
    BY <1>1, <2>1 DEF NotJoined, Quiet, JoinPending
  <2> QED
    BY <1>2, <2>2 DEF Stage, Answered
<1> QED
  BY <1>3, <1>4

\* "joined" arrives.
LEMMA OnJoinedStage ==
  ASSUME TypeOK, Stage, NEW w \in Sockets, OnJoined(w)
  PROVE  Asking /\ Answered'
<1>1. coming[w] # <<>> /\ coming[w][1] = "joined" /\ 1 \in DOMAIN coming[w]
  BY DEF OnJoined, Receive, TypeOK
<1>2. ~NotJoined /\ ~Answered
  BY <1>1 DEF NotJoined, Quiet, Answered, JoinPending
<1>3. Asking
  BY <1>2 DEF Stage
<1>4. PICK v \in Sockets : Joining(v)
  BY <1>3 DEF Asking
<1>5. v = w /\ asked[w] = <<>> /\ coming[w] = <<"joined">>
  BY <1>1, <1>4 DEF Joining, Quiet
<1>6. asked' = asked /\ coming' = [coming EXCEPT ![w] = <<>>]
  BY <1>5 DEF OnJoined, Receive
<1>7. \A u \in Sockets : asked'[u] = <<>> /\ coming'[u] = <<>>
  BY <1>4, <1>5, <1>6 DEF Joining, Quiet, TypeOK
<1>8. \A u \in Sockets : ~JoinPending(u)'
  BY <1>7 DEF JoinPending
<1> QED
  BY <1>3, <1>8 DEF Answered, Asking, OnJoined

LEMMA OnAnswerStage ==
  ASSUME TypeOK, Stage, NEW w \in Sockets, OnAnswer(w)
  PROVE  Stage'
<1>1. coming[w] # <<>> /\ coming[w][1] = "answer"
  BY DEF OnAnswer, Receive, TypeOK
<1>2. ~NotJoined /\ ~Asking
  BY <1>1 DEF NotJoined, Asking, Joining, Quiet
<1>3. Answered
  BY <1>2 DEF Stage
<1>4. coming[w] \in Seq({"joined", "answer"}) /\ asked' = asked /\ coming'[w] = Tail(coming[w])
      /\ \A v \in Sockets \ {w} : coming'[v] = coming[v]
  BY DEF OnAnswer, Receive, TypeOK
<1>5. \A i \in DOMAIN coming'[w] : coming'[w][i] = coming[w][i + 1] /\ i + 1 \in DOMAIN coming[w]
  BY <1>1, <1>4
<1>6. \A v \in Sockets : ~JoinPending(v)'
  <2> SUFFICES ASSUME NEW v \in Sockets PROVE ~JoinPending(v)'
    OBVIOUS
  <2>1. \A i \in DOMAIN asked[v] : asked'[v][i] # "join"
    BY <1>3, <1>4 DEF Answered, JoinPending
  <2>2. \A i \in DOMAIN coming'[v] : coming'[v][i] # "joined"
    BY <1>3, <1>4, <1>5 DEF Answered, JoinPending
  <2> QED
    BY <1>4, <2>1, <2>2 DEF JoinPending
<1> QED
  BY <1>3, <1>6 DEF Stage, Answered, OnAnswer

LEMMA HandleStage ==
  ASSUME TypeOK, Stage, NEW w \in Sockets, NEW a \in {"joined", "answer", ""}, Handle(w, a)
  PROVE  Stage'
<1> DEFINE m == Head(asked[w])
<1>1. asked[w] # <<>> /\ asked[w] \in Seq(Requests) /\ coming[w] \in Seq({"joined", "answer"})
  BY DEF Handle, TypeOK, Requests
<1>2. /\ asked'[w] = Tail(asked[w])
      /\ coming'[w] = IF a = "" THEN coming[w] ELSE Append(coming[w], a)
      /\ \A v \in Sockets \ {w} : asked'[v] = asked[v] /\ coming'[v] = coming[v]
  BY DEF Handle, TypeOK
<1>3. hasJoined' = hasJoined /\ (NeverConnected => NeverConnected')
  BY DEF Handle, NeverConnected, storeVars, offerVars, retryVars
<1>4. ~NotJoined
  BY <1>1 DEF NotJoined, Quiet
<1>5. m \in Requests
  BY <1>1, HeadIsFirst
<1>6. CASE Asking
  <2>1. Joining(w) /\ asked[w] = <<"join">> /\ coming[w] = <<>>
    BY <1>1, <1>6 DEF Asking, Joining, Quiet
  <2>2. a \in {"joined", ""}
    <3>1. m = "join"
      BY <2>1, OneElement
    <3> QED
      BY <3>1 DEF Handle, Answers
  <2>3. asked'[w] = <<>>
    BY <1>2, <2>1, OneElement
  <2>4. \A v \in Sockets \ {w} : asked'[v] = <<>> /\ coming'[v] = <<>>
    BY <1>2, <2>1 DEF Joining, Quiet
  <2>5. CASE a = "joined"
    <3>1. coming'[w] = <<"joined">>
      BY <1>2, <2>1, <2>5, OneElement
    <3>2. Joining(w)'
      BY <2>3, <2>4, <3>1 DEF Joining, Quiet
    <3> QED
      BY <1>3, <1>6, <3>2 DEF Stage, Asking
  <2>6. CASE a = ""
    <3>1. \A v \in Sockets : asked'[v] = <<>> /\ coming'[v] = <<>>
      BY <1>2, <2>1, <2>3, <2>4, <2>6
    <3>2. \A v \in Sockets : ~JoinPending(v)'
      <4>1. \A v \in Sockets : DOMAIN asked'[v] = {} /\ DOMAIN coming'[v] = {}
        BY <3>1, EmptyDomain
      <4> QED
        BY <4>1 DEF JoinPending
    <3> QED
      BY <1>3, <1>6, <3>2 DEF Stage, Asking, Answered
  <2> QED
    BY <2>2, <2>5, <2>6
<1>7. CASE Answered
  <2>1. m # "join" /\ a # "joined"
    <3>1. m = asked[w][1] /\ 1 \in DOMAIN asked[w]
      BY <1>1, HeadIsFirst
    <3>2. m # "join"
      BY <1>7, <3>1 DEF Answered, JoinPending
    <3>3. m \in {"offer", "leave"}
      BY <1>5, <3>2 DEF Requests
    <3>4. a \in {"answer", ""}
      BY <3>3 DEF Handle, Answers
    <3> QED
      BY <3>2, <3>4
  <2>2. \A i \in DOMAIN asked'[w] : asked'[w][i] = asked[w][i + 1] /\ i + 1 \in DOMAIN asked[w]
    BY <1>1, <1>2, TailElements
  <2>3. \A i \in DOMAIN asked'[w] : asked'[w][i] # "join"
    BY <1>7, <2>2 DEF Answered, JoinPending
  <2>4. \A i \in DOMAIN coming[w] : coming[w][i] # "joined"
    BY <1>7 DEF Answered, JoinPending
  <2>5. \A i \in DOMAIN coming'[w] : coming'[w][i] # "joined"
    <3>1. CASE a = ""
      BY <1>2, <2>4, <3>1
    <3>2. CASE a = "answer"
      BY <1>1, <1>2, <2>4, <3>2, AppendWithout
    <3> QED
      BY <2>1, <3>1, <3>2
  <2>6. \A v \in Sockets : ~JoinPending(v)'
    BY <1>2, <1>7, <2>3, <2>5 DEF Answered, JoinPending
  <2> QED
    BY <1>3, <1>7, <2>6 DEF Stage, Answered
<1> QED
  BY <1>4, <1>6, <1>7 DEF Stage

LEMMA EndCallStage ==
  ASSUME TypeOK, Stage, EndCall
  PROVE  Stage'
<1>1. CASE sessionId = FALSE
  <2>1. wireVars' = wireVars /\ hasJoined' = hasJoined
    BY <1>1 DEF EndCall, wireVars
  <2>2. NeverConnected => NeverConnected'
    BY DEF EndCall, NeverConnected
  <2> QED
    BY <2>1, <2>2, QuietStep
<1>2. CASE sessionId # FALSE
  <2>1. Answered /\ sessionId
    BY <1>2 DEF Stage, NotJoined, Asking, NeverConnected, TypeOK
  <2>2. \A w \in Sockets : ~JoinPending(w)'
    BY <2>1, SendWithoutJoin DEF Answered, EndCall
  <2> QED
    BY <2>1, <2>2 DEF Stage, Answered, EndCall
<1> QED
  BY <1>1, <1>2

LEMMA SendOfferStage ==
  ASSUME TypeOK, Stage, ~NeverConnected, Send("offer"), coming' = coming,
         hasJoined' = hasJoined
  PROVE  Stage'
<1>1. Answered
  BY DEF Stage, NotJoined, Asking
<1>2. \A w \in Sockets : ~JoinPending(w)'
  BY <1>1, SendWithoutJoin DEF Answered
<1> QED
  BY <1>1, <1>2 DEF Stage, Answered

LEMMA AttemptStage ==
  ASSUME TypeOK, Stage, NEW l \in Loops, Attempt(l)
  PROVE  Stage'
<1>1. ~NeverConnected
  BY DEF NeverConnected, Attempt, TimerFires, OfferMade, OfferFails
<1>2. CASE TimerFires(l)
  BY <1>1, <1>2, QuietStep DEF TimerFires, wireVars
<1>3. CASE OfferMade(l)
  BY <1>1, <1>3, SendOfferStage DEF OfferMade
<1>4. CASE OfferFails(l)
  BY <1>1, <1>4, QuietStep DEF OfferFails, socketVars, wireVars
<1> QED
  BY <1>2, <1>3, <1>4 DEF Attempt

LEMMA NextStage == TypeOK /\ Stage /\ [Next]_vars => Stage'
<1> SUFFICES ASSUME TypeOK, Stage, [Next]_vars PROVE Stage'
  OBVIOUS
<1>1. CASE UNCHANGED vars
  BY <1>1, QuietStep DEF vars, storeVars, socketVars, wireVars, offerVars, retryVars, NeverConnected
<1>2. ASSUME NEW w \in Sockets, OnOpen(w) \/ OnClose(w) PROVE Stage'
  <2>1. /\ wireVars' = wireVars /\ hasJoined' = hasJoined
        /\ storeVars' = storeVars /\ firstOffer' = firstOffer /\ loop' = loop
    BY <1>2 DEF OnOpen, OnClose, wireVars, offerVars, retryVars, storeVars
  <2> QED
    BY <2>1, QuietStep DEF NeverConnected, storeVars
<1>3. ASSUME NEW w \in Sockets, News(w) PROVE Stage'
  <2>1. /\ wireVars' = wireVars /\ hasJoined' = hasJoined
        /\ sessionId' \in {sessionId, FALSE} /\ connectionState' = "idle"
        /\ firstOffer' = firstOffer /\ loop' = loop
    BY <1>3 DEF News, OnPeerLeft, OnRoomClosed, socketVars, wireVars, offerVars, retryVars
  <2> QED
    BY <2>1, QuietStep DEF NeverConnected
<1>4. CASE OfferEffect \/ TriggerEffect
  <2>1. ~NeverConnected /\ wireVars' = wireVars /\ hasJoined' = hasJoined
    BY <1>4 DEF OfferEffect, TriggerEffect, NeverConnected, socketVars, wireVars
  <2> QED
    BY <2>1, QuietStep
<1>5. CASE Unmount \/ StreamReady
  <2>1. /\ wireVars' = wireVars /\ hasJoined' = hasJoined
        /\ storeVars' = storeVars /\ firstOffer' = firstOffer /\ loop' = loop
    BY <1>5 DEF Unmount, StreamReady, wireVars, socketVars, retryVars, storeVars
  <2> QED
    BY <2>1, QuietStep DEF NeverConnected, storeVars
<1>6. CASE FirstOfferSettles
  <2>1. ~NeverConnected /\ hasJoined' = hasJoined /\ coming' = coming
    BY <1>6 DEF FirstOfferSettles, NeverConnected
  <2>2. CASE Send("offer")
    BY <2>1, <2>2, SendOfferStage
  <2>3. CASE UNCHANGED asked
    BY <2>1, <2>3, QuietStep DEF wireVars
  <2> QED
    BY <1>6, <2>2, <2>3 DEF FirstOfferSettles
<1>7. ASSUME NEW w \in Sockets, Message(w) PROVE Stage'
  BY <1>7, OnJoinedStage, OnAnswerStage DEF Message, Stage
<1> QED
  BY <1>1, <1>2, <1>3, <1>4, <1>5, <1>6, <1>7, HandleStage, JoinEffectStage,
     AttemptStage, EndCallStage DEF Next, Effect

(* Attempts.                                                                  *)

\* A step that starts no loop, ends no loop and opens no socket.
LEMMA LoopsKept ==
  ASSUME OneLoop, SocketPerAttempt, loop' = loop, Opened' = Opened,
         \/ connectionState' = connectionState
         \/ connectionState' \notin {"connected", "failed"}
         \/ connectionState' = "connected" /\ loop[1].at = "none"
  PROVE  OneLoop' /\ SocketPerAttempt'
  BY DEF OneLoop, SocketPerAttempt, SocketsBounded

LEMMA OpenedKept ==
  ASSUME \A w \in Sockets : socket'[w] = "none" <=> socket[w] = "none"
  PROVE  Opened' = Opened
  BY DEF Opened

LEMMA ReconnectOpens ==
  ASSUME TypeOK, NEW n \in Nat, Opened = 1 .. n, Reconnect
  PROVE  Opened' = 1 .. n + 1
<1>1. PICK w \in Sockets : /\ socket[w] = "none"
                           /\ \A v \in Sockets : v < w => socket[v] # "none"
                           /\ socket' = [Closing EXCEPT ![w] = "connecting"]
  BY DEF Reconnect
<1>2. w = n + 1
  <2>1. w \notin 1 .. n /\ w \in Nat /\ w > 0
    BY <1>1, BoundsFacts DEF Opened
  <2>2. w > n
    BY <2>1
  <2>3. w > n + 1 => n + 1 \in Sockets
    BY <1>1, BoundsFacts DEF Sockets
  <2>4. w > n + 1 => n + 1 \in 1 .. n
    BY <1>1, <2>3 DEF Opened
  <2> QED
    BY <2>1, <2>2, <2>4
<1>3. \A v \in Sockets : socket'[v] = "none" <=> (socket[v] = "none" /\ v # w)
  BY <1>1, ClosingType
<1>4. Opened' = Opened \cup {w}
  BY <1>3 DEF Opened
<1> QED
  BY <1>2, <1>4

LEMMA TriggerLoops ==
  ASSUME TypeOK, OneLoop, SocketPerAttempt, TriggerEffect
  PROVE  OneLoop' /\ SocketPerAttempt'
<1>1. loop[1].at = "none" /\ connectionState' = "reconnecting"
  BY DEF OneLoop, TriggerEffect
<1>2. Opened' = Opened /\ Opened = 1 .. 1
  BY <1>1, OpenedKept DEF TriggerEffect, SocketPerAttempt, socketVars
<1>3. CASE loop' = loop
  BY <1>1, <1>2, <1>3, LoopsKept
<1>4. CASE \E l \in Loops : /\ \A k \in Loops : k < l => loop[k].at # "none"
                            /\ loop' = [loop EXCEPT ![l] = [at |-> "waiting", attempt |-> 1]]
  <2>1. loop' = [loop EXCEPT ![1] = [at |-> "waiting", attempt |-> 1]]
    <3>1. PICK l \in Loops : /\ \A k \in Loops : k < l => loop[k].at # "none"
                             /\ loop' = [loop EXCEPT ![l] = [at |-> "waiting", attempt |-> 1]]
      BY <1>4
    <3>2. ~(1 < l) /\ l \in Nat /\ l > 0
      BY <1>1, <3>1, BoundsFacts DEF Loops
    <3>3. l = 1
      BY <3>2
    <3> QED
      BY <3>1, <3>3
  <2>2. /\ loop'[1] = [at |-> "waiting", attempt |-> 1]
        /\ \A k \in Loops \ {1} : loop'[k] = loop[k]
    BY <2>1, BoundsFacts DEF TypeOK
  <2>3. OneLoop'
    BY <1>1, <2>2 DEF OneLoop
  <2> QED
    BY <1>2, <2>2, <2>3, BoundsFacts DEF SocketPerAttempt, SocketsBounded
<1> QED
  BY <1>3, <1>4 DEF TriggerEffect

LEMMA AttemptLoops ==
  ASSUME TypeOK, OneLoop, SocketPerAttempt, NEW l \in Loops, Attempt(l)
  PROVE  OneLoop' /\ SocketPerAttempt'
<1> DEFINE a == loop[1].attempt
<1>1. l = 1
  BY DEF OneLoop, Attempt, TimerFires, OfferMade, OfferFails
<1>2. loop[1].at \in {"waiting", "offering"} /\ a \in 1 .. MaxAttempts /\ a \in Nat
  BY <1>1, BoundsFacts DEF SocketPerAttempt, Attempt, TimerFires, OfferMade, OfferFails
<1>3. connectionState \notin {"connected", "failed"}
  BY <1>2 DEF OneLoop
<1>4. ASSUME NEW p, loop' = [loop EXCEPT ![l].at = p]
      PROVE  loop'[1].at = p /\ loop'[1].attempt = a /\ \A k \in Loops \ {1} : loop'[k] = loop[k]
  BY <1>1, <1>4, BoundsFacts DEF TypeOK
<1>5. CASE TimerFires(l)
  <2>1. /\ connectionState' = connectionState /\ Opened = 1 .. a
        /\ SocketsBounded
    BY <1>1, <1>5 DEF TimerFires, storeVars, SocketPerAttempt
  <2>2. ASSUME Reconnect PROVE Opened' = 1 .. a + 1 /\ SocketsBounded'
    <3>1. Opened' = 1 .. a + 1
      BY <1>2, <2>1, <2>2, ReconnectOpens
    <3> QED
      BY <1>2, <3>1, BoundsFacts DEF SocketsBounded
  <2>3. ASSUME UNCHANGED socket PROVE SocketsBounded'
    BY <2>1, <2>3 DEF SocketsBounded, Opened
  <2>4. CASE At(l, "over")
    <3>1. loop'[1].at = "over" /\ \A k \in Loops \ {1} : loop'[k] = loop[k]
      BY <1>4, <2>4 DEF At
    <3>2. SocketsBounded'
      BY <1>5, <2>2, <2>3 DEF TimerFires
    <3> QED
      BY <1>3, <2>1, <3>1, <3>2 DEF OneLoop, SocketPerAttempt
  <2>5. CASE At(l, "offering") /\ Reconnect
    <3>1. Opened' = 1 .. a + 1 /\ SocketsBounded'
      BY <2>2, <2>5
    <3>2. loop'[1].at = "offering" /\ loop'[1].attempt = a /\ \A k \in Loops \ {1} : loop'[k] = loop[k]
      BY <1>4, <2>5 DEF At
    <3> QED
      BY <1>2, <1>3, <2>1, <3>1, <3>2 DEF OneLoop, SocketPerAttempt
  <2> QED
    BY <1>5, <2>4, <2>5 DEF TimerFires, Resolved
<1>6. CASE OfferMade(l)
  <2>1. /\ connectionState' = connectionState /\ loop'[1].at = "over"
        /\ \A k \in Loops \ {1} : loop'[k] = loop[k]
    BY <1>4, <1>6 DEF OfferMade, Resolved, At, storeVars
  <2>2. SocketsBounded'
    BY <1>6 DEF OfferMade, SocketPerAttempt, SocketsBounded, Opened
  <2> QED
    BY <1>3, <2>1, <2>2 DEF OneLoop, SocketPerAttempt
<1>7. CASE OfferFails(l)
  <2>1. Opened' = Opened /\ Opened = 1 .. a + 1 /\ SocketsBounded'
    BY <1>1, <1>7, OpenedKept DEF OfferFails, socketVars, SocketPerAttempt, SocketsBounded
  <2>2. CASE At(l, "over") /\ UNCHANGED connectionState
    <3>1. loop'[1].at = "over" /\ \A k \in Loops \ {1} : loop'[k] = loop[k]
      BY <1>4, <2>2 DEF At
    <3> QED
      BY <1>3, <2>1, <2>2, <3>1 DEF OneLoop, SocketPerAttempt
  <2>3. CASE GivesUp(l)
    <3>1. a = MaxAttempts
      BY <1>1, <1>2, <2>3, BoundsFacts DEF GivesUp
    <3>2. loop'[1].at = "over" /\ \A k \in Loops \ {1} : loop'[k] = loop[k]
      BY <1>4, <2>3 DEF GivesUp, At
    <3> QED
      BY <2>1, <2>3, <3>1, <3>2 DEF GivesUp, OneLoop, SocketPerAttempt
  <2>4. CASE TriesAgain(l)
    <3>1. /\ loop'[1] = [at |-> "waiting", attempt |-> a + 1]
          /\ \A k \in Loops \ {1} : loop'[k] = loop[k]
          /\ connectionState' = connectionState
          /\ a + 1 \in 1 .. MaxAttempts
      BY <1>1, <1>2, <2>4, BoundsFacts DEF TriesAgain, TypeOK
    <3> QED
      BY <1>3, <2>1, <3>1 DEF OneLoop, SocketPerAttempt
  <2> QED
    BY <1>7, <2>2, <2>3, <2>4 DEF OfferFails
<1> QED
  BY <1>5, <1>6, <1>7 DEF Attempt

LEMMA NextLoops == IInv /\ [Next]_vars => OneLoop' /\ SocketPerAttempt'
<1> SUFFICES ASSUME IInv, [Next]_vars PROVE OneLoop' /\ SocketPerAttempt'
  OBVIOUS
<1> USE DEF IInv
<1>1. CASE UNCHANGED vars
  BY <1>1, LoopsKept DEF vars, storeVars, socketVars, retryVars, Opened
<1>2. ASSUME NEW w \in Sockets, OnOpen(w) \/ OnClose(w) PROVE OneLoop' /\ SocketPerAttempt'
  <2>1. loop' = loop /\ connectionState' = connectionState
    BY <1>2 DEF OnOpen, OnClose, retryVars, storeVars
  <2>2. Opened' = Opened
    BY <1>2, OpenedKept DEF OnOpen, OnClose, TypeOK
  <2> QED
    BY <2>1, <2>2, LoopsKept
<1>3. ASSUME NEW w \in Sockets, OnJoined(w) PROVE OneLoop' /\ SocketPerAttempt'
  <2>1. loop[1].at = "none"
    BY <1>3, OnJoinedStage, BoundsFacts DEF Asking, NeverConnected
  <2> QED
    BY <1>3, <2>1, LoopsKept DEF OnJoined, retryVars, Opened
<1>4. ASSUME NEW w \in Sockets, OnAnswer(w) \/ News(w) PROVE OneLoop' /\ SocketPerAttempt'
  <2>1. /\ loop' = loop /\ socket' = socket
        /\ connectionState' = connectionState \/ connectionState' = "idle"
    BY <1>4 DEF OnAnswer, News, OnPeerLeft, OnRoomClosed, retryVars, storeVars, socketVars
  <2> QED
    BY <2>1, LoopsKept DEF Opened
<1>5. CASE JoinEffect \/ OfferEffect \/ StreamReady \/ FirstOfferSettles
  <2>1. /\ loop' = loop /\ socket' = socket
        /\ connectionState' = connectionState \/ connectionState' = "connecting"
    BY <1>5 DEF JoinEffect, OfferEffect, StreamReady, FirstOfferSettles, retryVars, storeVars,
                socketVars
  <2> QED
    BY <2>1, LoopsKept DEF Opened
<1>6. CASE Unmount \/ EndCall
  <2>1. /\ loop' = loop /\ socket' = Closing
        /\ connectionState' = connectionState \/ connectionState' = "idle"
    BY <1>6 DEF Unmount, EndCall, retryVars, storeVars
  <2>2. Opened' = Opened
    BY <2>1, ClosingType, OpenedKept
  <2> QED
    BY <2>1, <2>2, LoopsKept
<1>7. ASSUME NEW w \in Sockets, NEW a \in {"joined", "answer", ""}, Handle(w, a)
      PROVE  OneLoop' /\ SocketPerAttempt'
  BY <1>7, LoopsKept DEF Handle, retryVars, storeVars, Opened
<1> QED
  BY <1>1, <1>2, <1>3, <1>4, <1>5, <1>6, <1>7, TriggerLoops, AttemptLoops
  DEF Next, Message, Effect

LEMMA PhoneInv == Spec => []IInv
<1>1. IInv /\ [Next]_vars => IInv'
  BY NextTypeOK, NextStage, NextLoops DEF IInv
<1> QED
  BY InitIInv, <1>1, PTL DEF Spec

\* The call is given up only after MaxAttempts attempts with a socket each.
THEOREM GivesUpAfterAll == Spec => []FailedAfterAll
<1>1. IInv => FailedAfterAll
  BY DEF IInv, OneLoop, FailedAfterAll
<1> QED
  BY <1>1, PhoneInv, PTL

\* All sockets together are the first one and one for each attempt, also when a
\* late answer has taken a cancellation back.
THEOREM NoMoreSockets == Spec => []SocketsBounded
<1>1. IInv => SocketsBounded
  BY DEF IInv, SocketPerAttempt
<1> QED
  BY <1>1, PhoneInv, PTL

\* "joined" comes once, and before any attempt.
THEOREM StaysReconnecting == Spec => NotConnectedAgain
<1> DEFINE A == connectionState = "reconnecting" => connectionState' # "connected"
<1>1. ASSUME IInv, [Next]_vars PROVE A
  <2> SUFFICES ASSUME connectionState' = "connected", connectionState # "connected"
               PROVE  connectionState # "reconnecting"
    OBVIOUS
  <2>1. PICK w \in Sockets : OnJoined(w)
    BY <1>1 DEF vars, storeVars, socketVars, offerVars, retryVars, Next, OnOpen, OnClose,
       Message, OnAnswer, News, OnPeerLeft, OnRoomClosed, Handle, Effect, JoinEffect,
       OfferEffect, TriggerEffect, Unmount, StreamReady, FirstOfferSettles, Attempt,
       TimerFires, OfferMade, OfferFails, GivesUp, TriesAgain, EndCall
  <2> QED
    BY <1>1, <2>1, OnJoinedStage DEF IInv, Asking, NeverConnected
<1>2. IInv /\ [Next]_vars => [A]_vars
  BY <1>1
<1> QED
  BY <1>2, PhoneInv, PTL DEF Spec, NotConnectedAgain

-----------------------------------------------------------------------------
(* The phone and the server together.                                         *)

\* Every step of the call is a step of the phone with some server, or none.
THEOREM CallIsMobileClient == CallSpec => Spec
<1>1. CallInit => Init
  BY DEF CallInit
<1>2. [CallNext]_callVars => [Next]_vars
  <2> SUFFICES ASSUME [CallNext]_callVars PROVE Next \/ UNCHANGED vars
    OBVIOUS
  <2>1. CASE UNCHANGED callVars
    BY <2>1 DEF callVars
  <2>2. CASE PhoneSteps
    BY <2>2 DEF PhoneSteps, Next, Message, News
  <2>3. ASSUME NEW w \in Sockets, AnswerComes(w) \/ ClosedComes(w) PROVE Next
    BY <2>3 DEF AnswerComes, ClosedComes, Next, Message, News
  <2>4. ASSUME NEW w \in Sockets, ReadPump(w) PROVE Next
    BY <2>4 DEF ReadPump, Joins, JoinRefused, Offered, Leaves, Next
  <2>5. ASSUME NEW w \in Sockets, Unregister(w) PROVE UNCHANGED vars
    BY <2>5 DEF Unregister
  <2>6. CASE GraceFires \/ PeerJoins \/ RoomDeleted
    BY <2>6 DEF GraceFires, PeerJoins, RoomDeleted
  <2> QED
    BY <2>1, <2>2, <2>3, <2>4, <2>5, <2>6 DEF CallNext
<1> QED
  BY <1>1, <1>2, PTL DEF CallSpec, Spec

ServerTypeOK ==
  /\ room \in {"open", "expired", "deleted"}
  /\ session \in {"none", "live", "gone"}
  /\ route \in Sockets \cup {0}
  /\ timer \in {"off", "armed", "over"}
  /\ bound \subseteq Sockets /\ lost \subseteq Sockets
  /\ notice \subseteq Sockets /\ regained \subseteq Sockets

\* The grace timer is armed when the connection that joined is unregistered, and
\* a later join calls it off before it binds another one: so its "room-closed"
\* goes to no connection.
THEOREM ClosingReachesNobody == CallSpec => [](ServerTypeOK /\ NobodyIsTold)
<1> DEFINE Inv == ServerTypeOK /\ NobodyIsTold
<1>1. CallInit => Inv
  BY DEF CallInit, ServerTypeOK, NobodyIsTold
<1>2. Inv /\ [CallNext]_callVars => Inv'
  <2> SUFFICES ASSUME Inv, [CallNext]_callVars PROVE Inv'
    OBVIOUS
  <2> USE DEF ServerTypeOK, NobodyIsTold
  <2>1. CASE UNCHANGED callVars
    BY <2>1 DEF callVars, serverVars
  <2>2. CASE PhoneSteps
    BY <2>2 DEF PhoneSteps, serverVars
  <2>3. ASSUME NEW w \in Sockets, AnswerComes(w) \/ ClosedComes(w) PROVE Inv'
    BY <2>3 DEF AnswerComes, ClosedComes, serverVars
  <2>4. ASSUME NEW w \in Sockets, Joins(w) PROVE Inv'
    BY <2>4 DEF Joins
  <2>5. ASSUME NEW w \in Sockets, JoinRefused(w) \/ Offered(w) PROVE Inv'
    BY <2>5 DEF JoinRefused, Offered, serverVars
  <2>6. ASSUME NEW w \in Sockets, Leaves(w) PROVE Inv'
    BY <2>6 DEF Leaves
  <2>7. ASSUME NEW w \in Sockets, Unregister(w) PROVE Inv'
    BY <2>7 DEF Unregister
  <2>8. CASE GraceFires
    BY <2>8 DEF GraceFires
  <2>9. CASE PeerJoins \/ RoomDeleted
    BY <2>9 DEF PeerJoins, RoomDeleted
  <2> QED
    BY <2>1, <2>2, <2>3, <2>4, <2>5, <2>6, <2>7, <2>8, <2>9 DEF CallNext, ReadPump
<1> QED
  BY <1>1, <1>2, PTL DEF CallSpec

\* What holds of the phone with any server holds in the call.
THEOREM CallGivesUpAfterAll ==
  CallSpec => [](CallTypeOK /\ FailedAfterAll /\ SocketsBounded)
<1>1. ServerTypeOK /\ TypeOK => CallTypeOK
  BY DEF ServerTypeOK, CallTypeOK
<1> QED
  BY <1>1, CallIsMobileClient, PhoneTypes, GivesUpAfterAll, NoMoreSockets,
     ClosingReachesNobody, PTL

=============================================================================
