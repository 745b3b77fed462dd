------------------------- MODULE RoomServiceProofs -------------------------
(* Theorems about RoomService for every value of its constants.            *)
EXTENDS RoomService, FiniteSetTheorems, TLAPS

(***************************************************************************)
(* Steps of one goroutine change the record of that goroutine only, and    *)
(* sessions are never uncreated.                                           *)
(***************************************************************************)
Labels == {"idle"} \cup JoinLabels \cup LeaveLabels \cup DeleteLabels \cup TimerLabels

\* A goroutine's new record is sound, and no other record changes.
LEMMA ProcFrame ==
  ASSUME ProcTypes, Created \subseteq Created', NEW p \in Procs,
         proc' \in [Procs -> Locals], \A q \in Procs \ {p} : proc'[q] = proc[q],
         p \in Conns => ConnOK(p)', p \in Admins => AdminOK(p)',
         p \in Timers => TimerOK(p)'
  PROVE  ProcTypes'
<1>1. ASSUME NEW c \in Conns PROVE ConnOK(c)'
  BY <1>1 DEF ProcTypes, Procs, ConnOK
<1>2. ASSUME NEW a \in Admins PROVE AdminOK(a)'
  BY <1>2 DEF ProcTypes, Procs, AdminOK
<1>3. ASSUME NEW t \in Timers PROVE TimerOK(t)'
  BY <1>3 DEF ProcTypes, Procs, TimerOK
<1> QED
  BY <1>1, <1>2, <1>3 DEF ProcTypes

LEMMA MoveStep ==
  ASSUME proc \in [Procs -> Locals], NEW p \in Procs, NEW l \in Locals, Move(p, l)
  PROVE  /\ proc' \in [Procs -> Locals]
         /\ proc'[p] = l
         /\ \A q \in Procs \ {p} : proc'[q] = proc[q]
BY DEF Move

LEMMA GotoStep ==
  ASSUME proc \in [Procs -> Locals], NEW p \in Procs, NEW l \in Labels, Goto(p, l)
  PROVE  /\ proc' \in [Procs -> Locals]
         /\ proc'[p].pc = l
         /\ proc'[p].room = proc[p].room
         /\ proc'[p].user = proc[p].user
         /\ proc'[p].sess = proc[p].sess
         /\ proc'[p].rejoin = proc[p].rejoin
         /\ \A q \in Procs \ {p} : proc'[q] = proc[q]
<1>1. [proc[p] EXCEPT !.pc = l] \in Locals
  BY DEF Locals, Labels
<1> QED
  BY <1>1, MoveStep DEF Goto, Locals

LEMMA IdleIsLocals == Idle \in Locals
BY DEF Idle, Locals

LEMMA ReturnStep ==
  ASSUME proc \in [Procs -> Locals], NEW p \in Procs, Return(p)
  PROVE  /\ proc' \in [Procs -> Locals]
         /\ proc'[p] = Idle
         /\ \A q \in Procs \ {p} : proc'[q] = proc[q]
BY MoveStep, IdleIsLocals DEF Return

\* A connection that goes on inside its call keeps its locals sound.
LEMMA ConnGoto ==
  ASSUME ProcTypes, Created \subseteq Created', NEW c \in Conns,
         NEW l \in JoinLabels \cup LeaveLabels, Goto(c, l),
         proc[c].pc # "idle", l \in Holding => proc[c].pc \in Holding
  PROVE  ProcTypes'
<1>1. c \in Procs /\ l \in Labels /\ proc \in [Procs -> Locals]
  BY DEF Procs, Labels, ProcTypes
<1>2. ConnOK(c)'
  BY <1>1, GotoStep DEF ProcTypes, ConnOK
<1> QED
  BY <1>1, <1>2, GotoStep, ProcFrame, ProcsAreDistinct

LEMMA DeleterGoto ==
  ASSUME ProcTypes, Created \subseteq Created', NEW p \in Admins \cup Timers,
         NEW l \in DeleteLabels \cup TimerLabels, Goto(p, l),
         proc[p].pc # "idle", p \in Admins => l \in DeleteLabels
  PROVE  ProcTypes'
<1>1. p \in Procs /\ l \in Labels /\ proc \in [Procs -> Locals]
  BY DEF Procs, Labels, ProcTypes
<1>2. /\ p \in Admins => AdminOK(p)'
      /\ p \in Timers => TimerOK(p)'
  BY <1>1, GotoStep DEF ProcTypes, AdminOK, TimerOK
<1> QED
  BY <1>1, <1>2, GotoStep, ProcFrame, ProcsAreDistinct

LEMMA AnyReturn ==
  ASSUME ProcTypes, Created \subseteq Created', NEW p \in Procs, Return(p)
  PROVE  ProcTypes'
<1>1. proc \in [Procs -> Locals]
  BY DEF ProcTypes
<1>2. ConnOK(p)' /\ AdminOK(p)' /\ TimerOK(p)'
  BY <1>1, ReturnStep DEF Idle, ConnOK, AdminOK, TimerOK, Holding
<1> QED
  BY <1>1, <1>2, ReturnStep, ProcFrame

LEMMA ProcUnchanged ==
  ASSUME ProcTypes, Created \subseteq Created', UNCHANGED proc
  PROVE  ProcTypes'
BY DEF ProcTypes, ConnOK, AdminOK, TimerOK

(***************************************************************************)
(* Type correctness.                                                       *)
(***************************************************************************)
LEMMA InitTypeOK == Init => TypeOK
<1> SUFFICES ASSUME Init PROVE TypeOK
  OBVIOUS
<1>1. RoomTypes
  BY DEF Init, RoomTypes
<1>2. SessionTypes
  BY NoneIsNothing DEF Init, SessionTypes, Created
<1>3. PipeTypes
  BY DEF Init, PipeTypes, Created
<1>4. TimerTypes
  BY DEF Init, TimerTypes
<1>5. ProcTypes
  BY DEF Init, ProcTypes, Procs, Idle, Locals, ConnOK, AdminOK, TimerOK, Holding
<1> QED
  BY <1>1, <1>2, <1>3, <1>4, <1>5 DEF TypeOK

\* What every step but JoinCreate leaves alone.
LEMMA SameCreated == UNCHANGED owner => Created' = Created
BY DEF Created

LEMMA CreateRoomType ==
  ASSUME TypeOK, NEW r \in Rooms, CreateRoom(r)
  PROVE  TypeOK'
<1>1. Created' = Created
  BY SameCreated DEF CreateRoom, sessionVars
<1>2. RoomTypes' /\ SessionTypes' /\ PipeTypes' /\ TimerTypes'
  BY <1>1
  DEF TypeOK, CreateRoom, RoomTypes, SessionTypes, PipeTypes, TimerTypes, roomVars,
      sessionVars, pipeVars
<1>3. ProcTypes'
  BY <1>1, ProcUnchanged DEF TypeOK, CreateRoom
<1> QED
  BY <1>2, <1>3 DEF TypeOK

LEMMA BecomeStaleType ==
  ASSUME TypeOK, NEW r \in Rooms, BecomeStale(r)
  PROVE  TypeOK'
<1>1. Created' = Created
  BY SameCreated DEF BecomeStale, sessionVars
<1>2. RoomTypes' /\ SessionTypes' /\ PipeTypes' /\ TimerTypes'
  BY <1>1
  DEF TypeOK, BecomeStale, RoomTypes, SessionTypes, PipeTypes, TimerTypes, roomVars,
      sessionVars, pipeVars
<1>3. ProcTypes'
  BY <1>1, ProcUnchanged DEF TypeOK, BecomeStale
<1> QED
  BY <1>2, <1>3 DEF TypeOK

LEMMA JoinFindType ==
  ASSUME TypeOK, NEW c \in Conns, NEW r \in Rooms, NEW u \in Users, JoinFind(c, r, u)
  PROVE  TypeOK'
<1>1. Created' = Created
  BY SameCreated DEF JoinFind, sessionVars
<1>2. RoomTypes' /\ SessionTypes' /\ PipeTypes' /\ TimerTypes'
  BY <1>1
  DEF TypeOK, JoinFind, RoomTypes, SessionTypes, PipeTypes, TimerTypes, roomVars,
      sessionVars, pipeVars
<1>3. ProcTypes'
  <2> DEFINE l == [proc[c] EXCEPT !.pc = "admit", !.room = r, !.user = u]
  <2>1. c \in Procs /\ proc \in [Procs -> Locals] /\ proc[c] \in Locals /\ Move(c, l)
    BY DEF TypeOK, JoinFind, ProcTypes, Procs
  <2>3. l \in Locals /\ l.pc = "admit" /\ l.room = r /\ l.user = u
    BY <2>1 DEF Locals, JoinLabels
  <2> HIDE DEF l
  <2>4. ConnOK(c)'
    BY <1>1, <2>1, <2>3, MoveStep DEF TypeOK, JoinFind, At, ProcTypes, ConnOK,
       JoinLabels, LeaveLabels, DeleteLabels, TimerLabels, Holding
  <2> QED
    BY <1>1, <2>1, <2>3, <2>4, MoveStep, ProcFrame, ProcsAreDistinct DEF TypeOK
<1> QED
  BY <1>2, <1>3 DEF TypeOK

LEMMA JoinRefusedType ==
  ASSUME TypeOK, NEW c \in Conns, JoinRefused(c)
  PROVE  TypeOK'
<1>1. Created' = Created
  BY SameCreated DEF JoinRefused, sessionVars
<1>2. RoomTypes' /\ SessionTypes' /\ PipeTypes' /\ TimerTypes'
  BY <1>1
  DEF TypeOK, JoinRefused, RoomTypes, SessionTypes, PipeTypes, TimerTypes, roomVars,
      sessionVars, pipeVars
<1>3. ProcTypes'
  BY <1>1, AnyReturn DEF TypeOK, JoinRefused, Procs
<1> QED
  BY <1>2, <1>3 DEF TypeOK

LEMMA JoinAdmitType ==
  ASSUME TypeOK, NEW c \in Conns, JoinAdmit(c)
  PROVE  TypeOK'
<1>1. Created' = Created
  BY SameCreated DEF JoinAdmit, sessionVars
<1>2. RoomTypes' /\ SessionTypes' /\ PipeTypes' /\ TimerTypes'
  BY <1>1
  DEF TypeOK, JoinAdmit, RoomTypes, SessionTypes, PipeTypes, TimerTypes, roomVars,
      sessionVars, pipeVars, At, ProcTypes, ConnOK
<1>3. ProcTypes'
  <2> DEFINE b == proc[c].user \in participants[proc[c].room]
  <2> DEFINE l == [proc[c] EXCEPT !.pc = "collect", !.rejoin = b]
  <2>1. c \in Procs /\ proc \in [Procs -> Locals] /\ proc[c] \in Locals /\ Move(c, l)
    BY DEF TypeOK, JoinAdmit, ProcTypes, Procs
  <2>2. b \in BOOLEAN
    OBVIOUS
  <2> HIDE DEF b
  <2>3. l \in Locals /\ l.pc = "collect" /\ l.room = proc[c].room /\ l.user = proc[c].user
    BY <2>1, <2>2 DEF Locals, JoinLabels
  <2> HIDE DEF l
  <2>4. ConnOK(c)'
    BY <1>1, <2>1, <2>2, <2>3, MoveStep DEF TypeOK, JoinAdmit, At, ProcTypes, ConnOK,
       JoinLabels, LeaveLabels, DeleteLabels, TimerLabels, Holding
  <2> QED
    BY <1>1, <2>1, <2>3, <2>4, MoveStep, ProcFrame, ProcsAreDistinct DEF TypeOK
<1> QED
  BY <1>2, <1>3 DEF TypeOK

LEMMA JoinCollectType ==
  ASSUME TypeOK, NEW c \in Conns, JoinCollect(c)
  PROVE  TypeOK'
<1>1. Created' = Created
  BY SameCreated DEF JoinCollect, sessionVars
<1>2. RoomTypes' /\ SessionTypes' /\ PipeTypes' /\ TimerTypes'
  BY <1>1
  DEF TypeOK, JoinCollect, RoomTypes, SessionTypes, PipeTypes, TimerTypes, roomVars,
      sessionVars, pipeVars
<1>3. ProcTypes'
  <2> DEFINE l == [proc[c] EXCEPT !.pc = "cancel",
                            !.batch = sessions \cap SessionsOf(proc[c].room)]
  <2>1. c \in Procs /\ proc \in [Procs -> Locals] /\ proc[c] \in Locals /\ Move(c, l)
    BY DEF TypeOK, JoinCollect, ProcTypes, Procs
  <2>2. sessions \cap SessionsOf(proc[c].room) \in SUBSET Sessions
    BY DEF SessionsOf, Created
  <2>3. l \in Locals /\ l.pc = "cancel" /\ l.room = proc[c].room /\ l.user = proc[c].user
    BY <2>1, <2>2 DEF Locals, JoinLabels
  <2> HIDE DEF l
  <2>4. ConnOK(c)'
    BY <1>1, <2>1, <2>2, <2>3, MoveStep DEF TypeOK, JoinCollect, At, ProcTypes, ConnOK,
       JoinLabels, LeaveLabels, DeleteLabels, TimerLabels, Holding
  <2> QED
    BY <1>1, <2>1, <2>3, <2>4, MoveStep, ProcFrame, ProcsAreDistinct DEF TypeOK
<1> QED
  BY <1>2, <1>3 DEF TypeOK

LEMMA JoinCancelType ==
  ASSUME TypeOK, NEW c \in Conns, JoinCancel(c)
  PROVE  TypeOK'
<1>1. Created' = Created
  BY SameCreated DEF JoinCancel, sessionVars
<1>2. RoomTypes' /\ SessionTypes' /\ PipeTypes' /\ TimerTypes'
  BY <1>1
  DEF TypeOK, JoinCancel, RoomTypes, SessionTypes, PipeTypes, TimerTypes, roomVars,
      sessionVars, pipeVars
<1>3. ProcTypes'
  <2> DEFINE next == IF proc[c].rejoin THEN "resume" ELSE "create"
             stopped == {t \in Timers : At(t, "armed")
                                          /\ \E s \in proc[c].batch : graceTimers[s] = t}
             l == [proc[c] EXCEPT !.pc = next, !.batch = {}]
  <2>1. /\ c \in Procs /\ proc \in [Procs -> Locals] /\ proc[c] \in Locals /\ c \notin stopped
        /\ proc' = [p \in Procs |-> CASE p \in stopped -> Idle
                                       [] p = c -> l
                                       [] OTHER -> proc[p]]
    BY ProcsAreDistinct DEF TypeOK, JoinCancel, ProcTypes, Procs
  <2>2. next \in {"resume", "create"}
    OBVIOUS
  <2> HIDE DEF next
  <2>3. l \in Locals /\ l.pc = next /\ l.room = proc[c].room /\ l.user = proc[c].user
    BY <2>1, <2>2 DEF Locals, JoinLabels
  <2> HIDE DEF l
  <2>4. /\ proc' \in [Procs -> Locals]
        /\ proc'[c] = l
        /\ \A p \in Procs \ {c} : p \notin stopped => proc'[p] = proc[p]
        /\ \A t \in stopped : proc'[t] = Idle
    BY <2>1, <2>3, IdleIsLocals DEF Procs
  <2>5. ASSUME NEW d \in Conns PROVE ConnOK(d)'
    <3>1. CASE d = c
      BY <1>1, <2>1, <2>2, <2>3, <2>4, <3>1
      DEF TypeOK, JoinCancel, At, ProcTypes, ConnOK, JoinLabels,
         LeaveLabels, Holding
    <3>2. CASE d # c
      BY <1>1, <2>4, <3>2, ProcsAreDistinct DEF TypeOK, ProcTypes, ConnOK, Procs
    <3> QED
      BY <3>1, <3>2
  <2>6. ASSUME NEW a \in Admins PROVE AdminOK(a)'
    BY <1>1, <2>4, ProcsAreDistinct DEF TypeOK, ProcTypes, AdminOK, Procs
  <2>7. ASSUME NEW t \in Timers PROVE TimerOK(t)'
    <3>1. CASE t \in stopped
      BY <2>4, <3>1 DEF Idle, TimerOK
    <3>2. CASE t \notin stopped
      BY <1>1, <2>4, <3>2, ProcsAreDistinct DEF TypeOK, ProcTypes, TimerOK, Procs
    <3> QED
      BY <3>1, <3>2
  <2> QED
    BY <2>4, <2>5, <2>6, <2>7 DEF ProcTypes
<1> QED
  BY <1>2, <1>3 DEF TypeOK

LEMMA JoinResumeType ==
  ASSUME TypeOK, NEW c \in Conns, JoinResume(c)
  PROVE  TypeOK'
<1>1. Created' = Created
  BY SameCreated DEF JoinResume, sessionVars
<1>2. RoomTypes' /\ SessionTypes' /\ PipeTypes' /\ TimerTypes'
  BY <1>1
  DEF TypeOK, JoinResume, RoomTypes, SessionTypes, PipeTypes, TimerTypes, roomVars,
      sessionVars, pipeVars, At, ProcTypes, ConnOK, Key, JoinLabels, LeaveLabels
<1>3. ProcTypes'
  <2>1. CASE Return(c)
    BY <1>1, <2>1, AnyReturn DEF TypeOK, Procs
  <2>2. CASE ~Return(c)
    BY <1>1, <2>2, ConnGoto
    DEF TypeOK, JoinResume, BindAndReturn, At, JoinLabels, LeaveLabels, Holding
  <2> QED
    BY <2>1, <2>2
<1> QED
  BY <1>2, <1>3 DEF TypeOK

LEMMA JoinAgainType ==
  ASSUME TypeOK, NEW c \in Conns, JoinAgain(c)
  PROVE  TypeOK'
<1>1. Created' = Created
  BY SameCreated DEF JoinAgain, sessionVars
<1>2. RoomTypes' /\ SessionTypes' /\ PipeTypes' /\ TimerTypes'
  BY <1>1
  DEF TypeOK, JoinAgain, RoomTypes, SessionTypes, PipeTypes, TimerTypes, roomVars,
      sessionVars, pipeVars, At, ProcTypes, ConnOK, Key
<1>3. ProcTypes'
  BY <1>1, ConnGoto DEF TypeOK, JoinAgain, At, JoinLabels, LeaveLabels, Holding
<1> QED
  BY <1>2, <1>3 DEF TypeOK

LEMMA JoinCreateType ==
  ASSUME TypeOK, NEW c \in Conns, NEW s \in Sessions, JoinCreate(c, s)
  PROVE  TypeOK'
<1>1. Key(c) \in Rooms \X Users /\ s \notin Created
  BY DEF TypeOK, JoinCreate, ProcTypes, ConnOK, At, Key, Created
<1>2. Created' = Created \cup {s} /\ owner' \in [Sessions -> (Rooms \X Users) \cup {None}]
  BY <1>1, NoneIsNothing DEF TypeOK, JoinCreate, SessionTypes, Created
<1>3. RoomTypes' /\ SessionTypes' /\ PipeTypes' /\ TimerTypes'
  BY <1>2 DEF TypeOK, JoinCreate, RoomTypes, SessionTypes, PipeTypes, TimerTypes, roomVars,
              pipeVars
<1>4. ProcTypes'
  <2> DEFINE l == [proc[c] EXCEPT !.pc = "save", !.sess = s]
  <2>1. c \in Procs /\ proc \in [Procs -> Locals] /\ proc[c] \in Locals /\ Move(c, l)
    BY DEF TypeOK, JoinCreate, ProcTypes, Procs
  <2>2. l \in Locals /\ l.pc = "save" /\ l.sess = s /\ l.room = proc[c].room /\ l.user = proc[c].user
    BY <2>1 DEF Locals, JoinLabels
  <2> HIDE DEF l
  <2>3. ConnOK(c)'
    BY <1>2, <2>1, <2>2, MoveStep DEF TypeOK, JoinCreate, At, ProcTypes, ConnOK, JoinLabels
  <2> QED
    BY <1>2, <2>1, <2>2, <2>3, MoveStep, ProcFrame, ProcsAreDistinct DEF TypeOK
<1> QED
  BY <1>3, <1>4 DEF TypeOK

LEMMA JoinCreateFailsType ==
  ASSUME TypeOK, NEW c \in Conns, JoinCreateFails(c)
  PROVE  TypeOK'
<1>1. Created' = Created
  BY SameCreated DEF JoinCreateFails, sessionVars
<1>2. RoomTypes' /\ SessionTypes' /\ PipeTypes' /\ TimerTypes'
  BY <1>1
  DEF TypeOK, JoinCreateFails, RoomTypes, SessionTypes, PipeTypes, TimerTypes, roomVars,
      sessionVars, pipeVars, At, ProcTypes, ConnOK, Key
<1>3. ProcTypes'
  BY <1>1, AnyReturn DEF TypeOK, JoinCreateFails, Procs
<1> QED
  BY <1>2, <1>3 DEF TypeOK

LEMMA JoinSaveType ==
  ASSUME TypeOK, NEW c \in Conns, JoinSave(c)
  PROVE  TypeOK'
<1>1. Created' = Created
  BY SameCreated DEF JoinSave, sessionVars
<1>2. RoomTypes' /\ SessionTypes' /\ PipeTypes' /\ TimerTypes'
  BY <1>1
  DEF TypeOK, JoinSave, RoomTypes, SessionTypes, PipeTypes, TimerTypes, roomVars,
      sessionVars, pipeVars, At, ProcTypes, ConnOK, Key
<1>3. ProcTypes'
  BY <1>1, ConnGoto DEF TypeOK, JoinSave, At, JoinLabels, LeaveLabels, Holding
<1> QED
  BY <1>2, <1>3 DEF TypeOK

LEMMA JoinRegisterType ==
  ASSUME TypeOK, NEW c \in Conns, JoinRegister(c)
  PROVE  TypeOK'
<1>1. Created' = Created
  BY SameCreated DEF JoinRegister, sessionVars
<1>2. RoomTypes' /\ SessionTypes' /\ PipeTypes' /\ TimerTypes'
  BY <1>1
  DEF TypeOK, JoinRegister, RoomTypes, SessionTypes, PipeTypes, TimerTypes, roomVars,
      sessionVars, pipeVars, At, ProcTypes, ConnOK, Key, Holding
<1>3. ProcTypes'
  BY <1>1, ConnGoto DEF TypeOK, JoinRegister, At, JoinLabels, LeaveLabels, Holding
<1> QED
  BY <1>2, <1>3 DEF TypeOK

LEMMA JoinTouchType ==
  ASSUME TypeOK, NEW c \in Conns, JoinTouch(c)
  PROVE  TypeOK'
<1>1. Created' = Created
  BY SameCreated DEF JoinTouch, sessionVars
<1>2. RoomTypes' /\ SessionTypes' /\ PipeTypes' /\ TimerTypes'
  BY <1>1
  DEF TypeOK, JoinTouch, RoomTypes, SessionTypes, PipeTypes, TimerTypes, roomVars,
      sessionVars, pipeVars, At, ProcTypes, ConnOK, Key
<1>3. ProcTypes'
  BY <1>1, ConnGoto DEF TypeOK, JoinTouch, At, JoinLabels, LeaveLabels, Holding
<1> QED
  BY <1>2, <1>3 DEF TypeOK

LEMMA JoinFullType ==
  ASSUME TypeOK, NEW c \in Conns, JoinFull(c)
  PROVE  TypeOK'
<1>1. Created' = Created
  BY SameCreated DEF JoinFull, sessionVars
<1>2. RoomTypes' /\ SessionTypes' /\ PipeTypes' /\ TimerTypes'
  BY <1>1
  DEF TypeOK, JoinFull, RoomTypes, SessionTypes, PipeTypes, TimerTypes, roomVars,
      sessionVars, pipeVars, At, ProcTypes, ConnOK, Key, BindAndReturn, Holding
<1>3. ProcTypes'
  <2>1. CASE Return(c)
    BY <1>1, <2>1, AnyReturn DEF TypeOK, Procs
  <2>2. CASE ~Return(c)
    BY <1>1, <2>2, ConnGoto
    DEF TypeOK, JoinFull, BindAndReturn, At, JoinLabels, LeaveLabels, Holding
  <2> QED
    BY <2>1, <2>2
<1> QED
  BY <1>2, <1>3 DEF TypeOK

LEMMA JoinPairType ==
  ASSUME TypeOK, NEW c \in Conns, JoinPair(c)
  PROVE  TypeOK'
<1>1. Created' = Created
  BY SameCreated DEF JoinPair, sessionVars
<1>2. RoomTypes' /\ SessionTypes' /\ PipeTypes' /\ TimerTypes'
  BY <1>1
  DEF TypeOK, JoinPair, RoomTypes, SessionTypes, PipeTypes, TimerTypes, roomVars,
      sessionVars, pipeVars, At, ProcTypes, ConnOK, Key, BindAndReturn, Holding
<1>3. ProcTypes'
  BY <1>1, AnyReturn DEF TypeOK, JoinPair, BindAndReturn, Procs
<1> QED
  BY <1>2, <1>3 DEF TypeOK

LEMMA StartPipelineType ==
  ASSUME TypeOK, NEW s \in Sessions, StartPipeline(s)
  PROVE  TypeOK'
<1>1. Created' = Created
  BY SameCreated DEF StartPipeline, sessionVars
<1>2. RoomTypes' /\ SessionTypes' /\ PipeTypes' /\ TimerTypes'
  BY <1>1
  DEF TypeOK, StartPipeline, RoomTypes, SessionTypes, PipeTypes, TimerTypes, roomVars,
      sessionVars, pipeVars, Created
<1>3. ProcTypes'
  BY <1>1, ProcUnchanged DEF TypeOK, StartPipeline
<1> QED
  BY <1>2, <1>3 DEF TypeOK

LEMMA CancelPipelineType ==
  ASSUME PipeTypes, NEW r \in Rooms, CancelPipeline(r), Created' = Created
  PROVE  PipeTypes'
<1>1. pipe' \in [Sessions -> {"none", "spawned", "running", "cancelled"}]
  BY DEF PipeTypes, CancelPipeline
<1>2. pipelines' \in [Rooms -> Created' \cup {None}]
  BY DEF PipeTypes, CancelPipeline
<1>3. ASSUME NEW s \in Sessions, pipe'[s] # "none" PROVE s \in Created'
  BY <1>3, NoneIsNothing DEF PipeTypes, CancelPipeline
<1> QED
  BY <1>1, <1>2, <1>3 DEF PipeTypes

LEMMA LeaveCallType ==
  ASSUME TypeOK, NEW c \in Conns, LeaveCall(c)
  PROVE  TypeOK'
<1>1. Created' = Created
  BY SameCreated DEF LeaveCall, sessionVars
<1>2. RoomTypes' /\ SessionTypes' /\ PipeTypes' /\ TimerTypes'
  BY <1>1
  DEF TypeOK, LeaveCall, RoomTypes, SessionTypes, PipeTypes, TimerTypes, roomVars,
      sessionVars, pipeVars
<1>3. ProcTypes'
  <2> DEFINE l == [proc[c] EXCEPT !.pc = "find", !.room = owner[bound[c]][1],
                            !.user = owner[bound[c]][2]]
  <2>1. c \in Procs /\ proc \in [Procs -> Locals] /\ proc[c] \in Locals /\ Move(c, l)
    BY DEF TypeOK, LeaveCall, ProcTypes, Procs
  <2>2. owner[bound[c]][1] \in Rooms /\ owner[bound[c]][2] \in Users
    BY DEF TypeOK, LeaveCall, SessionTypes, Created
  <2>3. l \in Locals /\ l.pc = "find" /\ l.room \in Rooms /\ l.user \in Users
    BY <2>1, <2>2 DEF Locals, LeaveLabels
  <2> HIDE DEF l
  <2>4. ConnOK(c)'
    BY <1>1, <2>1, <2>2, <2>3, MoveStep DEF TypeOK, LeaveCall, At, ProcTypes, ConnOK,
       JoinLabels, LeaveLabels, DeleteLabels, TimerLabels, Holding
  <2> QED
    BY <1>1, <2>1, <2>3, <2>4, MoveStep, ProcFrame, ProcsAreDistinct DEF TypeOK
<1> QED
  BY <1>2, <1>3 DEF TypeOK

LEMMA LeaveFindType ==
  ASSUME TypeOK, NEW c \in Conns, LeaveFind(c)
  PROVE  TypeOK'
<1>1. Created' = Created
  BY SameCreated DEF LeaveFind, sessionVars
<1>2. RoomTypes' /\ SessionTypes' /\ PipeTypes' /\ TimerTypes'
  BY <1>1
  DEF TypeOK, LeaveFind, RoomTypes, SessionTypes, PipeTypes, TimerTypes, roomVars,
      sessionVars, pipeVars
<1>3. ProcTypes'
  <2>1. CASE Return(c)
    BY <1>1, <2>1, AnyReturn DEF TypeOK, Procs
  <2>2. CASE lookup[Key(c)] # None /\ Move(c, [proc[c] EXCEPT !.pc = "close", !.sess = lookup[Key(c)]])
    <3> DEFINE l == [proc[c] EXCEPT !.pc = "close", !.sess = lookup[Key(c)]]
    <3>1. c \in Procs /\ proc \in [Procs -> Locals] /\ proc[c] \in Locals /\ Move(c, l)
      BY <2>2 DEF TypeOK, LeaveFind, ProcTypes, Procs
    <3>2. lookup[Key(c)] \in Created
      BY <2>2 DEF TypeOK, SessionTypes, Key, ProcTypes, ConnOK, At, LeaveFind
    <3>3. l \in Locals /\ l.pc = "close" /\ l.sess = lookup[Key(c)] /\
        l.room = proc[c].room /\ l.user = proc[c].user
      BY <3>1, <3>2 DEF Locals, Created, LeaveLabels
    <3> HIDE DEF l
    <3>4. ConnOK(c)'
      BY <1>1, <3>1, <3>2, <3>3, MoveStep DEF TypeOK, LeaveFind, At, ProcTypes, ConnOK,
         JoinLabels, LeaveLabels, DeleteLabels, TimerLabels, Holding
    <3> QED
      BY <1>1, <3>1, <3>3, <3>4, MoveStep, ProcFrame, ProcsAreDistinct DEF TypeOK
  <2> QED
    BY <2>1, <2>2 DEF LeaveFind
<1> QED
  BY <1>2, <1>3 DEF TypeOK

LEMMA LeaveCloseType ==
  ASSUME TypeOK, NEW c \in Conns, LeaveClose(c)
  PROVE  TypeOK'
<1>1. Created' = Created
  BY SameCreated DEF LeaveClose, sessionVars
<1>2. RoomTypes' /\ SessionTypes' /\ PipeTypes' /\ TimerTypes'
  BY <1>1
  DEF TypeOK, LeaveClose, RoomTypes, SessionTypes, PipeTypes, TimerTypes, roomVars,
      sessionVars, pipeVars, At, ProcTypes, ConnOK, Key
<1>3. ProcTypes'
  BY <1>1, ConnGoto DEF TypeOK, LeaveClose, At, JoinLabels, LeaveLabels, Holding
<1> QED
  BY <1>2, <1>3 DEF TypeOK

LEMMA LeaveFetchType ==
  ASSUME TypeOK, NEW c \in Conns, LeaveFetch(c)
  PROVE  TypeOK'
<1>1. Created' = Created
  BY SameCreated DEF LeaveFetch, sessionVars
<1>2. RoomTypes' /\ SessionTypes' /\ PipeTypes' /\ TimerTypes'
  BY <1>1
  DEF TypeOK, LeaveFetch, RoomTypes, SessionTypes, PipeTypes, TimerTypes, roomVars,
      sessionVars, pipeVars
<1>3. ProcTypes'
  <2>1. CASE Return(c)
    BY <1>1, <2>1, AnyReturn DEF TypeOK, Procs
  <2>2. CASE ~Return(c)
    BY <1>1, <2>2, ConnGoto
    DEF TypeOK, LeaveFetch, BindAndReturn, At, JoinLabels, LeaveLabels, Holding
  <2> QED
    BY <2>1, <2>2
<1> QED
  BY <1>2, <1>3 DEF TypeOK

LEMMA LeaveLeaveType ==
  ASSUME TypeOK, NEW c \in Conns, LeaveLeave(c)
  PROVE  TypeOK'
<1>1. Created' = Created
  BY SameCreated DEF LeaveLeave, sessionVars
<1>2. RoomTypes' /\ SessionTypes' /\ PipeTypes' /\ TimerTypes'
  BY <1>1
  DEF TypeOK, LeaveLeave, RoomTypes, SessionTypes, PipeTypes, TimerTypes, roomVars,
      sessionVars, pipeVars, At, ProcTypes, ConnOK, Key
<1>3. ProcTypes'
  BY <1>1, ConnGoto DEF TypeOK, LeaveLeave, At, JoinLabels, LeaveLabels, Holding
<1> QED
  BY <1>2, <1>3 DEF TypeOK

LEMMA LeaveStoreType ==
  ASSUME TypeOK, NEW c \in Conns, LeaveStore(c)
  PROVE  TypeOK'
<1>1. Created' = Created
  BY SameCreated DEF LeaveStore, sessionVars
<1>2. RoomTypes' /\ SessionTypes' /\ PipeTypes' /\ TimerTypes'
  BY <1>1
  DEF TypeOK, LeaveStore, RoomTypes, SessionTypes, PipeTypes, TimerTypes, roomVars,
      sessionVars, pipeVars, At, ProcTypes, ConnOK, Key
<1>3. ProcTypes'
  BY <1>1, ConnGoto DEF TypeOK, LeaveStore, At, JoinLabels, LeaveLabels, Holding
<1> QED
  BY <1>2, <1>3 DEF TypeOK

LEMMA LeaveUnregisterType ==
  ASSUME TypeOK, NEW c \in Conns, LeaveUnregister(c)
  PROVE  TypeOK'
<1>1. Created' = Created
  BY SameCreated DEF LeaveUnregister, sessionVars
<1>2. RoomTypes' /\ SessionTypes' /\ PipeTypes' /\ TimerTypes'
  BY <1>1, CancelPipelineType
  DEF TypeOK, LeaveUnregister, RoomTypes, SessionTypes, PipeTypes, TimerTypes, roomVars,
      sessionVars, pipeVars, At, ProcTypes, ConnOK, Key, LeaveLabels
<1>3. ProcTypes'
  BY <1>1, AnyReturn DEF TypeOK, LeaveUnregister, Procs
<1> QED
  BY <1>2, <1>3 DEF TypeOK

LEMMA RoomOfDelete ==
  ASSUME ProcTypes, NEW p \in Admins \cup Timers, proc[p].pc # "idle"
  PROVE  /\ p \in Procs /\ proc \in [Procs -> Locals] /\ proc[p] \in Locals
         /\ proc[p].room \in Rooms
BY DEF ProcTypes, AdminOK, TimerOK, Procs

LEMMA AfterDeleteType ==
  ASSUME ProcTypes, Created \subseteq Created', NEW p \in Admins \cup Timers,
         proc[p].pc # "idle", AfterDelete(p)
  PROVE  ProcTypes'
<1>1. CASE p \in Timers /\ Goto(p, "notify")
  BY <1>1, DeleterGoto, ProcsAreDistinct DEF TimerLabels
<1>2. CASE p \in Admins /\ Move(p, [Idle EXCEPT !.todo = proc[p].todo])
  <2> DEFINE l == [Idle EXCEPT !.todo = proc[p].todo]
  <2>1. p \in Procs /\ proc \in [Procs -> Locals] /\ proc[p] \in Locals /\ Move(p, l)
    BY <1>2, RoomOfDelete
  <2>2. l \in Locals /\ l.pc = "idle"
    BY <2>1 DEF Locals, Idle
  <2> HIDE DEF l
  <2>3. AdminOK(p)'
    BY <2>1, <2>2, MoveStep DEF AdminOK
  <2> QED
    BY <1>2, <2>1, <2>2, <2>3, MoveStep, ProcFrame, ProcsAreDistinct
<1> QED
  BY <1>1, <1>2 DEF AfterDelete

LEMMA DeleteCallType ==
  ASSUME TypeOK, NEW a \in Admins, NEW r \in Rooms, DeleteCall(a, r)
  PROVE  TypeOK'
<1>1. Created' = Created
  BY SameCreated DEF DeleteCall, sessionVars
<1>2. RoomTypes' /\ SessionTypes' /\ PipeTypes' /\ TimerTypes'
  BY <1>1
  DEF TypeOK, DeleteCall, RoomTypes, SessionTypes, PipeTypes, TimerTypes, roomVars,
      sessionVars, pipeVars
<1>3. ProcTypes'
  <2> DEFINE l == [proc[a] EXCEPT !.pc = "shut", !.room = r]
  <2>1. a \in Procs /\ proc \in [Procs -> Locals] /\ proc[a] \in Locals /\ Move(a, l)
    BY DEF TypeOK, DeleteCall, ProcTypes, Procs
  <2>3. l \in Locals /\ l.pc = "shut" /\ l.room = r
    BY <2>1 DEF Locals, DeleteLabels
  <2> HIDE DEF l
  <2>4. AdminOK(a)'
    BY <1>1, <2>1, <2>3, MoveStep DEF TypeOK, DeleteCall, At, ProcTypes, AdminOK,
       JoinLabels, LeaveLabels, DeleteLabels, TimerLabels, Holding
  <2> QED
    BY <1>1, <2>1, <2>3, <2>4, MoveStep, ProcFrame, ProcsAreDistinct DEF TypeOK
<1> QED
  BY <1>2, <1>3 DEF TypeOK

LEMMA DeleteFindType ==
  ASSUME TypeOK, NEW p \in Admins \cup Timers, DeleteFind(p)
  PROVE  TypeOK'
<1>1. Created' = Created
  BY SameCreated DEF DeleteFind, sessionVars
<1>2. RoomTypes' /\ SessionTypes' /\ PipeTypes' /\ TimerTypes'
  BY <1>1
  DEF TypeOK, DeleteFind, RoomTypes, SessionTypes, PipeTypes, TimerTypes, roomVars,
      sessionVars, pipeVars
<1>3. ProcTypes'
  <2>1. CASE Goto(p, "shut")
    BY <1>1, <2>1, DeleterGoto DEF TypeOK, DeleteFind, At, DeleteLabels
  <2>2. CASE AfterDelete(p)
    BY <1>1, <2>2, AfterDeleteType DEF TypeOK, DeleteFind, At
  <2> QED
    BY <2>1, <2>2 DEF DeleteFind
<1> QED
  BY <1>2, <1>3 DEF TypeOK

LEMMA DeleteShutType ==
  ASSUME TypeOK, NEW p \in Admins \cup Timers, DeleteShut(p)
  PROVE  TypeOK'
<1>1. Created' = Created
  BY SameCreated DEF DeleteShut, sessionVars
<1>2. RoomTypes' /\ SessionTypes' /\ PipeTypes' /\ TimerTypes'
  BY <1>1, RoomOfDelete
  DEF TypeOK, DeleteShut, RoomTypes, SessionTypes, PipeTypes, TimerTypes, roomVars,
      sessionVars, pipeVars, At
<1>3. ProcTypes'
  BY <1>1, DeleterGoto DEF TypeOK, DeleteShut, At, DeleteLabels, TimerLabels
<1> QED
  BY <1>2, <1>3 DEF TypeOK

LEMMA DeleteCleanupType ==
  ASSUME TypeOK, NEW p \in Admins \cup Timers, DeleteCleanup(p)
  PROVE  TypeOK'
<1>1. Created' = Created
  BY SameCreated DEF DeleteCleanup, sessionVars
<1>2. RoomTypes' /\ SessionTypes' /\ PipeTypes' /\ TimerTypes'
  BY <1>1, RoomOfDelete, CancelPipelineType
  DEF TypeOK, DeleteCleanup, RoomTypes, SessionTypes, PipeTypes, TimerTypes, roomVars,
      sessionVars, pipeVars, At
<1>3. ProcTypes'
  BY <1>1, DeleterGoto DEF TypeOK, DeleteCleanup, At, DeleteLabels, TimerLabels
<1> QED
  BY <1>2, <1>3 DEF TypeOK

LEMMA DeleteRemoveType ==
  ASSUME TypeOK, NEW p \in Admins \cup Timers, DeleteRemove(p)
  PROVE  TypeOK'
<1>1. Created' = Created
  BY SameCreated DEF DeleteRemove, sessionVars
<1>2. RoomTypes' /\ SessionTypes' /\ PipeTypes' /\ TimerTypes'
  BY <1>1, RoomOfDelete
  DEF TypeOK, DeleteRemove, RoomTypes, SessionTypes, PipeTypes, TimerTypes, roomVars,
      sessionVars, pipeVars, At
<1>3. ProcTypes'
  BY <1>1, AfterDeleteType DEF TypeOK, DeleteRemove, At
<1> QED
  BY <1>2, <1>3 DEF TypeOK

LEMMA SweepListType ==
  ASSUME TypeOK, NEW a \in Admins, SweepList(a)
  PROVE  TypeOK'
<1>1. Created' = Created
  BY SameCreated DEF SweepList, sessionVars
<1>2. RoomTypes' /\ SessionTypes' /\ PipeTypes' /\ TimerTypes'
  BY <1>1
  DEF TypeOK, SweepList, RoomTypes, SessionTypes, PipeTypes, TimerTypes, roomVars,
      sessionVars, pipeVars
<1>3. ProcTypes'
  <2> DEFINE l == [proc[a] EXCEPT !.todo = Expired]
  <2>1. a \in Procs /\ proc \in [Procs -> Locals] /\ proc[a] \in Locals /\ Move(a, l)
    BY DEF TypeOK, ProcTypes, Procs, SweepList
  <2>2. Expired \in SUBSET Rooms
    BY DEF TypeOK, RoomTypes, Expired
  <2>3. l \in Locals /\ l.pc = "idle"
    BY <2>1, <2>2 DEF Locals, SweepList, At
  <2> HIDE DEF l
  <2>4. AdminOK(a)'
    BY <2>1, <2>3, MoveStep DEF AdminOK
  <2> QED
    BY <1>1, <2>1, <2>3, <2>4, MoveStep, ProcFrame, ProcsAreDistinct DEF TypeOK
<1> QED
  BY <1>2, <1>3 DEF TypeOK

LEMMA SweepNextType ==
  ASSUME TypeOK, NEW a \in Admins, SweepNext(a)
  PROVE  TypeOK'
<1>1. Created' = Created
  BY SameCreated DEF SweepNext, sessionVars
<1>2. RoomTypes' /\ SessionTypes' /\ PipeTypes' /\ TimerTypes'
  BY <1>1
  DEF TypeOK, SweepNext, RoomTypes, SessionTypes, PipeTypes, TimerTypes, roomVars,
      sessionVars, pipeVars
<1>3. ProcTypes'
  <2>0. PICK r \in proc[a].todo :
          Move(a, [proc[a] EXCEPT !.pc = "lookFor", !.room = r, !.todo = @ \ {r}])
    BY DEF SweepNext
  <2> DEFINE l == [proc[a] EXCEPT !.pc = "lookFor", !.room = r, !.todo = @ \ {r}]
  <2>1. a \in Procs /\ proc \in [Procs -> Locals] /\ proc[a] \in Locals /\ Move(a, l)
    BY <2>0 DEF TypeOK, ProcTypes, Procs
  <2>2. proc[a].todo \in SUBSET Rooms
    BY <2>1 DEF Locals
  <2>3. l \in Locals /\ l.pc = "lookFor" /\ l.room = r /\ r \in Rooms
    BY <2>1, <2>2 DEF Locals, DeleteLabels
  <2> HIDE DEF l
  <2>4. AdminOK(a)'
    BY <2>1, <2>3, MoveStep DEF AdminOK, DeleteLabels
  <2> QED
    BY <1>1, <2>1, <2>3, <2>4, MoveStep, ProcFrame, ProcsAreDistinct DEF TypeOK
<1> QED
  BY <1>2, <1>3 DEF TypeOK

LEMMA DropType ==
  ASSUME TypeOK, NEW c \in Conns, Drop(c)
  PROVE  TypeOK'
<1>1. Created' = Created
  BY SameCreated DEF Drop, sessionVars
<1>2. RoomTypes' /\ SessionTypes' /\ PipeTypes' /\ TimerTypes'
  BY <1>1
  DEF TypeOK, Drop, RoomTypes, SessionTypes, PipeTypes, TimerTypes, roomVars, sessionVars,
      pipeVars, Created
<1>3. ProcTypes'
  BY <1>1, ProcUnchanged DEF TypeOK, Drop
<1> QED
  BY <1>2, <1>3 DEF TypeOK

LEMMA ArmTimerType ==
  ASSUME TypeOK, NEW t \in Timers, ArmTimer(t)
  PROVE  TypeOK'
<1>1. Created' = Created
  BY SameCreated DEF ArmTimer, sessionVars
<1>2. RoomTypes' /\ SessionTypes' /\ PipeTypes' /\ TimerTypes'
  BY <1>1
  DEF TypeOK, ArmTimer, RoomTypes, SessionTypes, PipeTypes, TimerTypes, roomVars,
      sessionVars, pipeVars
<1>3. ProcTypes'
  <2> DEFINE l == [proc[t] EXCEPT !.pc = "armed", !.sess = hub.sess,
                            !.room = owner[hub.sess][1]]
  <2>1. t \in Procs /\ proc \in [Procs -> Locals] /\ proc[t] \in Locals /\ Move(t, l)
    BY DEF TypeOK, ArmTimer, ProcTypes, Procs
  <2>2. hub.sess \in Created /\ owner[hub.sess][1] \in Rooms
    BY DEF TypeOK, ArmTimer, SessionTypes, TimerTypes, Created
  <2>3. l \in Locals /\ l.pc = "armed" /\ l.room \in Rooms /\ l.sess \in Created
    BY <2>1, <2>2 DEF Locals, Created, TimerLabels
  <2> HIDE DEF l
  <2>4. TimerOK(t)'
    BY <1>1, <2>1, <2>2, <2>3, MoveStep DEF TypeOK, ArmTimer, At, ProcTypes, TimerOK,
       JoinLabels, LeaveLabels, DeleteLabels, TimerLabels, Holding
  <2> QED
    BY <1>1, <2>1, <2>3, <2>4, MoveStep, ProcFrame, ProcsAreDistinct DEF TypeOK
<1> QED
  BY <1>2, <1>3 DEF TypeOK

LEMMA AlreadyArmedType ==
  ASSUME TypeOK, AlreadyArmed
  PROVE  TypeOK'
<1>1. Created' = Created
  BY SameCreated DEF AlreadyArmed, sessionVars
<1>2. RoomTypes' /\ SessionTypes' /\ PipeTypes' /\ TimerTypes'
  BY <1>1
  DEF TypeOK, AlreadyArmed, RoomTypes, SessionTypes, PipeTypes, TimerTypes, roomVars,
      sessionVars, pipeVars
<1>3. ProcTypes'
  BY <1>1, ProcUnchanged DEF TypeOK, AlreadyArmed
<1> QED
  BY <1>2, <1>3 DEF TypeOK

LEMMA FireType ==
  ASSUME TypeOK, NEW t \in Timers, Fire(t)
  PROVE  TypeOK'
<1>1. Created' = Created
  BY SameCreated DEF Fire, sessionVars
<1>2. RoomTypes' /\ SessionTypes' /\ PipeTypes' /\ TimerTypes'
  BY <1>1
  DEF TypeOK, Fire, RoomTypes, SessionTypes, PipeTypes, TimerTypes, roomVars, sessionVars,
      pipeVars
<1>3. ProcTypes'
  BY <1>1, DeleterGoto, ProcsAreDistinct DEF TypeOK, Fire, At, DeleteLabels, TimerLabels
<1> QED
  BY <1>2, <1>3 DEF TypeOK

LEMMA GraceExpiredType ==
  ASSUME TypeOK, NEW t \in Timers, GraceExpired(t)
  PROVE  TypeOK'
<1>1. Created' = Created
  BY SameCreated DEF GraceExpired, sessionVars
<1>2. RoomTypes' /\ SessionTypes' /\ PipeTypes' /\ TimerTypes'
  BY <1>1
  DEF TypeOK, GraceExpired, RoomTypes, SessionTypes, PipeTypes, TimerTypes, roomVars,
      sessionVars, pipeVars, At, ProcTypes, TimerOK, Created
<1>3. ProcTypes'
  BY <1>1, DeleterGoto, ProcsAreDistinct DEF TypeOK, GraceExpired, At, DeleteLabels, TimerLabels
<1> QED
  BY <1>2, <1>3 DEF TypeOK

LEMMA NotifyType ==
  ASSUME TypeOK, NEW t \in Timers, Notify(t)
  PROVE  TypeOK'
<1>1. Created' = Created
  BY SameCreated DEF Notify, sessionVars
<1>2. RoomTypes' /\ SessionTypes' /\ PipeTypes' /\ TimerTypes'
  BY <1>1
  DEF TypeOK, Notify, RoomTypes, SessionTypes, PipeTypes, TimerTypes, roomVars, sessionVars,
      pipeVars, At, ProcTypes, TimerOK
<1>3. ProcTypes'
  BY <1>1, AnyReturn DEF TypeOK, Notify, Procs
<1> QED
  BY <1>2, <1>3 DEF TypeOK

LEMMA NextTypeOK == TypeOK /\ [Next]_vars => TypeOK'
<1> SUFFICES ASSUME TypeOK, [Next]_vars PROVE TypeOK'
  OBVIOUS
<1>1. ASSUME NEW r \in Rooms, CreateRoom(r) \/ BecomeStale(r) PROVE TypeOK'
  BY <1>1, CreateRoomType, BecomeStaleType
<1>2. ASSUME NEW c \in Conns, JoinStep(c) PROVE TypeOK'
  BY <1>2, JoinFindType, JoinRefusedType, JoinAdmitType, JoinCollectType, JoinCancelType,
     JoinResumeType, JoinAgainType, JoinCreateType, JoinCreateFailsType, JoinSaveType,
     JoinRegisterType, JoinTouchType, JoinFullType, JoinPairType DEF JoinStep
<1>3. ASSUME NEW c \in Conns, LeaveStep(c) PROVE TypeOK'
  BY <1>3, LeaveCallType, LeaveFindType, LeaveCloseType, LeaveFetchType, LeaveLeaveType,
     LeaveStoreType, LeaveUnregisterType DEF LeaveStep
<1>4. ASSUME NEW c \in Conns, Drop(c) PROVE TypeOK'
  BY <1>4, DropType
<1>5. ASSUME NEW a \in Admins, AdminCall(a) PROVE TypeOK'
  BY <1>5, DeleteCallType, SweepListType, SweepNextType DEF AdminCall
<1>6. ASSUME NEW p \in Admins \cup Timers, DeleteStep(p) PROVE TypeOK'
  BY <1>6, DeleteFindType, DeleteShutType, DeleteCleanupType, DeleteRemoveType DEF DeleteStep
<1>7. ASSUME NEW t \in Timers, ArmTimer(t) \/ TimerStep(t) PROVE TypeOK'
  BY <1>7, ArmTimerType, FireType, GraceExpiredType, NotifyType DEF TimerStep
<1>8. ASSUME NEW s \in Sessions, StartPipeline(s) PROVE TypeOK'
  BY <1>8, StartPipelineType
<1>9. CASE UNCHANGED vars
  BY <1>9 DEF vars, roomVars, sessionVars, pipeVars, TypeOK, RoomTypes, SessionTypes, PipeTypes,
     TimerTypes, ProcTypes, ConnOK, AdminOK, TimerOK, Created
<1> QED
  BY <1>1, <1>2, <1>3, <1>4, <1>5, <1>6, <1>7, <1>8, <1>9, AlreadyArmedType DEF Next

\* Every reachable state is well typed, and every goroutine has the room, user
\* and session that the rest of its call uses.
THEOREM TypeCorrect == Spec => []TypeOK
BY InitTypeOK, NextTypeOK, PTL DEF Spec

(***************************************************************************)
(* Sessions: lookup, registration and PeerConnections agree.               *)
(*                                                                         *)
(* LookupSound and NoStrayPeer are not inductive as they stand.  The first *)
(* needs that the session in the hands of a call belongs to the room and   *)
(* user of that call; the second, that a LeaveRoom past CloseSession holds *)
(* a session without PeerConnection, which stays so because session ids    *)
(* are never drawn twice.                                                  *)
(***************************************************************************)
Opening == {"save", "register"}
Leaving == {"fetch", "leave", "store", "unregister"}

HeldSound == \A c \in Conns : proc[c].pc \in Holding => owner[proc[c].sess] = Key(c)
LeavingClosed == \A c \in Conns : proc[c].pc \in Leaving => proc[c].sess \notin peers

SessionInv == HeldSound /\ LeavingClosed /\ LookupSound /\ NoStrayPeer

\* A step that leaves the sessions alone keeps SessionInv if every connection
\* keeps its session while it goes on, and none stops between CreateSession and
\* the registration.
Steady(c) ==
  \/ proc'[c].pc \notin Holding /\ proc[c].pc \notin Opening
  \/ /\ proc[c].pc \in Holding
     /\ proc'[c].sess = proc[c].sess /\ Key(c)' = Key(c)
     /\ proc'[c].pc \in Leaving => proc[c].pc \in Leaving
     /\ proc[c].pc \in Opening => proc'[c].pc \in Opening

LEMMA SteadyStep ==
  ASSUME SessionInv, UNCHANGED sessionVars, \A c \in Conns : Steady(c)
  PROVE  SessionInv'
<1>1. HeldSound'
  BY DEF SessionInv, HeldSound, Steady, sessionVars, Holding, Leaving, Opening
<1>2. LeavingClosed'
  BY DEF SessionInv, LeavingClosed, Steady, sessionVars, Holding, Leaving, Opening
<1>3. LookupSound'
  BY DEF SessionInv, LookupSound, sessionVars
<1>4. NoStrayPeer'
  BY DEF SessionInv, NoStrayPeer, Steady, sessionVars, Holding, Leaving, Opening
<1> QED
  BY <1>1, <1>2, <1>3, <1>4 DEF SessionInv

\* Connections that do not move are steady.
LEMMA StillSteady ==
  ASSUME TypeOK, NEW c \in Conns, proc'[c] = proc[c]
  PROVE  Steady(c)
BY DEF Steady, Key, Holding, Leaving, Opening

\* Only the connection c moves, and it is steady.
LEMMA OneSteady ==
  ASSUME TypeOK, SessionInv, UNCHANGED sessionVars, NEW c \in Conns, Steady(c),
         \A q \in Procs \ {c} : proc'[q] = proc[q]
  PROVE  SessionInv'
BY StillSteady, SteadyStep DEF Procs

\* Only a handler, the sweep or a timer moves.
LEMMA OtherMoves ==
  ASSUME TypeOK, SessionInv, UNCHANGED sessionVars, NEW p \in Admins \cup Timers,
         NEW l, Move(p, l)
  PROVE  SessionInv'
<1>1. \A c \in Conns : proc'[c] = proc[c]
  BY ProcsAreDistinct DEF TypeOK, ProcTypes, Procs, Move
<1> QED
  BY <1>1, StillSteady, SteadyStep

LEMMA NoneMoves ==
  ASSUME TypeOK, SessionInv, UNCHANGED sessionVars, UNCHANGED proc
  PROVE  SessionInv'
BY StillSteady, SteadyStep

\* A connection returns, or goes on without session.
LEMMA ReturnSteady ==
  ASSUME TypeOK, SessionInv, UNCHANGED sessionVars, NEW c \in Conns,
         proc[c].pc \notin Opening, NEW l, Move(c, l), l.pc \notin Holding
  PROVE  SessionInv'
<1>1. proc'[c] = l /\ \A q \in Procs \ {c} : proc'[q] = proc[q]
  BY DEF TypeOK, ProcTypes, Procs, Move
<1> QED
  BY <1>1, OneSteady DEF Steady

\* A connection that goes to another label of its call.
LEMMA GotoSteady ==
  ASSUME TypeOK, SessionInv, UNCHANGED sessionVars, NEW c \in Conns,
         NEW l \in JoinLabels \cup LeaveLabels, Goto(c, l),
         \/ l \notin Holding /\ proc[c].pc \notin Opening
         \/ /\ proc[c].pc \in Holding
            /\ l \in Leaving => proc[c].pc \in Leaving
            /\ proc[c].pc \in Opening => l \in Opening
  PROVE  SessionInv'
<1>1. c \in Procs /\ l \in Labels /\ proc \in [Procs -> Locals]
  BY DEF TypeOK, ProcTypes, Procs, Labels
<1>2. Steady(c)
  BY <1>1, GotoStep DEF Steady, Key
<1> QED
  BY <1>1, <1>2, GotoStep, OneSteady

LEMMA InitSessionInv == Init => SessionInv
BY NoneIsNothing DEF Init, Idle, SessionInv, HeldSound, LeavingClosed, LookupSound, NoStrayPeer,
   Holding, Leaving, Procs

LEMMA JoinStepSessionInv ==
  ASSUME TypeOK, SessionInv, NEW c \in Conns, JoinStep(c)
  PROVE  SessionInv'
<1> USE DEF At, JoinLabels, LeaveLabels, Holding, Leaving, Opening
<1>1. ASSUME NEW r \in Rooms, NEW u \in Users, JoinFind(c, r, u) PROVE SessionInv'
  <2> DEFINE l == [proc[c] EXCEPT !.pc = "admit", !.room = r, !.user = u]
  <2>1. l.pc = "admit"
    BY DEF TypeOK, ProcTypes, Locals, Procs
  <2>2. UNCHANGED sessionVars /\ Move(c, l) /\ proc[c].pc = "idle"
    BY <1>1 DEF JoinFind
  <2> HIDE DEF l
  <2> QED
    BY <2>1, <2>2, ReturnSteady
<1>2. ASSUME JoinRefused(c) PROVE SessionInv'
  BY <1>2, ReturnSteady DEF JoinRefused, Return, Idle
<1>3. ASSUME JoinAdmit(c) PROVE SessionInv'
  <2> DEFINE b == proc[c].user \in participants[proc[c].room]
             l == [proc[c] EXCEPT !.pc = "collect", !.rejoin = b]
  <2>1. UNCHANGED sessionVars /\ Move(c, l) /\ proc[c].pc = "admit"
    BY <1>3 DEF JoinAdmit
  <2> HIDE DEF b
  <2>2. l.pc = "collect"
    BY DEF TypeOK, ProcTypes, Locals, Procs
  <2> HIDE DEF l
  <2> QED
    BY <2>1, <2>2, ReturnSteady
<1>4. ASSUME JoinCollect(c) PROVE SessionInv'
  <2> DEFINE b == sessions \cap SessionsOf(proc[c].room)
             l == [proc[c] EXCEPT !.pc = "cancel", !.batch = b]
  <2>1. UNCHANGED sessionVars /\ Move(c, l) /\ proc[c].pc = "collect"
    BY <1>4 DEF JoinCollect
  <2> HIDE DEF b
  <2>2. l.pc = "cancel"
    BY DEF TypeOK, ProcTypes, Locals, Procs
  <2> HIDE DEF l
  <2> QED
    BY <2>1, <2>2, ReturnSteady
<1>5. ASSUME JoinCancel(c) PROVE SessionInv'
  <2>1. UNCHANGED sessionVars /\ proc[c].pc = "cancel"
    BY <1>5 DEF JoinCancel
  <2>2. \A d \in Conns \ {c} : proc'[d] = proc[d]
    BY <1>5, ProcsAreDistinct DEF JoinCancel, Procs
  <2> DEFINE next == IF proc[c].rejoin THEN "resume" ELSE "create"
             l == [proc[c] EXCEPT !.pc = next, !.batch = {}]
  <2>3. proc'[c] = l
    BY <1>5, ProcsAreDistinct DEF JoinCancel, Procs
  <2>4. next \in {"resume", "create"}
    OBVIOUS
  <2> HIDE DEF next
  <2>5. l.pc = next
    BY DEF TypeOK, ProcTypes, Locals, Procs
  <2>6. Steady(c)
    BY <2>1, <2>3, <2>4, <2>5 DEF Steady
  <2> QED
    BY <2>1, <2>2, <2>6, StillSteady, SteadyStep
<1>6. ASSUME JoinResume(c) PROVE SessionInv'
  <2>1. CASE Return(c)
    BY <1>6, <2>1, ReturnSteady DEF JoinResume, Return, Idle
  <2>2. CASE Goto(c, "again")
    BY <1>6, <2>2, GotoSteady DEF JoinResume
  <2> QED
    BY <1>6, <2>1, <2>2 DEF JoinResume
<1>7. ASSUME JoinAgain(c) PROVE SessionInv'
  BY <1>7, GotoSteady DEF JoinAgain
<1>8. ASSUME NEW s \in Sessions, JoinCreate(c, s) PROVE SessionInv'
  <2> DEFINE l == [proc[c] EXCEPT !.pc = "save", !.sess = s]
  <2>1. Move(c, l) /\ c \in Procs /\ proc \in [Procs -> Locals] /\ proc[c] \in Locals
    BY <1>8 DEF JoinCreate, TypeOK, ProcTypes, Procs
  <2>2. l.pc = "save" /\ l.sess = s /\ l.room = proc[c].room /\ l.user = proc[c].user
    BY <2>1 DEF Locals
  <2> HIDE DEF l
  <2>3. proc'[c] = l /\ \A d \in Conns \ {c} : proc'[d] = proc[d]
    BY <2>1 DEF Move, Procs
  <2>4. /\ owner[s] = None /\ owner' = [owner EXCEPT ![s] = Key(c)] /\ peers' = peers \cup {s}
        /\ sessions' = sessions /\ lookup' = lookup /\ s \notin Created
    BY <1>8 DEF JoinCreate, Created
  <2>5. Key(c)' = Key(c) /\ \A d \in Conns \ {c} : Key(d)' = Key(d)
    BY <2>2, <2>3 DEF Key
  <2>6. \A q \in Sessions \ {s} : owner'[q] = owner[q]
    BY <2>4 DEF TypeOK, SessionTypes
  <2>7. owner'[s] = Key(c)
    BY <2>4 DEF TypeOK, SessionTypes
  <2>8. \A d \in Conns \ {c} :
          proc[d].pc \in Holding => proc[d].sess \in Sessions /\ proc[d].sess # s
    BY <2>4 DEF TypeOK, ProcTypes, ConnOK, Created
  <2>9. HeldSound'
    BY <2>2, <2>3, <2>5, <2>6, <2>7, <2>8 DEF SessionInv, HeldSound
  <2>10. LeavingClosed'
    BY <2>2, <2>3, <2>4, <2>8 DEF SessionInv, LeavingClosed
  <2>11. \A k \in Rooms \X Users : lookup[k] # s /\ lookup[k] \in Sessions \cup {None}
    BY <2>4, NoneIsNothing DEF TypeOK, SessionTypes, Created
  <2>12. LookupSound'
    BY <2>4, <2>6, <2>11 DEF SessionInv, LookupSound
  <2>13. NoStrayPeer'
    BY <1>8, <2>2, <2>3, <2>4 DEF JoinCreate, SessionInv, NoStrayPeer
  <2> QED
    BY <2>9, <2>10, <2>12, <2>13 DEF SessionInv
<1>9. ASSUME JoinCreateFails(c) PROVE SessionInv'
  BY <1>9, ReturnSteady DEF JoinCreateFails, Return, Idle
<1>10. ASSUME JoinSave(c) PROVE SessionInv'
  BY <1>10, GotoSteady DEF JoinSave, sessionVars
<1>11. ASSUME JoinRegister(c) PROVE SessionInv'
  <2> DEFINE s == proc[c].sess
  <2>1. c \in Procs /\ proc \in [Procs -> Locals] /\ Goto(c, "touch") /\ proc[c].pc = "register"
    BY <1>11 DEF JoinRegister, TypeOK, ProcTypes, Procs
  <2>2. /\ proc'[c].pc = "touch" /\ proc'[c].sess = s /\ Key(c)' = Key(c)
        /\ \A d \in Conns \ {c} : proc'[d] = proc[d] /\ Key(d)' = Key(d)
    BY <2>1, GotoStep DEF Labels, Key, Procs
  <2>3. /\ sessions' = sessions \cup {s} /\ lookup' = [lookup EXCEPT ![Key(c)] = s]
        /\ owner' = owner /\ peers' = peers
    BY <1>11 DEF JoinRegister
  <2>4. owner[s] = Key(c)
    BY <2>1 DEF SessionInv, HeldSound
  <2> HIDE DEF s
  <2>5. HeldSound'
    BY <2>1, <2>2, <2>3, <2>4 DEF SessionInv, HeldSound
  <2>6. LeavingClosed'
    BY <2>2, <2>3 DEF SessionInv, LeavingClosed
  <2>7. LookupSound'
    BY <2>3, <2>4 DEF SessionInv, LookupSound, TypeOK, SessionTypes
  <2>8. NoStrayPeer'
    BY <2>2, <2>3 DEF SessionInv, NoStrayPeer, s
  <2> QED
    BY <2>5, <2>6, <2>7, <2>8 DEF SessionInv
<1>12. ASSUME JoinTouch(c) PROVE SessionInv'
  BY <1>12, GotoSteady DEF JoinTouch
<1>13. ASSUME JoinFull(c) PROVE SessionInv'
  <2>1. CASE Return(c)
    BY <1>13, <2>1, ReturnSteady DEF JoinFull, Return, Idle
  <2>2. CASE Goto(c, "pair")
    BY <1>13, <2>2, GotoSteady DEF JoinFull
  <2> QED
    BY <1>13, <2>1, <2>2 DEF JoinFull, BindAndReturn
<1>14. ASSUME JoinPair(c) PROVE SessionInv'
  BY <1>14, ReturnSteady DEF JoinPair, BindAndReturn, Return, Idle
<1> QED
  BY <1>1, <1>2, <1>3, <1>4, <1>5, <1>6, <1>7, <1>8, <1>9, <1>10, <1>11, <1>12, <1>13, <1>14
     DEF JoinStep

LEMMA LeaveStepSessionInv ==
  ASSUME TypeOK, SessionInv, NEW c \in Conns, LeaveStep(c)
  PROVE  SessionInv'
<1> USE DEF At, JoinLabels, LeaveLabels, Holding, Leaving, Opening
<1>1. ASSUME LeaveCall(c) PROVE SessionInv'
  <2> DEFINE k == owner[bound[c]]
             l == [proc[c] EXCEPT !.pc = "find", !.room = k[1], !.user = k[2]]
  <2>1. UNCHANGED sessionVars /\ Move(c, l) /\ proc[c].pc = "idle"
    BY <1>1 DEF LeaveCall
  <2> HIDE DEF k
  <2>2. l.pc = "find"
    BY DEF TypeOK, ProcTypes, Locals, Procs
  <2> HIDE DEF l
  <2> QED
    BY <2>1, <2>2, ReturnSteady
<1>2. ASSUME LeaveFind(c) PROVE SessionInv'
  <2>1. CASE Return(c)
    BY <1>2, <2>1, ReturnSteady DEF LeaveFind, Return, Idle
  <2>2. CASE lookup[Key(c)] # None /\ Move(c, [proc[c] EXCEPT !.pc = "close", !.sess = lookup[Key(c)]])
    <3> DEFINE s == lookup[Key(c)]
               l == [proc[c] EXCEPT !.pc = "close", !.sess = s]
    <3>1. /\ c \in Procs /\ proc \in [Procs -> Locals] /\ proc[c] \in Locals /\ Move(c, l)
          /\ UNCHANGED sessionVars /\ proc[c].pc = "find"
      BY <1>2, <2>2 DEF LeaveFind, TypeOK, ProcTypes, Procs
    <3>2. Key(c) \in Rooms \X Users
      BY <3>1 DEF Key, TypeOK, ProcTypes, ConnOK
    <3>3. owner[s] = Key(c)
      BY <2>2, <3>2 DEF SessionInv, LookupSound, Key
    <3> HIDE DEF s
    <3>4. l.pc = "close" /\ l.sess = s /\ l.room = proc[c].room /\ l.user = proc[c].user
      BY <3>1 DEF Locals
    <3> HIDE DEF l
    <3>5. /\ proc'[c] = l /\ Key(c)' = Key(c)
          /\ \A d \in Conns \ {c} : proc'[d] = proc[d] /\ Key(d)' = Key(d)
      BY <3>1, <3>4 DEF Move, Procs, Key
    <3>6. HeldSound'
      BY <3>1, <3>3, <3>4, <3>5 DEF SessionInv, HeldSound, sessionVars
    <3>7. LeavingClosed'
      BY <3>1, <3>4, <3>5 DEF SessionInv, LeavingClosed, sessionVars
    <3>8. LookupSound'
      BY <3>1 DEF SessionInv, LookupSound, sessionVars
    <3>9. NoStrayPeer'
      BY <3>1, <3>5 DEF SessionInv, NoStrayPeer, sessionVars
    <3> QED
      BY <3>6, <3>7, <3>8, <3>9 DEF SessionInv
  <2> QED
    BY <1>2, <2>1, <2>2 DEF LeaveFind
<1>3. ASSUME LeaveClose(c) PROVE SessionInv'
  <2>1. c \in Procs /\ proc \in [Procs -> Locals] /\ Goto(c, "fetch") /\ proc[c].pc = "close"
    BY <1>3 DEF LeaveClose, TypeOK, ProcTypes, Procs
  <2>2. /\ proc'[c].pc = "fetch" /\ proc'[c].sess = proc[c].sess /\ Key(c)' = Key(c)
        /\ \A d \in Conns \ {c} : proc'[d] = proc[d] /\ Key(d)' = Key(d)
    BY <2>1, GotoStep DEF Labels, Key, Procs
  <2>3. peers' = peers \ {proc[c].sess} /\ UNCHANGED <<owner, sessions, lookup>>
    BY <1>3 DEF LeaveClose
  <2>4. HeldSound'
    BY <2>1, <2>2, <2>3 DEF SessionInv, HeldSound
  <2>5. LeavingClosed'
    BY <2>2, <2>3 DEF SessionInv, LeavingClosed
  <2>6. LookupSound'
    BY <2>3 DEF SessionInv, LookupSound
  <2>7. NoStrayPeer'
    BY <2>1, <2>2, <2>3 DEF SessionInv, NoStrayPeer
  <2> QED
    BY <2>4, <2>5, <2>6, <2>7 DEF SessionInv
<1>4. ASSUME LeaveFetch(c) PROVE SessionInv'
  <2>1. CASE Return(c)
    BY <1>4, <2>1, ReturnSteady DEF LeaveFetch, Return, Idle
  <2>2. CASE Goto(c, "leave")
    BY <1>4, <2>2, GotoSteady DEF LeaveFetch
  <2> QED
    BY <1>4, <2>1, <2>2 DEF LeaveFetch
<1>5. ASSUME LeaveLeave(c) PROVE SessionInv'
  BY <1>5, GotoSteady DEF LeaveLeave
<1>6. ASSUME LeaveStore(c) PROVE SessionInv'
  BY <1>6, GotoSteady DEF LeaveStore
<1>7. ASSUME LeaveUnregister(c) PROVE SessionInv'
  <2> DEFINE s == proc[c].sess
  <2>1. c \in Procs /\ proc \in [Procs -> Locals] /\ Return(c) /\ proc[c].pc = "unregister"
    BY <1>7 DEF LeaveUnregister, TypeOK, ProcTypes, Procs
  <2>2. /\ proc'[c].pc = "idle"
        /\ \A d \in Conns \ {c} : proc'[d] = proc[d] /\ Key(d)' = Key(d)
    BY <2>1, ReturnStep DEF Key, Procs, Idle
  <2>3. /\ sessions' = sessions \ {s} /\ lookup' = [lookup EXCEPT ![Key(c)] = None]
        /\ owner' = owner /\ peers' = peers
    BY <1>7 DEF LeaveUnregister
  <2>4. owner[s] = Key(c) /\ s \notin peers
    BY <2>1 DEF SessionInv, HeldSound, LeavingClosed
  <2>5. HeldSound'
    BY <2>2, <2>3 DEF SessionInv, HeldSound
  <2>6. LeavingClosed'
    BY <2>2, <2>3 DEF SessionInv, LeavingClosed
  <2>7. LookupSound'
    <3> SUFFICES ASSUME NEW r \in Rooms, NEW u \in Users, lookup'[<<r, u>>] # None
                 PROVE  lookup'[<<r, u>>] \in sessions' /\ owner'[lookup'[<<r, u>>]] = <<r, u>>
      BY DEF LookupSound
    <3>1. <<r, u>> # Key(c) /\ lookup'[<<r, u>>] = lookup[<<r, u>>]
      BY <2>3 DEF TypeOK, SessionTypes
    <3> QED
      BY <2>3, <2>4, <3>1 DEF SessionInv, LookupSound
  <2>8. NoStrayPeer'
    BY <2>1, <2>2, <2>3, <2>4 DEF SessionInv, NoStrayPeer
  <2> QED
    BY <2>5, <2>6, <2>7, <2>8 DEF SessionInv
<1> QED
  BY <1>1, <1>2, <1>3, <1>4, <1>5, <1>6, <1>7 DEF LeaveStep

LEMMA DeleteCleanupSessionInv ==
  ASSUME TypeOK, SessionInv, NEW p \in Admins \cup Timers, DeleteCleanup(p)
  PROVE  SessionInv'
<1> DEFINE r == proc[p].room
           gone == {s \in sessions : \E u \in Users : lookup[<<r, u>>] = s}
<1>1. /\ peers' = peers \ gone /\ sessions' = sessions \ gone /\ owner' = owner
      /\ lookup' = [k \in Rooms \X Users |-> IF k[1] = r THEN None ELSE lookup[k]]
  BY DEF DeleteCleanup
<1>2. \A c \in Conns : proc'[c] = proc[c] /\ Key(c)' = Key(c)
  BY ProcsAreDistinct DEF DeleteCleanup, Goto, Move, TypeOK, ProcTypes, Procs, Key
<1>3. \A s \in gone : owner[s][1] = r
  <2> SUFFICES ASSUME NEW u \in Users, lookup[<<r, u>>] \in sessions
               PROVE  owner[lookup[<<r, u>>]][1] = r
    OBVIOUS
  <2>1. r \in Rooms
    BY RoomOfDelete DEF TypeOK, DeleteCleanup, At
  <2>2. lookup[<<r, u>>] # None
    BY NoneIsNothing DEF TypeOK, SessionTypes, Created
  <2> QED
    BY <2>1, <2>2 DEF SessionInv, LookupSound
<1> HIDE DEF r, gone
<1>4. HeldSound'
  BY <1>1, <1>2 DEF SessionInv, HeldSound
<1>5. LeavingClosed'
  BY <1>1, <1>2 DEF SessionInv, LeavingClosed
<1>6. LookupSound'
  <2> SUFFICES ASSUME NEW q \in Rooms, NEW u \in Users, lookup'[<<q, u>>] # None
               PROVE  lookup'[<<q, u>>] \in sessions' /\ owner'[lookup'[<<q, u>>]] = <<q, u>>
    BY DEF LookupSound
  <2>1. q # r /\ lookup'[<<q, u>>] = lookup[<<q, u>>]
    BY <1>1
  <2>2. lookup[<<q, u>>] \in sessions /\ owner[lookup[<<q, u>>]] = <<q, u>>
    BY <2>1 DEF SessionInv, LookupSound
  <2> QED
    BY <1>1, <1>3, <2>1, <2>2
<1>7. NoStrayPeer'
  BY <1>1, <1>2 DEF SessionInv, NoStrayPeer
<1> QED
  BY <1>4, <1>5, <1>6, <1>7 DEF SessionInv

LEMMA NextSessionInv == TypeOK /\ SessionInv /\ [Next]_vars => SessionInv'
<1> SUFFICES ASSUME TypeOK, SessionInv, [Next]_vars PROVE SessionInv'
  OBVIOUS
<1>1. ASSUME NEW r \in Rooms, CreateRoom(r) \/ BecomeStale(r) PROVE SessionInv'
  BY <1>1, NoneMoves DEF CreateRoom, BecomeStale
<1>2. ASSUME NEW c \in Conns, JoinStep(c) PROVE SessionInv'
  BY <1>2, JoinStepSessionInv
<1>3. ASSUME NEW c \in Conns, LeaveStep(c) PROVE SessionInv'
  BY <1>3, LeaveStepSessionInv
<1>4. ASSUME NEW c \in Conns, Drop(c) PROVE SessionInv'
  BY <1>4, NoneMoves DEF Drop
<1>5. ASSUME NEW a \in Admins, AdminCall(a) PROVE SessionInv'
  BY <1>5, OtherMoves DEF AdminCall, DeleteCall, SweepList, SweepNext
<1>6. ASSUME NEW p \in Admins \cup Timers, DeleteStep(p) PROVE SessionInv'
  <2>1. ASSUME DeleteFind(p) \/ DeleteShut(p) \/ DeleteRemove(p) PROVE SessionInv'
    BY <2>1, OtherMoves DEF DeleteFind, DeleteShut, DeleteRemove, AfterDelete, Goto, Return
  <2> QED
    BY <1>6, <2>1, DeleteCleanupSessionInv DEF DeleteStep
<1>7. ASSUME NEW t \in Timers, ArmTimer(t) \/ TimerStep(t) PROVE SessionInv'
  BY <1>7, OtherMoves DEF TimerStep, ArmTimer, Fire, GraceExpired, Notify, Goto, Return
<1>8. ASSUME NEW s \in Sessions, StartPipeline(s) PROVE SessionInv'
  BY <1>8, NoneMoves DEF StartPipeline
<1>9. CASE AlreadyArmed
  BY <1>9, NoneMoves DEF AlreadyArmed
<1>10. CASE UNCHANGED vars
  BY <1>10, NoneMoves DEF vars
<1> QED
  BY <1>1, <1>2, <1>3, <1>4, <1>5, <1>6, <1>7, <1>8, <1>9, <1>10 DEF Next

LEMMA SessionsCorrect == Spec => []SessionInv
BY InitTypeOK, NextTypeOK, InitSessionInv, NextSessionInv, PTL DEF Spec

\* Whatever the interleaving, LeaveRoom never dereferences a missing session and
\* a reconnecting user never gets the session of someone else.
THEOREM LookupIsSound == Spec => []LookupSound
<1>1. SessionInv => LookupSound
  BY DEF SessionInv
<1> QED
  BY <1>1, SessionsCorrect, PTL

\* No interleaving leaves an open PeerConnection that no session of the service
\* and no JoinRoom in progress accounts for.
THEOREM PeersAccountedFor == Spec => []NoStrayPeer
<1>1. SessionInv => NoStrayPeer
  BY DEF SessionInv
<1> QED
  BY <1>1, SessionsCorrect, PTL

(***************************************************************************)
(* A PeerConnection is closed by its own user, or with its room.           *)
(***************************************************************************)
ShutIsClosed ==
  \A p \in Admins \cup Timers :
    proc[p].pc \in {"cleanup", "remove"} => status[proc[p].room] = "closed"

LEMMA ShutStep == TypeOK /\ ShutIsClosed /\ [Next]_vars => ShutIsClosed'
<1> SUFFICES ASSUME TypeOK, ShutIsClosed, [Next]_vars PROVE ShutIsClosed'
  OBVIOUS
\* A closed room stays closed, and a deleter that does not shut its room here
\* was already past that point.
<1>1. ASSUME \A r \in Rooms : status[r] = "closed" => status'[r] = "closed",
             \A p \in Admins \cup Timers :
               proc'[p].pc \in {"cleanup", "remove"} =>
                 /\ proc[p].pc \in {"cleanup", "remove"}
                 /\ proc'[p].room = proc[p].room
      PROVE ShutIsClosed'
  BY <1>1, RoomOfDelete DEF ShutIsClosed, TypeOK
<1>2. ASSUME UNCHANGED status, NEW c \in Conns, \A q \in Procs \ {c} : proc'[q] = proc[q]
      PROVE  ShutIsClosed'
  BY <1>1, <1>2, ProcsAreDistinct DEF Procs
<1>3. ASSUME UNCHANGED status, NEW p \in Admins \cup Timers, NEW l, Move(p, l),
             l.pc \notin {"cleanup", "remove"}
      PROVE  ShutIsClosed'
  BY <1>1, <1>3 DEF Move, TypeOK, ProcTypes, Procs
<1>4. ASSUME UNCHANGED status, UNCHANGED proc PROVE ShutIsClosed'
  BY <1>1, <1>4
<1>5. ASSUME NEW r \in Rooms, CreateRoom(r) \/ BecomeStale(r) PROVE ShutIsClosed'
  BY <1>1, <1>5 DEF CreateRoom, BecomeStale, TypeOK, RoomTypes
<1>6. ASSUME NEW c \in Conns, JoinStep(c), ~ JoinCancel(c) PROVE ShutIsClosed'
  <2>1. UNCHANGED status /\ \E l : Move(c, l)
    BY <1>6 DEF JoinStep, JoinFind, JoinRefused, JoinAdmit, JoinCollect, JoinResume,
       JoinAgain, JoinCreate, JoinCreateFails, JoinSave, JoinRegister, JoinTouch, JoinFull,
       JoinPair, BindAndReturn, Goto, Return, roomVars
  <2> QED
    BY <1>2, <2>1 DEF Move, TypeOK, ProcTypes, Procs
<1>7. ASSUME NEW c \in Conns, JoinCancel(c) PROVE ShutIsClosed'
  BY <1>1, <1>7, ProcsAreDistinct DEF JoinCancel, Procs, roomVars, Idle
<1>8. ASSUME NEW c \in Conns, LeaveStep(c) PROVE ShutIsClosed'
  <2>1. UNCHANGED status /\ \E l : Move(c, l)
    BY <1>8 DEF LeaveStep, LeaveCall, LeaveFind, LeaveClose, LeaveFetch, LeaveLeave,
       LeaveStore, LeaveUnregister, Goto, Return, roomVars
  <2> QED
    BY <1>2, <2>1 DEF Move, TypeOK, ProcTypes, Procs
<1>9. ASSUME NEW a \in Admins, NEW r \in Rooms, DeleteCall(a, r) PROVE ShutIsClosed'
  <2>1. [proc[a] EXCEPT !.pc = "shut", !.room = r].pc = "shut"
    BY DEF TypeOK, ProcTypes, Procs, Locals
  <2> QED
    BY <1>3, <1>9, <2>1 DEF DeleteCall, roomVars
<1>10. ASSUME NEW a \in Admins, SweepNext(a) PROVE ShutIsClosed'
  <2>1. PICK r : Move(a, [proc[a] EXCEPT !.pc = "lookFor", !.room = r, !.todo = @ \ {r}])
    BY <1>10 DEF SweepNext
  <2>2. [proc[a] EXCEPT !.pc = "lookFor", !.room = r, !.todo = @ \ {r}].pc = "lookFor"
    BY DEF TypeOK, ProcTypes, Procs, Locals
  <2> QED
    BY <1>3, <1>10, <2>1, <2>2 DEF SweepNext, roomVars
<1>11. ASSUME NEW a \in Admins, SweepList(a) PROVE ShutIsClosed'
  <2>1. [proc[a] EXCEPT !.todo = Expired].pc = "idle"
    BY <1>11 DEF TypeOK, ProcTypes, Procs, Locals, SweepList, At
  <2> QED
    BY <1>3, <1>11, <2>1 DEF SweepList, roomVars
<1>12. ASSUME NEW p \in Admins \cup Timers, NEW l \in DeleteLabels \cup TimerLabels,
              l \notin {"cleanup", "remove"}, Goto(p, l), UNCHANGED status
       PROVE  ShutIsClosed'
  <2>1. proc'[p].pc = l /\ \A q \in Procs \ {p} : proc'[q] = proc[q]
    BY <1>12, GotoStep DEF TypeOK, ProcTypes, Procs, Labels
  <2> QED
    BY <1>1, <1>12, <2>1 DEF Procs
<1>13. ASSUME NEW p \in Admins \cup Timers, AfterDelete(p), UNCHANGED status PROVE ShutIsClosed'
  <2>1. CASE Goto(p, "notify")
    BY <1>12, <1>13, <2>1 DEF TimerLabels
  <2>2. CASE Move(p, [Idle EXCEPT !.todo = proc[p].todo])
    BY <1>3, <1>13, <2>2 DEF Idle
  <2> QED
    BY <1>13, <2>1, <2>2 DEF AfterDelete
<1>14. ASSUME NEW p \in Admins \cup Timers, DeleteFind(p) \/ DeleteRemove(p) PROVE ShutIsClosed'
  BY <1>12, <1>13, <1>14 DEF DeleteFind, DeleteRemove, roomVars, DeleteLabels
<1>15. ASSUME NEW p \in Admins \cup Timers, DeleteShut(p) PROVE ShutIsClosed'
  <2>1. p \in Procs /\ proc \in [Procs -> Locals] /\ proc[p].room \in Rooms /\ "cleanup" \in Labels
    BY <1>15, RoomOfDelete DEF TypeOK, DeleteShut, At, Labels, DeleteLabels
  <2>2. proc'[p].room = proc[p].room /\ \A q \in Procs \ {p} : proc'[q] = proc[q]
    BY <1>15, <2>1, GotoStep DEF DeleteShut
  <2>3. status'[proc[p].room] = "closed" /\ \A r \in Rooms : status[r] = "closed" => status'[r] = "closed"
    BY <1>15, <2>1 DEF DeleteShut, TypeOK, RoomTypes
  <2> QED
    BY <2>1, <2>2, <2>3, RoomOfDelete DEF ShutIsClosed, TypeOK, Procs
<1>16. ASSUME NEW p \in Admins \cup Timers, DeleteCleanup(p) PROVE ShutIsClosed'
  <2>1. p \in Procs /\ proc \in [Procs -> Locals] /\ "remove" \in Labels
    BY <1>16, RoomOfDelete DEF TypeOK, DeleteCleanup, At, Labels, DeleteLabels
  <2>2. /\ proc'[p].room = proc[p].room /\ proc[p].pc = "cleanup"
        /\ \A q \in Procs \ {p} : proc'[q] = proc[q]
    BY <1>16, <2>1, GotoStep DEF DeleteCleanup, At
  <2> QED
    BY <1>1, <1>16, <2>2 DEF DeleteCleanup, roomVars, Procs
<1>17. ASSUME NEW t \in Timers, TimerStep(t) PROVE ShutIsClosed'
  <2>1. CASE Fire(t) \/ GraceExpired(t)
    BY <1>12, <2>1 DEF Fire, GraceExpired, roomVars, DeleteLabels, TimerLabels
  <2>2. CASE Notify(t)
    BY <1>3, <2>2 DEF Notify, Return, Idle, roomVars
  <2> QED
    BY <1>17, <2>1, <2>2 DEF TimerStep
<1>18. ASSUME NEW t \in Timers, ArmTimer(t) PROVE ShutIsClosed'
  <2> DEFINE s == hub.sess
             l == [proc[t] EXCEPT !.pc = "armed", !.sess = s, !.room = owner[s][1]]
  <2>1. l.pc = "armed"
    BY DEF TypeOK, ProcTypes, Procs, Locals
  <2>2. Move(t, l) /\ UNCHANGED status
    BY <1>18 DEF ArmTimer, roomVars
  <2> HIDE DEF l
  <2> QED
    BY <1>3, <2>1, <2>2
<1>19. ASSUME \/ \E c \in Conns : Drop(c)
              \/ AlreadyArmed
              \/ \E s \in Sessions : StartPipeline(s)
              \/ UNCHANGED vars
       PROVE ShutIsClosed'
  BY <1>4, <1>19 DEF Drop, AlreadyArmed, StartPipeline, vars, roomVars
<1>20. ASSUME NEW c \in Conns, JoinStep(c) \/ LeaveStep(c) PROVE ShutIsClosed'
  BY <1>6, <1>7, <1>8, <1>20
<1>21. ASSUME NEW a \in Admins, AdminCall(a) PROVE ShutIsClosed'
  BY <1>9, <1>10, <1>11, <1>21 DEF AdminCall
<1>22. ASSUME NEW p \in Admins \cup Timers, DeleteStep(p) PROVE ShutIsClosed'
  BY <1>14, <1>15, <1>16, <1>22 DEF DeleteStep
<1> QED
  BY <1>5, <1>17, <1>18, <1>19, <1>20, <1>21, <1>22 DEF Next

ClosedRightly ==
  \A s \in peers \ peers' :
    \/ status[owner[s][1]] = "closed"
    \/ \E c \in Conns : At(c, "close") /\ Key(c) = owner[s]

LEMMA CloseStep == TypeOK /\ SessionInv /\ ShutIsClosed /\ [Next]_vars => ClosedRightly
<1> SUFFICES ASSUME TypeOK, SessionInv, ShutIsClosed, [Next]_vars PROVE ClosedRightly
  OBVIOUS
<1>1. ASSUME peers \subseteq peers' PROVE ClosedRightly
  BY <1>1 DEF ClosedRightly
<1>2. ASSUME NEW c \in Conns, JoinStep(c) PROVE ClosedRightly
  BY <1>1, <1>2 DEF JoinStep, JoinFind, JoinRefused, JoinAdmit, JoinCollect, JoinCancel,
     JoinResume, JoinAgain, JoinCreate, JoinCreateFails, JoinSave, JoinRegister, JoinTouch,
     JoinFull, JoinPair, sessionVars
<1>3. ASSUME NEW c \in Conns, LeaveStep(c), ~ LeaveClose(c) PROVE ClosedRightly
  BY <1>1, <1>3 DEF LeaveStep, LeaveCall, LeaveFind, LeaveFetch, LeaveLeave, LeaveStore,
     LeaveUnregister, sessionVars
<1>4. ASSUME NEW c \in Conns, LeaveClose(c) PROVE ClosedRightly
  <2>1. owner[proc[c].sess] = Key(c) /\ At(c, "close") /\ peers' = peers \ {proc[c].sess}
    BY <1>4 DEF LeaveClose, At, SessionInv, HeldSound, Holding
  <2> QED
    BY <2>1 DEF ClosedRightly
<1>5. ASSUME NEW p \in Admins \cup Timers, DeleteCleanup(p) PROVE ClosedRightly
  <2>1. proc[p].pc = "cleanup" /\ proc[p].room \in Rooms /\ status[proc[p].room] = "closed"
    BY <1>5, RoomOfDelete DEF DeleteCleanup, At, ShutIsClosed, TypeOK
  <2>2. ASSUME NEW s \in peers \ peers' PROVE owner[s][1] = proc[p].room
    <3>1. PICK u \in Users : lookup[<<proc[p].room, u>>] = s
      BY <1>5, <2>2 DEF DeleteCleanup
    <3>2. s # None
      BY <2>2, NoneIsNothing DEF TypeOK, SessionTypes, Created
    <3> QED
      BY <2>1, <3>1, <3>2 DEF SessionInv, LookupSound
  <2> QED
    BY <2>1, <2>2 DEF ClosedRightly
<1>6. ASSUME UNCHANGED sessionVars PROVE ClosedRightly
  BY <1>1, <1>6 DEF sessionVars
<1> QED
  BY <1>2, <1>3, <1>4, <1>5, <1>6 DEF Next, CreateRoom, BecomeStale, Drop, AdminCall, DeleteCall,
     SweepList, SweepNext, DeleteStep, DeleteFind, DeleteShut, DeleteRemove, ArmTimer, TimerStep, Fire,
     GraceExpired, Notify, AlreadyArmed, StartPipeline, vars

\* A leave closes the PeerConnection of the leaving user's own session; anything
\* else closes PeerConnections only in rooms that have been closed.
THEOREM CloseRights == Spec => ClosedByOwner
<1>1. Init => ShutIsClosed
  BY DEF Init, ShutIsClosed, Idle, Procs
<1>2. ClosedRightly => [ClosedRightly]_vars
  OBVIOUS
<1>3. QED
  BY <1>1, TypeCorrect, SessionsCorrect, ShutStep, CloseStep, PTL
  DEF Spec, ClosedByOwner, ClosedRightly

(***************************************************************************)
(* Places.                                                                 *)
(***************************************************************************)
PlacesBounded ==
  /\ RoomDiscipline
  /\ \A r \in Rooms : IsFiniteSet(participants[r])

\* Room.Join and Room.Leave change the places of one room: they take one while
\* the room is active and not full, or give one back.
OnePlace(r) ==
  /\ status' = status
  /\ \A q \in Rooms \ {r} : participants'[q] = participants[q]
  /\ \/ participants'[r] \subseteq participants[r]
     \/ \E u \in Users :
          /\ status[r] = "active"
          /\ Cardinality(participants[r]) < Capacity
          /\ participants'[r] = participants[r] \cup {u}

LEMMA OnePlaceStep ==
  ASSUME TypeOK, PlacesBounded, NEW r \in Rooms, OnePlace(r)
  PROVE  PlacesBounded'
<1>1. /\ IsFiniteSet(participants[r]) /\ Cardinality(participants[r]) <= Capacity
      /\ Cardinality(participants[r]) \in Nat /\ Capacity \in Nat
      /\ status[r] # "active" => participants[r] = {}
  BY FS_CardinalityType, CapacityIsPositive DEF PlacesBounded, RoomDiscipline
<1>2. CASE participants'[r] \subseteq participants[r]
  <2>1. /\ IsFiniteSet(participants'[r])
        /\ Cardinality(participants'[r]) <= Cardinality(participants[r])
        /\ Cardinality(participants'[r]) \in Nat
    BY <1>1, <1>2, FS_Subset, FS_CardinalityType
  <2>2. /\ Cardinality(participants'[r]) <= Capacity
        /\ status'[r] # "active" => participants'[r] = {}
    BY <1>1, <1>2, <2>1 DEF OnePlace
  <2> QED
    BY <2>1, <2>2 DEF PlacesBounded, RoomDiscipline, OnePlace
<1>3. ASSUME NEW u \in Users, status[r] = "active",
             Cardinality(participants[r]) < Capacity,
             participants'[r] = participants[r] \cup {u}
      PROVE  PlacesBounded'
  <2>1. /\ IsFiniteSet(participants'[r])
        /\ Cardinality(participants'[r]) <= Cardinality(participants[r]) + 1
        /\ Cardinality(participants'[r]) \in Nat
    <3>1. /\ IsFiniteSet(participants[r] \cup {u})
          /\ Cardinality(participants[r] \cup {u}) \in
               {Cardinality(participants[r]), Cardinality(participants[r]) + 1}
      BY <1>1, FS_AddElement
    <3> QED
      BY <1>1, <1>3, <3>1
  <2>2. Cardinality(participants'[r]) <= Capacity
    BY <1>1, <1>3, <2>1
  <2> QED
    BY <1>3, <2>1, <2>2 DEF PlacesBounded, RoomDiscipline, OnePlace
<1> QED
  BY <1>2, <1>3 DEF OnePlace

LEMMA SamePlaces ==
  ASSUME PlacesBounded, UNCHANGED <<status, participants>>
  PROVE  PlacesBounded'
BY DEF PlacesBounded, RoomDiscipline

LEMMA InitPlaces == Init => PlacesBounded
BY FS_EmptySet, CapacityIsPositive DEF Init, PlacesBounded, RoomDiscipline

\* A connection in a call has the room and the user of the call.
LEMMA InCall ==
  ASSUME TypeOK, NEW c \in Conns, proc[c].pc # "idle"
  PROVE  /\ proc[c].room \in Rooms /\ proc[c].user \in Users
         /\ Key(c) = <<proc[c].room, proc[c].user>> /\ Key(c) \in Rooms \X Users
BY DEF TypeOK, ProcTypes, ConnOK, Key

LEMMA JoinPlaces ==
  ASSUME TypeOK, PlacesBounded, NEW c \in Conns, JoinStep(c)
  PROVE  PlacesBounded'
<1> DEFINE r == proc[c].room
           u == proc[c].user
<1>1. CASE JoinAdmit(c)
  <2>1. r \in Rooms /\ u \in Users
    BY <1>1, InCall DEF JoinAdmit, At
  <2>2. OnePlace(r)
    BY <1>1, <2>1 DEF JoinAdmit, OnePlace, TypeOK, RoomTypes
  <2> QED
    BY <2>1, <2>2, OnePlaceStep
<1>2. CASE JoinAgain(c)
  <2>1. r \in Rooms /\ u \in Users
    BY <1>2, InCall DEF JoinAgain, At
  <2>2. OnePlace(r)
    BY <1>2, <2>1 DEF JoinAgain, OnePlace, TypeOK, RoomTypes
  <2> QED
    BY <2>1, <2>2, OnePlaceStep
<1>3. CASE JoinCreateFails(c)
  <2>1. r \in Rooms /\ u \in Users
    BY <1>3, InCall DEF JoinCreateFails, At
  <2>2. OnePlace(r)
    BY <1>3, <2>1 DEF JoinCreateFails, OnePlace, TypeOK, RoomTypes
  <2> QED
    BY <2>1, <2>2, OnePlaceStep
<1>4. CASE UNCHANGED <<status, participants>>
  BY <1>4, SamePlaces
<1> QED
  BY <1>1, <1>2, <1>3, <1>4
  DEF JoinStep, JoinFind, JoinRefused, JoinCollect, JoinCancel, JoinResume, JoinCreate,
      JoinSave, JoinRegister, JoinTouch, JoinFull, JoinPair, roomVars

LEMMA LeavePlaces ==
  ASSUME TypeOK, PlacesBounded, NEW c \in Conns, LeaveStep(c)
  PROVE  PlacesBounded'
<1>1. CASE LeaveLeave(c)
  <2>1. proc[c].room \in Rooms
    BY <1>1, InCall DEF LeaveLeave, At
  <2>2. OnePlace(proc[c].room)
    BY <1>1, <2>1 DEF LeaveLeave, OnePlace, TypeOK, RoomTypes
  <2> QED
    BY <2>1, <2>2, OnePlaceStep
<1>2. CASE UNCHANGED <<status, participants>>
  BY <1>2, SamePlaces
<1> QED
  BY <1>1, <1>2
  DEF LeaveStep, LeaveCall, LeaveFind, LeaveClose, LeaveFetch, LeaveStore, LeaveUnregister,
      roomVars

LEMMA DeletePlaces ==
  ASSUME TypeOK, PlacesBounded, NEW p \in Admins \cup Timers, DeleteStep(p)
  PROVE  PlacesBounded'
<1>1. CASE DeleteShut(p)
  <2>1. Cardinality({}) <= Capacity /\ IsFiniteSet({})
    BY FS_EmptySet, CapacityIsPositive
  <2> QED
    BY <1>1, <2>1 DEF DeleteShut, PlacesBounded, RoomDiscipline, TypeOK, RoomTypes
<1>2. CASE UNCHANGED <<status, participants>>
  BY <1>2, SamePlaces
<1> QED
  BY <1>1, <1>2 DEF DeleteStep, DeleteFind, DeleteCleanup, DeleteRemove, roomVars

LEMMA NextPlaces == TypeOK /\ PlacesBounded /\ [Next]_vars => PlacesBounded'
<1> SUFFICES ASSUME TypeOK, PlacesBounded, [Next]_vars PROVE PlacesBounded'
  OBVIOUS
<1>1. ASSUME NEW r \in Rooms, CreateRoom(r) PROVE PlacesBounded'
  <2>1. participants' = participants /\ \A q \in Rooms : status'[q] # "active" => status[q] # "active"
    BY <1>1 DEF CreateRoom, TypeOK, RoomTypes
  <2> QED
    BY <2>1 DEF PlacesBounded, RoomDiscipline
<1>2. ASSUME NEW c \in Conns, JoinStep(c) \/ LeaveStep(c) PROVE PlacesBounded'
  BY <1>2, JoinPlaces, LeavePlaces
<1>3. ASSUME NEW p \in Admins \cup Timers, DeleteStep(p) PROVE PlacesBounded'
  BY <1>3, DeletePlaces
<1>4. CASE UNCHANGED <<status, participants>>
  BY <1>4, SamePlaces
<1> QED
  BY <1>1, <1>2, <1>3, <1>4
  DEF Next, BecomeStale, Drop, AdminCall, DeleteCall, SweepList, SweepNext, ArmTimer, TimerStep,
      Fire, GraceExpired, Notify, AlreadyArmed, StartPipeline, vars, roomVars

\* Room.Join and Room.Leave, as the calls of the service use them, never let a
\* room hold more than its capacity, and nobody gets into a closed room.
THEOREM RoomsDisciplined == Spec => []RoomDiscipline
<1>1. PlacesBounded => RoomDiscipline
  BY DEF PlacesBounded
<1> QED
  BY <1>1, TypeCorrect, InitPlaces, NextPlaces, PTL DEF Spec

(***************************************************************************)
(* Grace timers.                                                           *)
(***************************************************************************)
\* The timers of TimerEntrySound.
Pending(t) == proc[t].pc \in {"armed", "fired"}

LEMMA InitEntries == Init => TimerEntrySound
BY DEF Init, TimerEntrySound

\* A step that changes no entry, and no timer that has one.
LEMMA SameEntries ==
  ASSUME TypeOK, TimerEntrySound, UNCHANGED graceTimers,
         \A t \in Timers : Pending(t) => Pending(t)' /\ proc'[t].sess = proc[t].sess
  PROVE  TimerEntrySound'
BY DEF TimerEntrySound, Pending, TypeOK, TimerTypes

\* Another goroutine moves, or a timer that is not pending.
LEMMA NotPending ==
  ASSUME TypeOK, TimerEntrySound, UNCHANGED graceTimers, NEW p \in Procs, NEW l, Move(p, l),
         p \in Timers => ~ Pending(p)
  PROVE  TimerEntrySound'
<1>1. \A t \in Timers : Pending(t) => proc'[t] = proc[t]
  BY DEF TypeOK, ProcTypes, Procs, Move
<1> QED
  BY <1>1, SameEntries DEF Pending

LEMMA CancelEntries ==
  ASSUME TypeOK, TimerEntrySound, NEW c \in Conns, JoinCancel(c)
  PROVE  TimerEntrySound'
<1> DEFINE batch == proc[c].batch
           stopped == {t \in Timers : At(t, "armed") /\ \E s \in batch : graceTimers[s] = t}
<1>1. /\ graceTimers' = [s \in Sessions |-> IF s \in batch THEN None ELSE graceTimers[s]]
      /\ \A t \in Timers \ stopped : proc'[t] = proc[t]
  BY ProcsAreDistinct DEF JoinCancel, Procs
<1>2. batch \subseteq Sessions
  BY DEF TypeOK, ProcTypes, Locals, Procs
<1> SUFFICES ASSUME NEW s \in Sessions, graceTimers'[s] # None
             PROVE  /\ proc'[graceTimers'[s]].sess = s
                    /\ proc'[graceTimers'[s]].pc \in {"armed", "fired"}
  BY DEF TimerEntrySound
<1> DEFINE t == graceTimers[s]
<1>3. s \notin batch /\ graceTimers'[s] = t /\ t # None /\ t \in Timers
  BY <1>1 DEF TypeOK, TimerTypes
<1>4. proc[t].sess = s /\ proc[t].pc \in {"armed", "fired"}
  BY <1>3 DEF TimerEntrySound
<1>5. t \notin stopped
  <2> SUFFICES ASSUME NEW q \in batch, graceTimers[q] = t PROVE FALSE
    OBVIOUS
  <2>1. proc[t].sess = q
    BY <1>2, <1>3 DEF TimerEntrySound
  <2> QED
    BY <1>3, <1>4, <2>1
<1> QED
  BY <1>1, <1>3, <1>4, <1>5

LEMMA TimerEntries ==
  ASSUME TypeOK, TimerEntrySound, NEW t \in Timers, ArmTimer(t) \/ TimerStep(t)
  PROVE  TimerEntrySound'
<1>0. t \in Procs /\ proc \in [Procs -> Locals] /\ t # None
  BY NoneIsNothing DEF TypeOK, ProcTypes, Procs
<1>1. CASE ArmTimer(t)
  <2> DEFINE s == hub.sess
             l == [proc[t] EXCEPT !.pc = "armed", !.sess = s, !.room = owner[s][1]]
  <2>1. /\ s \in Sessions /\ graceTimers' = [graceTimers EXCEPT ![s] = t] /\ Move(t, l)
        /\ proc[t].pc = "idle"
    BY <1>1, NoneIsNothing DEF ArmTimer, At, TypeOK, TimerTypes, Created
  <2> HIDE DEF s
  <2>2. l.pc = "armed" /\ l.sess = s
    BY <1>0 DEF Locals
  <2> HIDE DEF l
  <2>3. proc'[t] = l /\ \A q \in Timers \ {t} : proc'[q] = proc[q]
    BY <1>0, <2>1 DEF Move, Procs
  <2>4. \A q \in Sessions : graceTimers[q] # t
    BY <1>0, <2>1 DEF TimerEntrySound
  <2> QED
    BY <2>1, <2>2, <2>3, <2>4 DEF TimerEntrySound, TypeOK, TimerTypes
<1>2. CASE Fire(t)
  <2>1. /\ proc'[t].pc = "fired" /\ proc'[t].sess = proc[t].sess
        /\ \A q \in Timers \ {t} : proc'[q] = proc[q]
    BY <1>0, <1>2, GotoStep DEF Fire, Labels, TimerLabels, Procs
  <2> QED
    BY <1>2, <2>1, SameEntries DEF Fire, Pending
<1>3. CASE GraceExpired(t)
  <2>1. \A q \in Timers \ {t} : proc'[q] = proc[q]
    BY <1>0, <1>3, GotoStep DEF GraceExpired, Labels, DeleteLabels, Procs
  <2>2. graceTimers' = [graceTimers EXCEPT ![proc[t].sess] = None] /\ proc[t].sess \in Sessions
    BY <1>3 DEF GraceExpired, At, TypeOK, ProcTypes, TimerOK, Created
  <2> QED
    BY <1>0, <2>1, <2>2 DEF TimerEntrySound, TypeOK, TimerTypes
<1>4. CASE Notify(t)
  BY <1>0, <1>4, NotPending DEF Notify, Return, At, Pending
<1> QED
  BY <1>1, <1>2, <1>3, <1>4 DEF TimerStep

LEMMA NextEntries == TypeOK /\ TimerEntrySound /\ [Next]_vars => TimerEntrySound'
<1> SUFFICES ASSUME TypeOK, TimerEntrySound, [Next]_vars PROVE TimerEntrySound'
  OBVIOUS
<1>1. ASSUME NEW c \in Conns, JoinStep(c), ~ JoinCancel(c) PROVE TimerEntrySound'
  <2>1. UNCHANGED graceTimers /\ \E l : Move(c, l)
    BY <1>1
    DEF JoinStep, JoinFind, JoinRefused, JoinAdmit, JoinCollect, JoinResume, JoinAgain,
        JoinCreate, JoinCreateFails, JoinSave, JoinRegister, JoinTouch, JoinFull, JoinPair,
        BindAndReturn, Goto, Return
  <2> QED
    BY <2>1, NotPending, ProcsAreDistinct DEF Procs
<1>2. ASSUME NEW c \in Conns, JoinCancel(c) PROVE TimerEntrySound'
  BY <1>2, CancelEntries
<1>3. ASSUME NEW c \in Conns, LeaveStep(c) PROVE TimerEntrySound'
  <2>1. UNCHANGED graceTimers /\ \E l : Move(c, l)
    BY <1>3
    DEF LeaveStep, LeaveCall, LeaveFind, LeaveClose, LeaveFetch, LeaveLeave, LeaveStore,
        LeaveUnregister, Goto, Return
  <2> QED
    BY <2>1, NotPending, ProcsAreDistinct DEF Procs
<1>4. ASSUME NEW p \in Admins, AdminCall(p) PROVE TimerEntrySound'
  <2>1. UNCHANGED graceTimers /\ \E l : Move(p, l)
    BY <1>4 DEF AdminCall, DeleteCall, SweepList, SweepNext
  <2> QED
    BY <2>1, NotPending, ProcsAreDistinct DEF Procs
<1>5. ASSUME NEW p \in Admins \cup Timers, DeleteStep(p) PROVE TimerEntrySound'
  <2>1. UNCHANGED graceTimers /\ (\E l : Move(p, l)) /\ proc[p].pc \in DeleteLabels
    BY <1>5
    DEF DeleteStep, DeleteFind, DeleteShut, DeleteCleanup, DeleteRemove, AfterDelete, Goto,
        Return, At, DeleteLabels
  <2> QED
    BY <2>1, NotPending DEF Procs, Pending, DeleteLabels
<1>6. ASSUME NEW t \in Timers, ArmTimer(t) \/ TimerStep(t) PROVE TimerEntrySound'
  BY <1>6, TimerEntries
<1>7. CASE UNCHANGED <<graceTimers, proc>>
  BY <1>7, SameEntries DEF Pending
<1> QED
  BY <1>1, <1>2, <1>3, <1>4, <1>5, <1>6, <1>7
  DEF Next, CreateRoom, BecomeStale, Drop, AlreadyArmed, StartPipeline, vars

\* An entry of graceTimers can always be stopped or is about to delete itself:
\* OnDisconnect is never held back by a timer that is over.
THEOREM TimerEntriesSound == Spec => []TimerEntrySound
BY TypeCorrect, InitEntries, NextEntries, PTL DEF Spec

(***************************************************************************)
(* Pipelines.                                                              *)
(***************************************************************************)
\* Between NewSession and the return of its JoinRoom.
Joining == {"save", "register", "touch", "full", "pair"}

\* A session is joined by one call, and starts its pipeline at the end of it.
JoinsOnce ==
  \A c \in Conns :
    proc[c].pc \in Joining =>
      /\ pipe[proc[c].sess] = "none"
      /\ \A d \in Conns \ {c} : proc[d].pc \in Joining => proc[d].sess # proc[c].sess

PipeInv == JoinsOnce /\ PipelineEntrySound

\* No connection goes on joining with another session, and none begins.
StaysJoining(c) ==
  proc'[c].pc \in Joining => proc[c].pc \in Joining /\ proc'[c].sess = proc[c].sess

LEMMA SamePipes ==
  ASSUME PipeInv, UNCHANGED <<owner, pipelines, pipe>>, \A c \in Conns : StaysJoining(c)
  PROVE  PipeInv'
BY DEF PipeInv, JoinsOnce, PipelineEntrySound, StaysJoining

LEMMA InitPipes == Init => PipeInv
BY DEF Init, PipeInv, JoinsOnce, PipelineEntrySound, Joining, Idle, Procs

\* The session of a join is one that was created.
LEMMA JoiningCreated ==
  ASSUME TypeOK, NEW c \in Conns, proc[c].pc \in Joining
  PROVE  proc[c].sess \in Created /\ proc[c].sess \in Sessions
BY DEF TypeOK, ProcTypes, ConnOK, Joining, Holding, Created

\* A connection goes to another label of its call, or returns.
LEMMA ConnPipes ==
  ASSUME TypeOK, PipeInv, UNCHANGED <<owner, pipelines, pipe>>, NEW c \in Conns,
         \A d \in Conns \ {c} : proc'[d] = proc[d], StaysJoining(c)
  PROVE  PipeInv'
BY SamePipes DEF StaysJoining

LEMMA JoinPipes ==
  ASSUME TypeOK, PipeInv, NEW c \in Conns, JoinStep(c)
  PROVE  PipeInv'
<1> USE DEF At, Joining
<1>0. c \in Procs /\ proc \in [Procs -> Locals] /\ proc[c] \in Locals
  BY DEF TypeOK, ProcTypes, Procs
<1>a. ASSUME NEW l, Move(c, l), UNCHANGED <<owner, pipelines, pipe>>,
             l.pc \in Joining => proc[c].pc \in Joining /\ l.sess = proc[c].sess
      PROVE  PipeInv'
  <2>1. proc'[c] = l /\ \A d \in Conns \ {c} : proc'[d] = proc[d]
    BY <1>0, <1>a DEF Move, Procs
  <2> QED
    BY <1>a, <2>1, ConnPipes DEF StaysJoining
<1>b. ASSUME NEW l \in Labels, Goto(c, l), UNCHANGED <<owner, pipelines, pipe>>,
             l \in Joining => proc[c].pc \in Joining
      PROVE  PipeInv'
  <2>1. [proc[c] EXCEPT !.pc = l].pc = l /\ [proc[c] EXCEPT !.pc = l].sess = proc[c].sess
    BY <1>0 DEF Locals
  <2> QED
    BY <1>a, <1>b, <2>1 DEF Goto
<1>c. ASSUME Return(c), UNCHANGED <<owner, pipelines, pipe>> PROVE PipeInv'
  BY <1>a, <1>c DEF Return, Idle
<1>1. ASSUME NEW r \in Rooms, NEW u \in Users, JoinFind(c, r, u) PROVE PipeInv'
  <2> DEFINE l == [proc[c] EXCEPT !.pc = "admit", !.room = r, !.user = u]
  <2>1. Move(c, l) /\ l.pc = "admit"
    BY <1>0, <1>1 DEF JoinFind, Locals
  <2> HIDE DEF l
  <2> QED
    BY <1>a, <1>1, <2>1 DEF JoinFind, sessionVars, pipeVars
<1>2. CASE JoinRefused(c)
  BY <1>c, <1>2 DEF JoinRefused, sessionVars, pipeVars
<1>3. CASE JoinAdmit(c)
  <2> DEFINE b == proc[c].user \in participants[proc[c].room]
             l == [proc[c] EXCEPT !.pc = "collect", !.rejoin = b]
  <2>1. Move(c, l)
    BY <1>3 DEF JoinAdmit
  <2> HIDE DEF b
  <2>2. l.pc = "collect"
    BY <1>0 DEF Locals
  <2> HIDE DEF l
  <2> QED
    BY <1>a, <1>3, <2>1, <2>2 DEF JoinAdmit, sessionVars, pipeVars
<1>4. CASE JoinCollect(c)
  <2> DEFINE b == sessions \cap SessionsOf(proc[c].room)
             l == [proc[c] EXCEPT !.pc = "cancel", !.batch = b]
  <2>1. Move(c, l)
    BY <1>4 DEF JoinCollect
  <2> HIDE DEF b
  <2>2. l.pc = "cancel"
    BY <1>0 DEF Locals
  <2> HIDE DEF l
  <2> QED
    BY <1>a, <1>4, <2>1, <2>2 DEF JoinCollect, sessionVars, pipeVars
<1>5. CASE JoinCancel(c)
  <2> DEFINE next == IF proc[c].rejoin THEN "resume" ELSE "create"
             l == [proc[c] EXCEPT !.pc = next, !.batch = {}]
  <2>1. proc'[c] = l /\ \A d \in Conns \ {c} : proc'[d] = proc[d]
    BY <1>5, ProcsAreDistinct DEF JoinCancel, Procs
  <2>2. next \in {"resume", "create"}
    OBVIOUS
  <2> HIDE DEF next
  <2>3. l.pc = next
    BY <1>0 DEF Locals
  <2> HIDE DEF l
  <2> QED
    BY <1>5, <2>1, <2>2, <2>3, ConnPipes DEF JoinCancel, StaysJoining, sessionVars, pipeVars
<1>6. CASE JoinResume(c)
  BY <1>b, <1>c, <1>6 DEF JoinResume, sessionVars, pipeVars, Labels, JoinLabels
<1>7. CASE JoinAgain(c)
  BY <1>b, <1>7 DEF JoinAgain, sessionVars, pipeVars, Labels, JoinLabels
<1>8. ASSUME NEW s \in Sessions, JoinCreate(c, s) PROVE PipeInv'
  <2> DEFINE l == [proc[c] EXCEPT !.pc = "save", !.sess = s]
  <2>1. Move(c, l) /\ l.pc = "save" /\ l.sess = s
    BY <1>0, <1>8 DEF JoinCreate, Locals
  <2> HIDE DEF l
  <2>2. proc'[c] = l /\ \A d \in Conns \ {c} : proc'[d] = proc[d]
    BY <1>0, <2>1 DEF Move, Procs
  <2>3. /\ s \notin Created /\ owner' = [owner EXCEPT ![s] = Key(c)]
        /\ UNCHANGED <<pipelines, pipe>>
    BY <1>8 DEF JoinCreate, Created, pipeVars
  <2>4. pipe[s] = "none"
    BY <2>3 DEF TypeOK, PipeTypes
  <2>5. \A d \in Conns : proc[d].pc \in Joining => proc[d].sess # s
    BY <2>3, JoiningCreated
  <2>6. JoinsOnce'
    BY <2>1, <2>2, <2>3, <2>4, <2>5 DEF PipeInv, JoinsOnce
  <2>7. \A q \in Sessions \ {s} : owner'[q] = owner[q]
    BY <2>3 DEF TypeOK, SessionTypes
  <2>8. \A r \in Rooms : pipelines[r] # s /\ pipelines[r] \in Sessions \cup {None}
    BY <1>8, <2>3, NoneIsNothing DEF TypeOK, PipeTypes, Created
  <2>9. PipelineEntrySound'
    BY <2>3, <2>7, <2>8 DEF PipeInv, PipelineEntrySound
  <2> QED
    BY <2>6, <2>9 DEF PipeInv
<1>9. CASE JoinCreateFails(c)
  BY <1>c, <1>9 DEF JoinCreateFails, sessionVars, pipeVars
<1>10. CASE JoinSave(c)
  BY <1>b, <1>10 DEF JoinSave, sessionVars, pipeVars, Labels, JoinLabels
<1>11. CASE JoinRegister(c)
  BY <1>b, <1>11 DEF JoinRegister, sessionVars, pipeVars, Labels, JoinLabels
<1>12. CASE JoinTouch(c)
  BY <1>b, <1>12 DEF JoinTouch, sessionVars, pipeVars, Labels, JoinLabels
<1>13. CASE JoinFull(c)
  BY <1>b, <1>c, <1>13
  DEF JoinFull, BindAndReturn, sessionVars, pipeVars, Labels, JoinLabels
<1>14. CASE JoinPair(c)
  <2> DEFINE s == proc[c].sess
             new == IF (sessions \cap SessionsOf(proc[c].room)) \ {s} = {} THEN pipe[s] ELSE "spawned"
  <2>1. /\ Return(c) /\ UNCHANGED <<owner, pipelines>> /\ proc[c].pc = "pair"
        /\ pipe' = [pipe EXCEPT ![s] = new]
    BY <1>14 DEF JoinPair, BindAndReturn, sessionVars
  <2>2. proc'[c].pc = "idle" /\ \A d \in Conns \ {c} : proc'[d] = proc[d]
    BY <1>0, <2>1, ReturnStep DEF Idle, Procs
  <2>3. pipe[s] = "none" /\ s \in Sessions
    BY <2>1, JoiningCreated DEF PipeInv, JoinsOnce
  <2> HIDE DEF new
  <2>4. \A q \in Sessions : q # s => pipe'[q] = pipe[q]
    BY <2>1 DEF TypeOK, PipeTypes
  <2>5. JoinsOnce'
    <3> SUFFICES ASSUME NEW d \in Conns, proc'[d].pc \in Joining
                 PROVE  /\ pipe'[proc'[d].sess] = "none"
                        /\ \A e \in Conns \ {d} :
                             proc'[e].pc \in Joining => proc'[e].sess # proc'[d].sess
      BY DEF JoinsOnce
    <3>1. d # c /\ proc'[d] = proc[d] /\ proc[d].sess # s /\ proc[d].sess \in Sessions
      BY <2>1, <2>2, JoiningCreated DEF PipeInv, JoinsOnce
    <3>2. pipe'[proc'[d].sess] = "none"
      BY <2>4, <3>1 DEF PipeInv, JoinsOnce
    <3>3. \A e \in Conns \ {d} : proc'[e].pc \in Joining => e # c /\ proc'[e] = proc[e]
      BY <2>2
    <3> QED
      BY <3>1, <3>2, <3>3 DEF PipeInv, JoinsOnce
  <2>6. \A r \in Rooms : pipelines[r] # None => pipelines[r] # s /\ pipelines[r] \in Sessions
    BY <2>3 DEF PipeInv, PipelineEntrySound, TypeOK, PipeTypes, Created
  <2>7. PipelineEntrySound'
    BY <2>1, <2>4, <2>6 DEF PipeInv, PipelineEntrySound
  <2> QED
    BY <2>5, <2>7 DEF PipeInv
<1> QED
  BY <1>1, <1>2, <1>3, <1>4, <1>5, <1>6, <1>7, <1>8, <1>9, <1>10, <1>11, <1>12, <1>13, <1>14
  DEF JoinStep

\* A pipeline that is cancelled leaves its entry, and it has no other.
LEMMA CancelPipes ==
  ASSUME TypeOK, PipeInv, NEW r \in Rooms, CancelPipeline(r), owner' = owner,
         \A c \in Conns : StaysJoining(c)
  PROVE  PipeInv'
<1>1. /\ pipe' = [s \in Sessions |-> IF pipelines[r] = s THEN "cancelled" ELSE pipe[s]]
      /\ pipelines' = [pipelines EXCEPT ![r] = None]
  BY DEF CancelPipeline
<1>2. JoinsOnce'
  <2> SUFFICES ASSUME NEW c \in Conns, proc'[c].pc \in Joining
               PROVE  /\ pipe'[proc'[c].sess] = "none"
                      /\ \A d \in Conns \ {c} :
                           proc'[d].pc \in Joining => proc'[d].sess # proc'[c].sess
    BY DEF JoinsOnce
  <2>1. proc[c].pc \in Joining /\ proc'[c].sess = proc[c].sess /\ proc[c].sess \in Sessions
    BY JoiningCreated DEF StaysJoining
  <2>2. pipe[proc[c].sess] = "none" /\ proc[c].sess # None
    BY <2>1, NoneIsNothing DEF PipeInv, JoinsOnce
  <2>3. pipelines[r] # proc[c].sess
    BY <2>2 DEF PipeInv, PipelineEntrySound
  <2>4. \A d \in Conns : proc'[d].pc \in Joining =>
          proc[d].pc \in Joining /\ proc'[d].sess = proc[d].sess
    BY DEF StaysJoining
  <2> QED
    BY <1>1, <2>1, <2>2, <2>3, <2>4 DEF PipeInv, JoinsOnce
<1>3. PipelineEntrySound'
  <2> SUFFICES ASSUME NEW q \in Rooms, pipelines'[q] # None
               PROVE  /\ pipe'[pipelines'[q]] = "running" /\ owner[pipelines'[q]] # None
                      /\ owner[pipelines'[q]][1] = q
    BY DEF PipelineEntrySound
  <2>1. q # r /\ pipelines'[q] = pipelines[q] /\ pipelines[q] \in Sessions
    BY <1>1 DEF TypeOK, PipeTypes, Created
  <2>2. /\ pipe[pipelines[q]] = "running" /\ owner[pipelines[q]] # None
        /\ owner[pipelines[q]][1] = q
    BY <2>1 DEF PipeInv, PipelineEntrySound
  <2>3. pipelines[r] # pipelines[q]
    BY <2>1, <2>2 DEF PipeInv, PipelineEntrySound
  <2> QED
    BY <1>1, <2>1, <2>2, <2>3
<1> QED
  BY <1>2, <1>3 DEF PipeInv

LEMMA StartPipes ==
  ASSUME TypeOK, PipeInv, NEW s \in Sessions, StartPipeline(s)
  PROVE  PipeInv'
<1>1. /\ pipe[s] = "spawned" /\ pipe' = [pipe EXCEPT ![s] = "running"]
      /\ pipelines' = [pipelines EXCEPT ![owner[s][1]] = s]
      /\ UNCHANGED <<owner, proc>>
  BY DEF StartPipeline, sessionVars
<1>2. s \in Created /\ owner[s] # None /\ owner[s][1] \in Rooms
  BY <1>1 DEF TypeOK, PipeTypes, SessionTypes, Created
<1>3. pipe'[s] = "running" /\ \A q \in Sessions \ {s} : pipe'[q] = pipe[q]
  BY <1>1 DEF TypeOK, PipeTypes
<1>4. JoinsOnce'
  BY <1>1, <1>3, JoiningCreated DEF PipeInv, JoinsOnce
<1>5. PipelineEntrySound'
  <2> SUFFICES ASSUME NEW q \in Rooms, pipelines'[q] # None
               PROVE  /\ pipe'[pipelines'[q]] = "running" /\ owner[pipelines'[q]] # None
                      /\ owner[pipelines'[q]][1] = q
    BY <1>1 DEF PipelineEntrySound
  <2>1. CASE q = owner[s][1]
    BY <1>1, <1>2, <1>3, <2>1 DEF TypeOK, PipeTypes
  <2>2. CASE q # owner[s][1]
    <3>1. pipelines'[q] = pipelines[q] /\ pipelines[q] \in Sessions
      BY <1>1, <2>2 DEF TypeOK, PipeTypes, Created
    <3> QED
      BY <1>3, <3>1 DEF PipeInv, PipelineEntrySound
  <2> QED
    BY <2>1, <2>2
<1> QED
  BY <1>4, <1>5 DEF PipeInv

LEMMA NextPipes == TypeOK /\ PipeInv /\ [Next]_vars => PipeInv'
<1> SUFFICES ASSUME TypeOK, PipeInv, [Next]_vars PROVE PipeInv'
  OBVIOUS
<1>1. ASSUME NEW c \in Conns, JoinStep(c) PROVE PipeInv'
  BY <1>1, JoinPipes
<1>2. ASSUME NEW c \in Conns, LeaveStep(c) PROVE PipeInv'
  <2>1. /\ owner' = owner /\ proc[c].pc \in {"idle"} \cup LeaveLabels
        /\ \E l : Move(c, l) /\ l.pc \in {"idle"} \cup LeaveLabels
    <3>1. \A l \in LeaveLabels : [proc[c] EXCEPT !.pc = l].pc = l
      BY DEF TypeOK, ProcTypes, Procs, Locals
    <3>2. CASE LeaveCall(c)
      <4> DEFINE k == owner[bound[c]]
                 l == [proc[c] EXCEPT !.pc = "find", !.room = k[1], !.user = k[2]]
      <4>1. UNCHANGED owner /\ Move(c, l) /\ proc[c].pc = "idle"
        BY <3>2 DEF LeaveCall, At, sessionVars
      <4> HIDE DEF k
      <4>2. l.pc = "find"
        BY DEF TypeOK, ProcTypes, Locals, Procs
      <4> HIDE DEF l
      <4> QED
        BY <4>1, <4>2 DEF LeaveLabels
    <3>3. CASE LeaveFind(c)
      <4>1. CASE Return(c)
        BY <3>3, <4>1 DEF LeaveFind, At, Return, Idle, LeaveLabels, sessionVars
      <4>2. CASE Move(c, [proc[c] EXCEPT !.pc = "close", !.sess = lookup[Key(c)]])
        <5> DEFINE s == lookup[Key(c)]
                   l == [proc[c] EXCEPT !.pc = "close", !.sess = s]
        <5> HIDE DEF s
        <5>1. l.pc = "close"
          BY DEF TypeOK, ProcTypes, Locals, Procs
        <5>2. Move(c, l)
          BY <4>2 DEF s
        <5> HIDE DEF l
        <5> QED
          BY <3>3, <5>1, <5>2 DEF LeaveFind, At, LeaveLabels, sessionVars
      <4> QED
        BY <3>3, <4>1, <4>2 DEF LeaveFind
    <3>4. ASSUME NEW l \in LeaveLabels, Goto(c, l)
          PROVE  \E m : Move(c, m) /\ m.pc \in {"idle"} \cup LeaveLabels
      BY <3>1, <3>4 DEF Goto
    <3>5. ASSUME Return(c) PROVE \E m : Move(c, m) /\ m.pc \in {"idle"} \cup LeaveLabels
      BY <3>5 DEF Return, Idle
    <3>6. CASE LeaveClose(c)
      BY <3>4, <3>6 DEF LeaveClose, At, LeaveLabels
    <3>7. CASE LeaveFetch(c)
      BY <3>4, <3>5, <3>7 DEF LeaveFetch, At, LeaveLabels, sessionVars
    <3>8. CASE LeaveLeave(c)
      BY <3>4, <3>8 DEF LeaveLeave, At, LeaveLabels, sessionVars
    <3>9. CASE LeaveStore(c)
      BY <3>4, <3>9 DEF LeaveStore, At, LeaveLabels, sessionVars
    <3>10. CASE LeaveUnregister(c)
      BY <3>5, <3>10 DEF LeaveUnregister, At, LeaveLabels
    <3> QED
      BY <1>2, <3>2, <3>3, <3>6, <3>7, <3>8, <3>9, <3>10 DEF LeaveStep
  <2>2. \A d \in Conns : StaysJoining(d)
    BY <2>1 DEF StaysJoining, Joining, LeaveLabels, Move, TypeOK, ProcTypes, Procs
  <2>3. CASE LeaveUnregister(c)
    <3>1. proc[c].room \in Rooms
      BY <2>3, InCall DEF LeaveUnregister, At
    <3> QED
      BY <2>1, <2>2, <2>3, <3>1, CancelPipes DEF LeaveUnregister
  <2>4. CASE UNCHANGED <<pipelines, pipe>>
    BY <2>1, <2>2, <2>4, SamePipes
  <2> QED
    BY <1>2, <2>3, <2>4
    DEF LeaveStep, LeaveCall, LeaveFind, LeaveClose, LeaveFetch, LeaveLeave, LeaveStore, pipeVars
<1>3. ASSUME NEW p \in Admins \cup Timers, \E l : Move(p, l) PROVE \A c \in Conns : StaysJoining(c)
  BY <1>3, ProcsAreDistinct DEF StaysJoining, Move, TypeOK, ProcTypes, Procs
<1>4. ASSUME NEW p \in Admins \cup Timers, DeleteStep(p) PROVE PipeInv'
  <2>1. \A c \in Conns : StaysJoining(c)
    BY <1>3, <1>4
    DEF DeleteStep, DeleteFind, DeleteShut, DeleteCleanup, DeleteRemove, AfterDelete, Goto, Return
  <2>2. CASE DeleteCleanup(p)
    <3>1. proc[p].room \in Rooms
      BY <2>2, RoomOfDelete DEF DeleteCleanup, At, TypeOK
    <3> QED
      BY <2>1, <2>2, <3>1, CancelPipes DEF DeleteCleanup
  <2> QED
    BY <1>4, <2>1, <2>2, SamePipes
    DEF DeleteStep, DeleteFind, DeleteShut, DeleteRemove, sessionVars, pipeVars
<1>5. ASSUME NEW a \in Admins, AdminCall(a) PROVE PipeInv'
  BY <1>3, <1>5, SamePipes DEF AdminCall, DeleteCall, SweepList, SweepNext, sessionVars, pipeVars
<1>6. ASSUME NEW t \in Timers, ArmTimer(t) \/ TimerStep(t) PROVE PipeInv'
  BY <1>3, <1>6, SamePipes
  DEF ArmTimer, TimerStep, Fire, GraceExpired, Notify, Goto, Return, sessionVars, pipeVars
<1>7. ASSUME NEW s \in Sessions, StartPipeline(s) PROVE PipeInv'
  BY <1>7, StartPipes
<1>8. CASE UNCHANGED <<owner, pipelines, pipe, proc>>
  BY <1>8, SamePipes DEF StaysJoining
<1> QED
  BY <1>1, <1>2, <1>4, <1>5, <1>6, <1>7, <1>8
  DEF Next, CreateRoom, BecomeStale, Drop, AlreadyArmed, vars, sessionVars, pipeVars

\* LeaveRoom and DeleteRoom cancel the pipeline of their own room, while it
\* runs, and never leave one registered that they have cancelled.
THEOREM PipelineEntriesSound == Spec => []PipelineEntrySound
<1>1. PipeInv => PipelineEntrySound
  BY DEF PipeInv
<1> QED
  BY <1>1, TypeCorrect, InitPipes, NextPipes, PTL DEF Spec

(***************************************************************************)
(* Places and sessions.                                                    *)
(*                                                                         *)
(* Whether CreateSession fails or not, a step keeps a place backed: the    *)
(* session behind it is not one that a LeaveRoom past Room.Leave is about  *)
(* to forget, and one that a JoinRoom registers is in nobody else's hands. *)
(***************************************************************************)
OpenApart ==
  \A c \in Conns :
    proc[c].pc \in Opening =>
      /\ proc[c].sess \notin sessions
      /\ \A d \in Conns \ {c} : proc[d].pc \in Holding => proc[d].sess # proc[c].sess

\* A place that is newly taken is backed, one that was backed still is.
PlacesKept ==
  \A r \in Rooms : \A u \in participants'[r] :
    (u \in participants[r] => Backed(r, u)) => Backed(r, u)'

PlaceStep == OpenApart' /\ PlacesKept

Calm(c) ==
  /\ Backs(c) => Backs(c)' /\ Key(c)' = Key(c)
  /\ Ends(c)' => Ends(c)
  /\ proc'[c].pc \in Holding => proc[c].pc \in Holding /\ proc'[c].sess = proc[c].sess
  /\ proc'[c].pc \in Opening => proc[c].pc \in Opening

LEMMA CalmStep ==
  ASSUME TypeOK, OpenApart, UNCHANGED <<sessions, owner>>,
         \A r \in Rooms : participants'[r] \subseteq participants[r],
         \A c \in Conns : Calm(c)
  PROVE  PlaceStep
<1>1. OpenApart'
  BY DEF OpenApart, Calm, Holding, Opening
<1>2. \A c \in Conns : Ends(c)' => Ends(c) /\ proc'[c].sess = proc[c].sess
  BY DEF Calm, Ends, Holding
<1>3. PlacesKept
  BY <1>2 DEF PlacesKept, Backed, Calm
<1> QED
  BY <1>1, <1>3 DEF PlaceStep

LEMMA StillCalm ==
  ASSUME NEW c \in Conns, proc'[c] = proc[c]
  PROVE  Calm(c)
BY DEF Calm, Backs, Ends, Key

LEMMA OneCalm ==
  ASSUME TypeOK, OpenApart, UNCHANGED <<sessions, owner, participants>>,
         NEW c \in Conns, Calm(c), \A d \in Conns \ {c} : proc'[d] = proc[d]
  PROVE  PlaceStep
<1>1. \A d \in Conns : Calm(d)
  BY StillCalm
<1> QED
  BY <1>1, CalmStep

\* A connection that is not on its way to a session goes on, or returns.
LEMMA MoveCalm ==
  ASSUME TypeOK, OpenApart, UNCHANGED <<sessions, owner, participants>>,
         NEW c \in Conns, NEW l, Move(c, l), ~ Backs(c), l.pc \notin Holding
  PROVE  PlaceStep
<1>1. proc'[c] = l /\ \A d \in Conns \ {c} : proc'[d] = proc[d]
  BY DEF Move, TypeOK, ProcTypes, Procs
<1>2. Calm(c)
  BY <1>1 DEF Calm, Ends, Holding, Opening
<1> QED
  BY <1>1, <1>2, OneCalm

LEMMA ReturnCalm ==
  ASSUME TypeOK, OpenApart, UNCHANGED <<sessions, owner, participants>>,
         NEW c \in Conns, Return(c), ~ Backs(c)
  PROVE  PlaceStep
BY MoveCalm DEF Return, Idle, Holding

LEMMA GotoCalm ==
  ASSUME TypeOK, OpenApart, UNCHANGED <<sessions, owner, participants>>,
         NEW c \in Conns, NEW l \in JoinLabels \cup LeaveLabels, Goto(c, l),
         proc[c].pc \notin {"collect", "cancel"},
         proc[c].pc \in {"create", "save", "register"} => l \in {"create", "save", "register"},
         l \in {"store", "unregister"} => Ends(c),
         l \in Holding => proc[c].pc \in Holding,
         l \in Opening => proc[c].pc \in Opening
  PROVE  PlaceStep
<1>1. c \in Procs /\ l \in Labels /\ proc \in [Procs -> Locals]
  BY DEF TypeOK, ProcTypes, Procs, Labels
<1>2. /\ proc'[c].pc = l /\ proc'[c].sess = proc[c].sess /\ Key(c)' = Key(c)
      /\ \A d \in Conns \ {c} : proc'[d] = proc[d]
  BY <1>1, GotoStep DEF Key, Procs
<1>3. Calm(c)
  BY <1>2 DEF Calm, Backs, Ends
<1> QED
  BY <1>2, <1>3, OneCalm

LEMMA InitApart == Init => OpenApart
BY DEF Init, OpenApart, Opening, Idle, Procs

LEMMA JoinPlaceStep ==
  ASSUME TypeOK, SessionInv, OpenApart, NEW c \in Conns, JoinStep(c), ~JoinCreateFails(c)
  PROVE  PlaceStep
<1> USE DEF At, JoinLabels, LeaveLabels
<1>0. c \in Procs /\ proc \in [Procs -> Locals] /\ proc[c] \in Locals
  BY DEF TypeOK, ProcTypes, Procs
<1>1. ASSUME NEW r \in Rooms, NEW u \in Users, JoinFind(c, r, u) PROVE PlaceStep
  <2> DEFINE l == [proc[c] EXCEPT !.pc = "admit", !.room = r, !.user = u]
  <2>1. l.pc = "admit"
    BY <1>0 DEF Locals
  <2>2. Move(c, l) /\ proc[c].pc = "idle" /\ UNCHANGED <<sessions, owner, participants>>
    BY <1>1 DEF JoinFind, sessionVars, roomVars
  <2> HIDE DEF l
  <2> QED
    BY <2>1, <2>2, MoveCalm DEF Backs, Holding
<1>2. CASE JoinRefused(c)
  BY <1>2, ReturnCalm DEF JoinRefused, Backs, sessionVars, roomVars
<1>3. CASE JoinAdmit(c)
  <2> DEFINE r == proc[c].room
             u == proc[c].user
             b == u \in participants[r]
             l == [proc[c] EXCEPT !.pc = "collect", !.rejoin = b]
  <2>1. /\ Move(c, l) /\ proc[c].pc = "admit" /\ UNCHANGED <<sessions, owner>>
        /\ participants' = [participants EXCEPT ![r] = @ \cup {u}]
    BY <1>3 DEF JoinAdmit, sessionVars
  <2>2. b \in BOOLEAN
    OBVIOUS
  <2> HIDE DEF b
  <2>3. l.pc = "collect" /\ l.rejoin = b /\ l.room = r /\ l.user = u
    BY <1>0 DEF Locals
  <2> HIDE DEF l
  <2>4. proc'[c] = l /\ \A d \in Conns \ {c} : proc'[d] = proc[d]
    BY <1>0, <2>1 DEF Move, Procs
  <2>5. Calm(c) /\ Key(c)' = <<r, u>> /\ (~b => Backs(c)')
    BY <2>1, <2>3, <2>4 DEF Calm, Backs, Ends, Key, Holding, Opening
  <2>6. \A d \in Conns : Calm(d)
    BY <2>4, <2>5, StillCalm
  <2>7. OpenApart'
    BY <2>1, <2>6 DEF OpenApart, Calm, Holding, Opening
  <2>8. PlacesKept
    <3>1. \A q \in Rooms : \A v \in participants'[q] :
            v \in participants[q] \/ (q = r /\ v = u /\ ~b)
      BY <2>1 DEF TypeOK, RoomTypes, b
    <3>2. \A d \in Conns : Ends(d)' => Ends(d) /\ proc'[d].sess = proc[d].sess
      BY <2>6 DEF Calm, Ends, Holding
    <3> SUFFICES ASSUME NEW q \in Rooms, NEW v \in participants'[q],
                        v \in participants[q] => Backed(q, v)
                 PROVE  Backed(q, v)'
      BY DEF PlacesKept
    <3>3. CASE v \in participants[q]
      BY <2>1, <2>6, <3>2, <3>3 DEF Backed, Calm
    <3>4. CASE q = r /\ v = u /\ ~b
      BY <2>5, <3>4 DEF Backed
    <3> QED
      BY <3>1, <3>3, <3>4
  <2> QED
    BY <2>7, <2>8 DEF PlaceStep
<1>4. CASE JoinCollect(c)
  <2> DEFINE b == sessions \cap SessionsOf(proc[c].room)
             l == [proc[c] EXCEPT !.pc = "cancel", !.batch = b]
  <2>1. Move(c, l) /\ proc[c].pc = "collect" /\ UNCHANGED <<sessions, owner, participants>>
    BY <1>4 DEF JoinCollect, sessionVars, roomVars
  <2> HIDE DEF b
  <2>2. /\ l.pc = "cancel" /\ l.rejoin = proc[c].rejoin /\ l.room = proc[c].room
        /\ l.user = proc[c].user
    BY <1>0 DEF Locals
  <2> HIDE DEF l
  <2>3. proc'[c] = l /\ \A d \in Conns \ {c} : proc'[d] = proc[d]
    BY <1>0, <2>1 DEF Move, Procs
  <2>4. Calm(c)
    BY <2>1, <2>2, <2>3 DEF Calm, Backs, Ends, Key, Holding, Opening
  <2> QED
    BY <2>1, <2>3, <2>4, OneCalm
<1>5. CASE JoinCancel(c)
  <2> DEFINE next == IF proc[c].rejoin THEN "resume" ELSE "create"
             l == [proc[c] EXCEPT !.pc = next, !.batch = {}]
  <2>1. /\ proc'[c] = l /\ \A d \in Conns \ {c} : proc'[d] = proc[d]
        /\ proc[c].pc = "cancel" /\ UNCHANGED <<sessions, owner, participants>>
    BY <1>5, ProcsAreDistinct DEF JoinCancel, Procs, sessionVars, roomVars
  <2>2. next \in {"resume", "create"} /\ (~proc[c].rejoin => next = "create")
    OBVIOUS
  <2> HIDE DEF next
  <2>3. l.pc = next /\ l.room = proc[c].room /\ l.user = proc[c].user
    BY <1>0 DEF Locals
  <2> HIDE DEF l
  <2>4. Calm(c)
    BY <2>1, <2>2, <2>3 DEF Calm, Backs, Ends, Key, Holding, Opening
  <2> QED
    BY <2>1, <2>4, OneCalm
<1>6. CASE JoinResume(c)
  <2>1. CASE Return(c)
    BY <1>6, <2>1, ReturnCalm DEF JoinResume, Backs, sessionVars, roomVars
  <2>2. CASE Goto(c, "again")
    BY <1>6, <2>2, GotoCalm DEF JoinResume, Holding, Opening, sessionVars, roomVars
  <2> QED
    BY <1>6, <2>1, <2>2 DEF JoinResume
<1>7. CASE JoinAgain(c)
  <2> DEFINE r == proc[c].room
             u == proc[c].user
  <2>1. /\ Goto(c, "create") /\ proc[c].pc = "again" /\ UNCHANGED <<sessions, owner>>
        /\ \A q \in Rooms : participants'[q] \subseteq participants[q] \cup (IF q = r THEN {u} ELSE {})
    BY <1>7 DEF JoinAgain, sessionVars, TypeOK, RoomTypes
  <2>2. /\ proc'[c].pc = "create" /\ Key(c)' = <<r, u>>
        /\ \A d \in Conns \ {c} : proc'[d] = proc[d]
    BY <1>0, <2>1, GotoStep DEF Key, Procs, Labels
  <2>3. Calm(c) /\ Backs(c)'
    BY <2>1, <2>2 DEF Calm, Backs, Ends, Holding, Opening
  <2>4. \A d \in Conns : Calm(d)
    BY <2>2, <2>3, StillCalm
  <2>5. OpenApart'
    BY <2>1, <2>4 DEF OpenApart, Calm, Holding, Opening
  <2>6. \A d \in Conns : Ends(d)' => Ends(d) /\ proc'[d].sess = proc[d].sess
    BY <2>4 DEF Calm, Ends, Holding
  <2>7. PlacesKept
    <3> SUFFICES ASSUME NEW q \in Rooms, NEW v \in participants'[q],
                        v \in participants[q] => Backed(q, v)
                 PROVE  Backed(q, v)'
      BY DEF PlacesKept
    <3>1. CASE v \in participants[q]
      BY <2>1, <2>4, <2>6, <3>1 DEF Backed, Calm
    <3>2. CASE q = r /\ v = u
      BY <2>2, <2>3, <3>2 DEF Backed
    <3> QED
      BY <2>1, <3>1, <3>2
  <2> QED
    BY <2>5, <2>7 DEF PlaceStep
<1>8. ASSUME NEW s \in Sessions, JoinCreate(c, s) PROVE PlaceStep
  <2> DEFINE l == [proc[c] EXCEPT !.pc = "save", !.sess = s]
  <2>1. /\ Move(c, l) /\ proc[c].pc = "create" /\ UNCHANGED <<sessions, participants>>
        /\ s \notin Created /\ owner' = [owner EXCEPT ![s] = Key(c)]
    BY <1>8 DEF JoinCreate, Created, roomVars
  <2>2. l.pc = "save" /\ l.sess = s /\ l.room = proc[c].room /\ l.user = proc[c].user
    BY <1>0 DEF Locals
  <2> HIDE DEF l
  <2>3. /\ proc'[c] = l /\ Key(c)' = Key(c)
        /\ \A d \in Conns \ {c} : proc'[d] = proc[d]
    BY <1>0, <2>1, <2>2 DEF Move, Procs, Key
  <2>4. s \notin sessions /\ \A d \in Conns : proc[d].pc \in Holding => proc[d].sess # s
    BY <2>1 DEF TypeOK, SessionTypes, ProcTypes, ConnOK
  <2>5. OpenApart'
    BY <2>1, <2>2, <2>3, <2>4 DEF OpenApart, Opening, Holding
  <2>6. \A q \in sessions : owner'[q] = owner[q]
    BY <2>1, <2>4 DEF TypeOK, SessionTypes, Created
  <2>7. \A d \in Conns : /\ Ends(d)' => Ends(d) /\ proc'[d].sess = proc[d].sess
                         /\ Backs(d) => Backs(d)' /\ Key(d)' = Key(d)
    BY <2>1, <2>2, <2>3 DEF Ends, Backs, Key
  <2>8. PlacesKept
    BY <2>1, <2>6, <2>7 DEF PlacesKept, Backed
  <2> QED
    BY <2>5, <2>8 DEF PlaceStep
<1>9. CASE JoinSave(c)
  BY <1>9, GotoCalm DEF JoinSave, Holding, Opening, sessionVars
<1>10. CASE JoinRegister(c)
  <2> DEFINE s == proc[c].sess
  <2>1. /\ Goto(c, "touch") /\ proc[c].pc = "register" /\ UNCHANGED <<owner, participants>>
        /\ sessions' = sessions \cup {s}
    BY <1>10 DEF JoinRegister, roomVars
  <2>2. /\ proc'[c].pc = "touch" /\ proc'[c].sess = s
        /\ \A d \in Conns \ {c} : proc'[d] = proc[d]
    BY <1>0, <2>1, GotoStep DEF Procs, Labels
  <2>3. owner[s] = Key(c)
    BY <2>1 DEF SessionInv, HeldSound, Holding
  <2>4. \A d \in Conns \ {c} : proc[d].pc \in Holding => proc[d].sess # s
    BY <2>1 DEF OpenApart, Opening
  <2>5. OpenApart'
    BY <2>1, <2>2, <2>4 DEF OpenApart, Opening, Holding
  <2>6. \A d \in Conns : Ends(d)' => Ends(d) /\ proc'[d].sess = proc[d].sess /\ proc[d].sess # s
    BY <2>1, <2>2, <2>4 DEF Ends, Holding
  <2>7. \A d \in Conns \ {c} : Backs(d) => Backs(d)' /\ Key(d)' = Key(d)
    BY <2>2 DEF Backs, Key
  <2> HIDE DEF s
  <2>8. PlacesKept
    <3> SUFFICES ASSUME NEW q \in Rooms, NEW v \in participants[q], Backed(q, v)
                 PROVE  Backed(q, v)'
      BY <2>1 DEF PlacesKept
    <3>1. CASE Key(c) = <<q, v>>
      BY <2>1, <2>3, <2>6, <3>1 DEF Backed
    <3>2. CASE Key(c) # <<q, v>>
      BY <2>1, <2>6, <2>7, <3>2 DEF Backed
    <3> QED
      BY <3>1, <3>2
  <2> QED
    BY <2>5, <2>8 DEF PlaceStep
<1>11. CASE JoinTouch(c)
  BY <1>11, GotoCalm DEF JoinTouch, Holding, Opening, sessionVars
<1>12. CASE JoinFull(c)
  <2>1. CASE Return(c)
    BY <1>12, <2>1, ReturnCalm DEF JoinFull, Backs, sessionVars, roomVars
  <2>2. CASE Goto(c, "pair")
    BY <1>12, <2>2, GotoCalm DEF JoinFull, Holding, Opening, sessionVars, roomVars
  <2> QED
    BY <1>12, <2>1, <2>2 DEF JoinFull, BindAndReturn
<1>13. CASE JoinPair(c)
  BY <1>13, ReturnCalm DEF JoinPair, BindAndReturn, Backs, sessionVars, roomVars
<1> QED
  BY <1>1, <1>2, <1>3, <1>4, <1>5, <1>6, <1>7, <1>8, <1>9, <1>10, <1>11, <1>12, <1>13
  DEF JoinStep

LEMMA LeavePlaceStep ==
  ASSUME TypeOK, SessionInv, OpenApart, NEW c \in Conns, LeaveStep(c)
  PROVE  PlaceStep
<1> USE DEF At, JoinLabels, LeaveLabels
<1>0. c \in Procs /\ proc \in [Procs -> Locals] /\ proc[c] \in Locals
  BY DEF TypeOK, ProcTypes, Procs
<1>1. CASE LeaveCall(c)
  <2> DEFINE k == owner[bound[c]]
             l == [proc[c] EXCEPT !.pc = "find", !.room = k[1], !.user = k[2]]
  <2>1. Move(c, l) /\ proc[c].pc = "idle" /\ UNCHANGED <<sessions, owner, participants>>
    BY <1>1 DEF LeaveCall, sessionVars, roomVars
  <2> HIDE DEF k
  <2>2. l.pc = "find"
    BY <1>0 DEF Locals
  <2> HIDE DEF l
  <2> QED
    BY <2>1, <2>2, MoveCalm DEF Backs, Holding
<1>2. CASE LeaveFind(c)
  <2>1. CASE Return(c)
    BY <1>2, <2>1, ReturnCalm DEF LeaveFind, Backs, sessionVars, roomVars
  <2>2. CASE lookup[Key(c)] # None /\ Move(c, [proc[c] EXCEPT !.pc = "close", !.sess = lookup[Key(c)]])
    <3> DEFINE s == lookup[Key(c)]
               l == [proc[c] EXCEPT !.pc = "close", !.sess = s]
    <3>1. Move(c, l) /\ proc[c].pc = "find" /\ UNCHANGED <<sessions, owner, participants>>
      BY <1>2, <2>2 DEF LeaveFind, sessionVars, roomVars
    <3>2. s \in sessions
      <4>1. Key(c) = <<proc[c].room, proc[c].user>> /\ proc[c].room \in Rooms /\ proc[c].user \in Users
        BY <3>1, InCall
      <4> QED
        BY <2>2, <4>1 DEF SessionInv, LookupSound
    <3> HIDE DEF s
    <3>3. l.pc = "close" /\ l.sess = s
      BY <1>0 DEF Locals
    <3> HIDE DEF l
    <3>4. proc'[c] = l /\ \A d \in Conns \ {c} : proc'[d] = proc[d]
      BY <1>0, <3>1 DEF Move, Procs
    <3>5. OpenApart'
      BY <3>1, <3>2, <3>3, <3>4 DEF OpenApart, Opening
    <3>6. \A d \in Conns : /\ Ends(d)' => Ends(d) /\ proc'[d].sess = proc[d].sess
                           /\ Backs(d) => Backs(d)' /\ Key(d)' = Key(d)
      BY <3>1, <3>3, <3>4 DEF Ends, Backs, Key
    <3>7. PlacesKept
      BY <3>1, <3>6 DEF PlacesKept, Backed
    <3> QED
      BY <3>5, <3>7 DEF PlaceStep
  <2> QED
    BY <1>2, <2>1, <2>2 DEF LeaveFind
<1>3. CASE LeaveClose(c)
  BY <1>3, GotoCalm DEF LeaveClose, Holding, Opening, roomVars
<1>4. CASE LeaveFetch(c)
  <2>1. CASE Return(c)
    BY <1>4, <2>1, ReturnCalm DEF LeaveFetch, Backs, sessionVars, roomVars
  <2>2. CASE Goto(c, "leave")
    BY <1>4, <2>2, GotoCalm DEF LeaveFetch, Holding, Opening, sessionVars, roomVars
  <2> QED
    BY <1>4, <2>1, <2>2 DEF LeaveFetch
<1>5. CASE LeaveLeave(c)
  <2> DEFINE r == proc[c].room
             u == proc[c].user
             s == proc[c].sess
  <2>1. /\ Goto(c, "store") /\ proc[c].pc = "leave" /\ UNCHANGED <<sessions, owner>>
        /\ participants' = [participants EXCEPT ![r] = @ \ {u}]
    BY <1>5 DEF LeaveLeave, sessionVars
  <2>2. /\ proc'[c].pc = "store" /\ proc'[c].sess = s
        /\ \A d \in Conns \ {c} : proc'[d] = proc[d]
    BY <1>0, <2>1, GotoStep DEF Procs, Labels
  <2>3. owner[s] = <<r, u>>
    BY <2>1 DEF SessionInv, HeldSound, Holding, Key
  <2>4. OpenApart'
    BY <2>1, <2>2 DEF OpenApart, Opening, Holding
  <2>5. \A d \in Conns : /\ Ends(d)' => d = c \/ (Ends(d) /\ proc'[d].sess = proc[d].sess)
                         /\ Backs(d) => Backs(d)' /\ Key(d)' = Key(d)
    BY <2>1, <2>2 DEF Ends, Backs, Key
  <2>6. \A q \in Rooms : \A v \in participants'[q] : v \in participants[q] /\ <<q, v>> # <<r, u>>
    BY <2>1 DEF TypeOK, RoomTypes
  <2> HIDE DEF r, u, s
  <2>7. PlacesKept
    BY <2>1, <2>2, <2>3, <2>5, <2>6 DEF PlacesKept, Backed
  <2> QED
    BY <2>4, <2>7 DEF PlaceStep
<1>6. CASE LeaveStore(c)
  BY <1>6, GotoCalm DEF LeaveStore, Ends, Holding, Opening, sessionVars
<1>7. CASE LeaveUnregister(c)
  <2> DEFINE s == proc[c].sess
  <2>1. /\ Return(c) /\ proc[c].pc = "unregister" /\ UNCHANGED <<owner, participants>>
        /\ sessions' = sessions \ {s}
    BY <1>7 DEF LeaveUnregister, roomVars
  <2>2. proc'[c].pc = "idle" /\ \A d \in Conns \ {c} : proc'[d] = proc[d]
    BY <1>0, <2>1, ReturnStep DEF Idle, Procs
  <2>3. OpenApart'
    BY <2>1, <2>2 DEF OpenApart, Opening, Holding
  <2>4. \A d \in Conns : /\ Ends(d)' => Ends(d) /\ proc'[d].sess = proc[d].sess
                         /\ Backs(d) => Backs(d)' /\ Key(d)' = Key(d)
    BY <2>1, <2>2 DEF Ends, Backs, Key
  <2>5. Ends(c)
    BY <2>1 DEF Ends
  <2>6. PlacesKept
    BY <2>1, <2>4, <2>5 DEF PlacesKept, Backed
  <2> QED
    BY <2>3, <2>6 DEF PlaceStep
<1> QED
  BY <1>1, <1>2, <1>3, <1>4, <1>5, <1>6, <1>7 DEF LeaveStep

LEMMA DeletePlaceStep ==
  ASSUME TypeOK, SessionInv, ShutIsClosed, PlacesBounded, OpenApart,
         NEW p \in Admins \cup Timers, DeleteStep(p)
  PROVE  PlaceStep
<1>1. \A c \in Conns : proc'[c] = proc[c]
  BY ProcsAreDistinct
  DEF DeleteStep, DeleteFind, DeleteShut, DeleteCleanup, DeleteRemove, AfterDelete, Goto,
      Return, Move, TypeOK, ProcTypes, Procs
<1>2. \A c \in Conns : Calm(c)
  BY <1>1, StillCalm
<1>3. CASE DeleteCleanup(p)
  <2> DEFINE r == proc[p].room
             gone == {s \in sessions : \E u \in Users : lookup[<<r, u>>] = s}
  <2>1. /\ sessions' = sessions \ gone /\ UNCHANGED <<owner, participants>>
        /\ proc[p].pc = "cleanup"
    BY <1>3 DEF DeleteCleanup, At, roomVars
  <2>2. r \in Rooms /\ participants[r] = {}
    <3>1. r \in Rooms /\ status[r] = "closed"
      BY <2>1, RoomOfDelete DEF ShutIsClosed, TypeOK
    <3> QED
      BY <3>1 DEF PlacesBounded, RoomDiscipline
  <2>3. \A s \in gone : owner[s][1] = r
    <3> SUFFICES ASSUME NEW u \in Users, lookup[<<r, u>>] \in sessions
                 PROVE  owner[lookup[<<r, u>>]][1] = r
      OBVIOUS
    <3>1. lookup[<<r, u>>] # None
      BY NoneIsNothing DEF TypeOK, SessionTypes, Created
    <3> QED
      BY <2>2, <3>1 DEF SessionInv, LookupSound
  <2> HIDE DEF r, gone
  <2>4. OpenApart'
    BY <1>1, <2>1 DEF OpenApart
  <2>5. \A q \in Rooms : \A v \in participants[q] : q # r
    BY <2>2
  <2>6. \A c \in Conns : (Ends(c)' <=> Ends(c)) /\ (Backs(c)' <=> Backs(c)) /\ Key(c)' = Key(c)
    BY <1>1 DEF Ends, Backs, Key
  <2>7. \A q \in Rooms, v \in Users, s \in sessions : owner[s] = <<q, v>> /\ q # r => s \notin gone
    BY <2>3
  <2>8. \A q \in Rooms : participants[q] \subseteq Users
    BY DEF TypeOK, RoomTypes
  <2>9. PlacesKept
    BY <1>1, <2>1, <2>5, <2>6, <2>7, <2>8 DEF PlacesKept, Backed
  <2> QED
    BY <2>4, <2>9 DEF PlaceStep
<1>4. CASE DeleteFind(p) \/ DeleteShut(p) \/ DeleteRemove(p)
  <2>1. UNCHANGED <<sessions, owner>> /\ \A r \in Rooms : participants'[r] \subseteq participants[r]
    BY <1>4 DEF DeleteFind, DeleteShut, DeleteRemove, sessionVars, roomVars, TypeOK, RoomTypes
  <2> QED
    BY <1>2, <2>1, CalmStep
<1> QED
  BY <1>3, <1>4 DEF DeleteStep

\* CreateSession fails: the place that the call had taken is given back, but for
\* a reconnection.  No other place depends on the call.
LEMMA FailPlaceStep ==
  ASSUME TypeOK, OpenApart, NEW c \in Conns, JoinCreateFails(c)
  PROVE  /\ OpenApart'
         /\ \A r \in Rooms : \A u \in participants'[r] :
              /\ u \in participants[r]
              /\ Backed(r, u) => Backed(r, u)' \/ (proc[c].rejoin /\ Key(c) = <<r, u>>)
         /\ At(c, "create") /\ proc'[c].pc = "idle"
<1>0. c \in Procs /\ proc \in [Procs -> Locals]
  BY DEF TypeOK, ProcTypes, Procs
<1>1. /\ Return(c) /\ At(c, "create") /\ UNCHANGED <<sessions, owner>>
      /\ participants' = [participants EXCEPT
                            ![proc[c].room] = IF proc[c].rejoin THEN @ ELSE @ \ {proc[c].user}]
  BY DEF JoinCreateFails, sessionVars
<1>2. proc'[c].pc = "idle" /\ \A d \in Conns \ {c} : proc'[d] = proc[d]
  BY <1>0, <1>1, ReturnStep DEF Idle, Procs
<1>3. OpenApart'
  BY <1>1, <1>2 DEF OpenApart, Opening, Holding
<1>4. \A d \in Conns \ {c} : (Ends(d)' => Ends(d)) /\ (Backs(d) => Backs(d)') /\ Key(d)' = Key(d)
  BY <1>2 DEF Ends, Backs, Key
<1>5. ~Ends(c)'
  BY <1>2 DEF Ends
<1>6. \A r \in Rooms : \A u \in participants'[r] :
        u \in participants[r] /\ (~proc[c].rejoin => Key(c) # <<r, u>>)
  BY <1>1 DEF TypeOK, RoomTypes, Key
<1>7. ASSUME NEW r \in Rooms, NEW u, Key(c) # <<r, u>>, Backed(r, u) PROVE Backed(r, u)'
  BY <1>1, <1>2, <1>4, <1>5, <1>7 DEF Backed
<1> QED
  BY <1>1, <1>2, <1>3, <1>6, <1>7

LEMMA NextPlaceStep ==
  ASSUME TypeOK, SessionInv, ShutIsClosed, PlacesBounded, OpenApart, [Next]_vars,
         \A c \in Conns : ~JoinCreateFails(c)
  PROVE  PlaceStep
<1>1. ASSUME NEW p \in Admins \cup Timers, NEW l, Move(p, l),
             UNCHANGED <<sessions, owner, participants>>
      PROVE  PlaceStep
  <2>1. \A c \in Conns : proc'[c] = proc[c]
    BY <1>1, ProcsAreDistinct DEF Move, TypeOK, ProcTypes, Procs
  <2>2. \A c \in Conns : Calm(c)
    BY <2>1, StillCalm
  <2> QED
    BY <1>1, <2>2, CalmStep
<1>2. ASSUME UNCHANGED <<sessions, owner, participants, proc>> PROVE PlaceStep
  <2>1. \A c \in Conns : Calm(c)
    BY <1>2, StillCalm
  <2> QED
    BY <1>2, <2>1, CalmStep
<1>3. ASSUME NEW c \in Conns, JoinStep(c) \/ LeaveStep(c) PROVE PlaceStep
  BY <1>3, JoinPlaceStep, LeavePlaceStep
<1>4. ASSUME NEW p \in Admins \cup Timers, DeleteStep(p) PROVE PlaceStep
  BY <1>4, DeletePlaceStep
<1>5. ASSUME NEW a \in Admins, AdminCall(a) PROVE PlaceStep
  BY <1>1, <1>5 DEF AdminCall, DeleteCall, SweepList, SweepNext, sessionVars, roomVars
<1>6. ASSUME NEW t \in Timers, ArmTimer(t) \/ TimerStep(t) PROVE PlaceStep
  BY <1>1, <1>6
  DEF ArmTimer, TimerStep, Fire, GraceExpired, Notify, Goto, Return, sessionVars, roomVars
<1> QED
  BY <1>2, <1>3, <1>4, <1>5, <1>6
  DEF Next, CreateRoom, BecomeStale, Drop, AlreadyArmed, StartPipeline, vars, sessionVars, roomVars

\* The two kinds of steps together.
LEMMA NextApart ==
  ASSUME TypeOK, SessionInv, ShutIsClosed, PlacesBounded, OpenApart, [Next]_vars
  PROVE  OpenApart'
<1>1. CASE \E c \in Conns : JoinCreateFails(c)
  BY <1>1, FailPlaceStep
<1>2. CASE \A c \in Conns : ~JoinCreateFails(c)
  BY <1>2, NextPlaceStep DEF PlaceStep
<1> QED
  BY <1>1, <1>2

\* What the theorems about places rest on.
ApartInv == TypeOK /\ SessionInv /\ ShutIsClosed /\ PlacesBounded /\ OpenApart

LEMMA AlwaysApart == Spec => []ApartInv
<1>1. Init => ShutIsClosed
  BY DEF Init, ShutIsClosed, Idle, Procs
<1>2. TypeOK /\ SessionInv /\ ShutIsClosed /\ PlacesBounded /\ OpenApart /\ [Next]_vars
        => OpenApart'
  BY NextApart
<1> QED
  BY <1>1, <1>2, TypeCorrect, SessionsCorrect, ShutStep, InitPlaces, NextPlaces, InitApart,
     PTL DEF Spec, ApartInv

\* However joins, rejoins, leaves, rollbacks and deletions cross, a place that is
\* newly taken in a room is backed by a session of its user or by a JoinRoom that
\* is going to register one, and a place that is backed stays backed until it is
\* given back.  The one exception is a CreateSession that fails in a call which
\* was a reconnection: JoinRoom takes the place again and does not give it back.
THEOREM OnlyFailureStrands == Spec => StrandedOnlyByFailure
<1> DEFINE S == \A r \in Rooms : \A u \in participants'[r] :
                  \/ Backed(r, u)'
                  \/ u \in participants[r] /\ ~Backed(r, u)
                  \/ \E c \in Conns :
                       /\ At(c, "create") /\ proc'[c].pc = "idle"
                       /\ proc[c].rejoin /\ Key(c) = <<r, u>>
<1>1. ASSUME ApartInv, [Next]_vars PROVE S
  <2>1. CASE \E c \in Conns : JoinCreateFails(c)
    BY <1>1, <2>1, FailPlaceStep DEF ApartInv
  <2>2. CASE \A c \in Conns : ~JoinCreateFails(c)
    BY <1>1, <2>2, NextPlaceStep DEF ApartInv, PlaceStep, PlacesKept
  <2> QED
    BY <2>1, <2>2
<1> HIDE DEF S
<1>2. ApartInv /\ [Next]_vars => [S]_vars
  BY <1>1
<1>3. Spec => [][S]_vars
  BY <1>2, AlwaysApart, PTL DEF Spec
<1> QED
  BY <1>3 DEF StrandedOnlyByFailure, S

\* And where CreateSession does not fail every place taken in a room is backed:
\* no crossing of calls leaves a place that nobody gives back.
THEOREM PlacesAreBacked == ~PeerFailures /\ Spec => []PlacesBacked
<1> SUFFICES ASSUME ~PeerFailures PROVE Spec => []PlacesBacked
  OBVIOUS
<1>1. Init => PlacesBacked
  BY DEF Init, PlacesBacked
<1>2. ApartInv /\ PlacesBacked /\ [Next]_vars => PlacesBacked'
  <2> SUFFICES ASSUME ApartInv, PlacesBacked, [Next]_vars PROVE PlacesBacked'
    OBVIOUS
  <2>1. PlaceStep
    BY NextPlaceStep DEF ApartInv, JoinCreateFails
  <2> QED
    BY <2>1 DEF PlaceStep, PlacesKept, PlacesBacked
<1> QED
  BY <1>1, <1>2, AlwaysApart, PTL DEF Spec

(***************************************************************************)
(* Timers that have fired, and timers that still can.                      *)
(*                                                                         *)
(* A callback finds its room in the repository unless the room is closed:  *)
(* an active room is in the repository, and calls, sessions and timers are *)
(* about rooms that have been created.                                     *)
(***************************************************************************)
Born(r) == status[r] # "unborn"

RoomsKnown ==
  /\ \A r \in Rooms : (r \in repo => Born(r)) /\ (status[r] = "active" => r \in repo)
  /\ \A s \in Created : Born(owner[s][1])

CallBorn(c) == proc[c].pc # "idle" => Born(proc[c].room)

TimerBorn(t) ==
  proc[t].pc # "idle" =>
    /\ Born(proc[t].room)
    /\ proc[t].room = owner[proc[t].sess][1]
    /\ proc[t].pc = "notify" => status[proc[t].room] = "closed"

BornInv ==
  /\ RoomsKnown
  /\ \A c \in Conns : CallBorn(c)
  /\ \A t \in Timers : TimerBorn(t)

\* What a step does to status: a room is made once and closed once.
Grows == \A r \in Rooms : status'[r] = status[r] \/ status[r] = "unborn" \/ status'[r] = "closed"

\* What a step does to owner: sessions are created, and stay who they are.
OwnersKept == \A s \in Created : owner'[s] = owner[s]

\* A goroutine stays in its call, if it does not return.
StaysInCall(p) ==
  proc'[p].pc # "idle" => /\ proc[p].pc # "idle" /\ proc'[p].room = proc[p].room
                          /\ proc'[p].sess = proc[p].sess

LEMMA CallStays ==
  ASSUME TypeOK, BornInv, Grows, NEW c \in Conns,
         proc'[c].pc # "idle" => proc[c].pc # "idle" /\ proc'[c].room = proc[c].room
  PROVE  CallBorn(c)'
BY DEF BornInv, CallBorn, Born, Grows, TypeOK, ProcTypes, ConnOK

LEMMA TimerStays ==
  ASSUME TypeOK, BornInv, Grows, OwnersKept, NEW t \in Timers, StaysInCall(t),
         proc'[t].pc = "notify" => proc[t].pc = "notify" \/ status'[proc'[t].room] = "closed"
  PROVE  TimerBorn(t)'
<1> SUFFICES ASSUME proc'[t].pc # "idle" PROVE TimerBorn(t)'
  BY DEF TimerBorn
<1>1. /\ proc[t].pc # "idle" /\ proc'[t].room = proc[t].room /\ proc'[t].sess = proc[t].sess
  BY DEF StaysInCall
<1>2. proc[t].room \in Rooms /\ proc[t].sess \in Created
  BY <1>1 DEF TypeOK, ProcTypes, TimerOK
<1>3. TimerBorn(t)
  BY DEF BornInv
<1> QED
  BY <1>1, <1>2, <1>3 DEF TimerBorn, Born, Grows, OwnersKept

LEMMA SameRoomsKnown ==
  ASSUME BornInv, UNCHANGED <<status, repo, owner>> PROVE RoomsKnown'
BY DEF BornInv, RoomsKnown, Born, Created

\* A connection moves, and neither room nor session is made, closed or removed.
LEMMA ConnBorn ==
  ASSUME TypeOK, BornInv, UNCHANGED status, OwnersKept, RoomsKnown',
         NEW c \in Conns, \A p \in Procs \ {c} : proc'[p] = proc[p], CallBorn(c)'
  PROVE  BornInv'
<1>1. Grows
  BY DEF Grows
<1>2. \A d \in Conns \ {c} : CallBorn(d)'
  BY <1>1, CallStays DEF Procs
<1>3. \A t \in Timers : TimerBorn(t)'
  BY <1>1, TimerStays, ProcsAreDistinct DEF StaysInCall, Procs
<1> QED
  BY <1>2, <1>3 DEF BornInv

LEMMA JoinBorn ==
  ASSUME TypeOK, BornInv, NEW c \in Conns, JoinStep(c)
  PROVE  BornInv'
<1> USE DEF At, JoinLabels
<1>0. c \in Procs /\ proc \in [Procs -> Locals] /\ proc[c] \in Locals
  BY DEF TypeOK, ProcTypes, Procs
<1>1. ASSUME NEW r \in Rooms, NEW u \in Users, JoinFind(c, r, u) PROVE BornInv'
  <2> DEFINE l == [proc[c] EXCEPT !.pc = "admit", !.room = r, !.user = u]
  <2>1. Move(c, l) /\ UNCHANGED <<status, repo, owner>> /\ Born(r)
    BY <1>1 DEF JoinFind, roomVars, sessionVars, BornInv, RoomsKnown
  <2>2. l.room = r
    BY <1>0 DEF Locals
  <2> HIDE DEF l
  <2>3. proc'[c].room = r /\ \A p \in Procs \ {c} : proc'[p] = proc[p]
    BY <1>0, <2>1, <2>2 DEF Move
  <2>4. CallBorn(c)'
    BY <2>1, <2>3 DEF CallBorn, Born
  <2> QED
    BY <2>1, <2>3, <2>4, SameRoomsKnown, ConnBorn DEF OwnersKept
<1>2. CASE JoinCancel(c)
  <2>1. /\ UNCHANGED <<status, repo, owner>>
        /\ \A p \in Conns \cup Timers :
             StaysInCall(p) /\ (proc'[p].pc = "notify" => proc[p].pc = "notify")
    BY <1>0, <1>2, ProcsAreDistinct
    DEF JoinCancel, roomVars, sessionVars, StaysInCall, Idle, Procs, Locals
  <2>2. Grows /\ OwnersKept
    BY <2>1 DEF Grows, OwnersKept
  <2> QED
    BY <2>1, <2>2, SameRoomsKnown, CallStays, TimerStays DEF BornInv, StaysInCall
\* The steps that stay in the call, or end it.
<1>3. ASSUME UNCHANGED status, OwnersKept, RoomsKnown', \A p \in Procs \ {c} : proc'[p] = proc[p],
             proc'[c].pc # "idle" => proc[c].pc # "idle" /\ proc'[c].room = proc[c].room
      PROVE  BornInv'
  BY <1>3, CallStays, ConnBorn DEF Grows
<1>4. ASSUME UNCHANGED status, OwnersKept, RoomsKnown', NEW l \in JoinLabels, Goto(c, l),
             proc[c].pc # "idle"
      PROVE  BornInv'
  BY <1>0, <1>3, <1>4, GotoStep DEF Labels
<1>5. ASSUME UNCHANGED status, OwnersKept, RoomsKnown', Return(c) PROVE BornInv'
  BY <1>0, <1>3, <1>5, ReturnStep DEF Idle
<1>6. CASE JoinRefused(c) \/ JoinCreateFails(c) \/ JoinPair(c)
  BY <1>5, <1>6, SameRoomsKnown
  DEF JoinRefused, JoinCreateFails, JoinPair, BindAndReturn, roomVars, sessionVars, OwnersKept
<1>7. CASE JoinResume(c) \/ JoinAgain(c) \/ JoinRegister(c) \/ JoinFull(c)
  BY <1>4, <1>5, <1>7, SameRoomsKnown
  DEF JoinResume, JoinAgain, JoinRegister, JoinFull, BindAndReturn, roomVars, sessionVars, OwnersKept
<1>8. CASE JoinSave(c) \/ JoinTouch(c)
  <2>1. /\ UNCHANGED <<status, owner>> /\ repo' = repo \cup {proc[c].room}
        /\ proc[c].pc # "idle" /\ (Goto(c, "register") \/ Goto(c, "full"))
    BY <1>8 DEF JoinSave, JoinTouch, sessionVars
  <2>2. RoomsKnown'
    BY <1>8, <2>1 DEF BornInv, RoomsKnown, CallBorn, Born, Created, JoinSave, JoinTouch
  <2> QED
    BY <1>4, <1>8, <2>1, <2>2 DEF OwnersKept, JoinSave, JoinTouch
<1>9. CASE JoinAdmit(c)
  <2> DEFINE b == proc[c].user \in participants[proc[c].room]
             l == [proc[c] EXCEPT !.pc = "collect", !.rejoin = b]
  <2>1. Move(c, l) /\ UNCHANGED <<status, repo, owner>> /\ proc[c].pc = "admit"
    BY <1>9 DEF JoinAdmit, sessionVars
  <2> HIDE DEF b
  <2>2. l.room = proc[c].room
    BY <1>0 DEF Locals
  <2> HIDE DEF l
  <2> QED
    BY <1>0, <1>3, <2>1, <2>2, SameRoomsKnown DEF Move, OwnersKept
<1>10. CASE JoinCollect(c)
  <2> DEFINE b == sessions \cap SessionsOf(proc[c].room)
             l == [proc[c] EXCEPT !.pc = "cancel", !.batch = b]
  <2>1. Move(c, l) /\ UNCHANGED <<status, repo, owner>> /\ proc[c].pc = "collect"
    BY <1>10 DEF JoinCollect, roomVars, sessionVars
  <2> HIDE DEF b
  <2>2. l.room = proc[c].room
    BY <1>0 DEF Locals
  <2> HIDE DEF l
  <2> QED
    BY <1>0, <1>3, <2>1, <2>2, SameRoomsKnown DEF Move, OwnersKept
<1>11. ASSUME NEW s \in Sessions, JoinCreate(c, s) PROVE BornInv'
  <2> DEFINE l == [proc[c] EXCEPT !.pc = "save", !.sess = s]
  <2>1. /\ Move(c, l) /\ UNCHANGED <<status, repo>> /\ proc[c].pc = "create"
        /\ s \notin Created /\ owner' = [owner EXCEPT ![s] = Key(c)]
    BY <1>11 DEF JoinCreate, roomVars, Created
  <2>2. l.room = proc[c].room
    BY <1>0 DEF Locals
  <2> HIDE DEF l
  <2>3. OwnersKept
    BY <2>1 DEF OwnersKept, Created, TypeOK, SessionTypes
  <2>4. Created' \subseteq Created \cup {s} /\ owner'[s][1] = proc[c].room
    BY <2>1 DEF Created, Key, TypeOK, SessionTypes
  <2>5. RoomsKnown'
    BY <2>1, <2>3, <2>4 DEF BornInv, RoomsKnown, CallBorn, Born, OwnersKept
  <2> QED
    BY <1>0, <1>3, <2>1, <2>2, <2>3, <2>5 DEF Move
<1> QED
  BY <1>1, <1>2, <1>6, <1>7, <1>8, <1>9, <1>10, <1>11 DEF JoinStep

LEMMA LeaveBorn ==
  ASSUME TypeOK, BornInv, NEW c \in Conns, LeaveStep(c)
  PROVE  BornInv'
<1> USE DEF At, LeaveLabels
<1>0. c \in Procs /\ proc \in [Procs -> Locals] /\ proc[c] \in Locals
  BY DEF TypeOK, ProcTypes, Procs
<1>1. UNCHANGED <<status, owner>> /\ OwnersKept
  BY DEF LeaveStep, LeaveCall, LeaveFind, LeaveClose, LeaveFetch, LeaveLeave, LeaveStore,
         LeaveUnregister, roomVars, sessionVars, OwnersKept
<1>2. CASE LeaveCall(c)
  <2> DEFINE k == owner[bound[c]]
             l == [proc[c] EXCEPT !.pc = "find", !.room = k[1], !.user = k[2]]
  <2>1. Move(c, l) /\ UNCHANGED repo /\ Born(k[1])
    BY <1>2 DEF LeaveCall, roomVars, BornInv, RoomsKnown, TypeOK, SessionTypes
  <2> HIDE DEF k
  <2>2. l.room = k[1]
    BY <1>0 DEF Locals
  <2> HIDE DEF l
  <2>3. proc'[c].room = k[1] /\ \A p \in Procs \ {c} : proc'[p] = proc[p]
    BY <1>0, <2>1, <2>2 DEF Move
  <2>4. CallBorn(c)'
    BY <1>1, <2>1, <2>3 DEF CallBorn, Born
  <2> QED
    BY <1>1, <2>1, <2>3, <2>4, SameRoomsKnown, ConnBorn
\* Every other step stays in the call, or ends it.
<1>3. ASSUME RoomsKnown', \A p \in Procs \ {c} : proc'[p] = proc[p],
             proc'[c].pc # "idle" => proc[c].pc # "idle" /\ proc'[c].room = proc[c].room
      PROVE  BornInv'
  BY <1>1, <1>3, CallStays, ConnBorn DEF Grows
<1>4. ASSUME RoomsKnown', NEW l \in LeaveLabels, Goto(c, l), proc[c].pc # "idle" PROVE BornInv'
  BY <1>0, <1>3, <1>4, GotoStep DEF Labels
<1>5. ASSUME RoomsKnown', Return(c) PROVE BornInv'
  BY <1>0, <1>3, <1>5, ReturnStep DEF Idle
<1>6. CASE LeaveFind(c)
  <2>1. RoomsKnown' /\ proc[c].pc = "find"
    BY <1>1, <1>6, SameRoomsKnown DEF LeaveFind, roomVars
  <2>2. CASE Return(c)
    BY <1>5, <2>1, <2>2
  <2>3. CASE Move(c, [proc[c] EXCEPT !.pc = "close", !.sess = lookup[Key(c)]])
    <3> DEFINE l == [proc[c] EXCEPT !.pc = "close", !.sess = lookup[Key(c)]]
    <3>1. l.room = proc[c].room
      BY <1>0 DEF Locals
    <3> HIDE DEF l
    <3> QED
      BY <1>0, <1>3, <2>1, <2>3, <3>1 DEF Move, l
  <2> QED
    BY <1>6, <2>2, <2>3 DEF LeaveFind
<1>7. CASE LeaveClose(c) \/ LeaveFetch(c) \/ LeaveLeave(c) \/ LeaveUnregister(c)
  BY <1>1, <1>4, <1>5, <1>7, SameRoomsKnown
  DEF LeaveClose, LeaveFetch, LeaveLeave, LeaveUnregister, roomVars
<1>8. CASE LeaveStore(c)
  <2>1. RoomsKnown'
    BY <1>1, <1>8 DEF LeaveStore, BornInv, RoomsKnown, CallBorn, Born, Created
  <2> QED
    BY <1>4, <1>8, <2>1 DEF LeaveStore
<1> QED
  BY <1>2, <1>6, <1>7, <1>8 DEF LeaveStep

\* A goroutine that deletes a room, or a timer, moves: connections stay.
LEMMA DeleterBorn ==
  ASSUME TypeOK, BornInv, Grows, UNCHANGED owner, RoomsKnown', NEW p \in Admins \cup Timers,
         \A q \in Procs \ {p} : proc'[q] = proc[q], p \in Timers => TimerBorn(p)'
  PROVE  BornInv'
<1>1. \A c \in Conns : CallBorn(c)'
  BY CallStays, ProcsAreDistinct DEF Procs
<1>2. \A t \in Timers \ {p} : TimerBorn(t)'
  BY TimerStays DEF StaysInCall, OwnersKept, Procs
<1> QED
  BY <1>1, <1>2 DEF BornInv

LEMMA DeleterGoes ==
  ASSUME TypeOK, BornInv, Grows, UNCHANGED owner, RoomsKnown', NEW p \in Admins \cup Timers,
         proc[p].pc # "idle", NEW l \in DeleteLabels \cup TimerLabels, Goto(p, l),
         p \in Timers /\ l = "notify" => status'[proc[p].room] = "closed"
  PROVE  BornInv'
<1>1. p \in Procs /\ proc \in [Procs -> Locals] /\ l \in Labels
  BY DEF TypeOK, ProcTypes, Procs, Labels
<1>2. /\ proc'[p].pc = l /\ proc'[p].room = proc[p].room /\ proc'[p].sess = proc[p].sess
      /\ \A q \in Procs \ {p} : proc'[q] = proc[q]
  BY <1>1, GotoStep
<1>3. p \in Timers => TimerBorn(p)'
  BY <1>2, TimerStays DEF StaysInCall, OwnersKept
<1> QED
  BY <1>2, <1>3, DeleterBorn

LEMMA AfterDeleteBorn ==
  ASSUME TypeOK, BornInv, Grows, UNCHANGED owner, RoomsKnown', NEW p \in Admins \cup Timers,
         proc[p].pc # "idle", AfterDelete(p), status'[proc[p].room] = "closed"
  PROVE  BornInv'
<1>1. CASE Goto(p, "notify")
  BY <1>1, DeleterGoes DEF TimerLabels
<1>2. CASE p \in Admins /\ Move(p, [Idle EXCEPT !.todo = proc[p].todo])
  <2>1. p \notin Timers /\ \A q \in Procs \ {p} : proc'[q] = proc[q]
    BY <1>2, ProcsAreDistinct DEF Move, TypeOK, ProcTypes, Procs
  <2> QED
    BY <2>1, DeleterBorn
<1> QED
  BY <1>1, <1>2 DEF AfterDelete

\* A room that is not in the repository is closed, if it was ever there.
LEMMA GoneIsClosed ==
  ASSUME TypeOK, BornInv, NEW r \in Rooms, Born(r), r \notin repo
  PROVE  status[r] = "closed"
BY DEF BornInv, RoomsKnown, Born, TypeOK, RoomTypes

LEMMA DeleteBorn ==
  ASSUME TypeOK, BornInv, ShutIsClosed, NEW p \in Admins \cup Timers, DeleteStep(p)
  PROVE  BornInv'
<1> USE DEF At, DeleteLabels
<1>0. p \in Procs /\ proc[p].pc # "idle" /\ proc[p].room \in Rooms /\ UNCHANGED owner
  BY RoomOfDelete
  DEF TypeOK, DeleteStep, DeleteFind, DeleteShut, DeleteCleanup, DeleteRemove, sessionVars, Procs
<1>1. CASE DeleteFind(p)
  <2>1. Grows /\ RoomsKnown'
    BY <1>0, <1>1, SameRoomsKnown DEF DeleteFind, roomVars, Grows
  <2>2. CASE Goto(p, "shut")
    BY <1>0, <2>1, <2>2, DeleterGoes
  <2>3. CASE proc[p].room \notin repo /\ AfterDelete(p)
    <3>1. CASE p \in Timers
      <4>1. Born(proc[p].room)
        BY <1>0, <3>1 DEF BornInv, TimerBorn
      <4>2. status'[proc[p].room] = "closed"
        BY <1>0, <1>1, <2>3, <4>1, GoneIsClosed DEF DeleteFind, roomVars
      <4> QED
        BY <1>0, <2>1, <2>3, <4>2, AfterDeleteBorn
    <3>2. CASE p \notin Timers
      <4>1. \A q \in Procs \ {p} : proc'[q] = proc[q]
        BY <2>3, <3>2 DEF AfterDelete, Move, TypeOK, ProcTypes
      <4> QED
        BY <1>0, <2>1, <3>2, <4>1, DeleterBorn
    <3> QED
      BY <3>1, <3>2
  <2> QED
    BY <1>1, <2>2, <2>3 DEF DeleteFind
<1>2. CASE DeleteShut(p)
  <2>1. status' = [status EXCEPT ![proc[p].room] = "closed"] /\ UNCHANGED repo
    BY <1>2 DEF DeleteShut
  <2>2. Grows /\ \A r \in Rooms : status'[r] = status[r] \/ status'[r] = "closed"
    BY <2>1 DEF Grows, TypeOK, RoomTypes
  <2>3. \A s \in Created : owner[s][1] \in Rooms
    BY DEF Created, TypeOK, SessionTypes
  <2>4. RoomsKnown'
    BY <1>0, <2>1, <2>2, <2>3 DEF BornInv, RoomsKnown, Born, Created
  <2> QED
    BY <1>0, <1>2, <2>2, <2>4, DeleterGoes DEF DeleteShut
<1>3. CASE DeleteCleanup(p)
  BY <1>0, <1>3, SameRoomsKnown, DeleterGoes DEF DeleteCleanup, roomVars, Grows
<1>4. CASE DeleteRemove(p)
  <2>1. UNCHANGED status /\ repo' = repo \ {proc[p].room} /\ status[proc[p].room] = "closed"
    BY <1>4 DEF DeleteRemove, ShutIsClosed
  <2>2. RoomsKnown'
    BY <1>0, <2>1 DEF BornInv, RoomsKnown, Born, Created
  <2> QED
    BY <1>0, <1>4, <2>1, <2>2, AfterDeleteBorn DEF DeleteRemove, Grows
<1> QED
  BY <1>1, <1>2, <1>3, <1>4 DEF DeleteStep

LEMMA TimersBorn ==
  ASSUME TypeOK, BornInv, NEW t \in Timers, ArmTimer(t) \/ TimerStep(t)
  PROVE  BornInv'
<1>0. /\ t \in Procs /\ proc \in [Procs -> Locals] /\ proc[t] \in Locals
      /\ UNCHANGED <<status, repo, owner>>
  BY DEF TypeOK, ProcTypes, Procs, ArmTimer, TimerStep, Fire, GraceExpired, Notify, roomVars,
         sessionVars
<1>1. Grows /\ RoomsKnown'
  BY <1>0, SameRoomsKnown DEF Grows
<1>2. CASE ArmTimer(t)
  <2> DEFINE s == hub.sess
             r == owner[s][1]
             l == [proc[t] EXCEPT !.pc = "armed", !.sess = s, !.room = r]
  <2>1. Move(t, l) /\ s \in Created
    BY <1>2, NoneIsNothing DEF ArmTimer, TypeOK, TimerTypes
  <2>2. Born(r)
    BY <2>1 DEF BornInv, RoomsKnown
  <2> HIDE DEF s
  <2>3. l.pc = "armed" /\ l.sess = s /\ l.room = r
    BY <1>0 DEF Locals
  <2> HIDE DEF l
  <2>4. proc'[t] = l /\ \A q \in Procs \ {t} : proc'[q] = proc[q]
    BY <1>0, <2>1 DEF Move
  <2>5. TimerBorn(t)'
    BY <1>0, <2>2, <2>3, <2>4 DEF TimerBorn, Born
  <2> QED
    BY <1>0, <1>1, <2>4, <2>5, DeleterBorn
<1>3. CASE Fire(t) \/ GraceExpired(t)
  BY <1>0, <1>1, <1>3, DeleterGoes DEF Fire, GraceExpired, At, TimerLabels, DeleteLabels
<1>4. CASE Notify(t)
  <2>1. proc'[t].pc = "idle" /\ \A q \in Procs \ {t} : proc'[q] = proc[q]
    BY <1>0, <1>4, ReturnStep DEF Notify, Idle
  <2> QED
    BY <1>0, <1>1, <2>1, DeleterBorn DEF TimerBorn
<1> QED
  BY <1>2, <1>3, <1>4 DEF TimerStep

LEMMA NextBorn == TypeOK /\ ShutIsClosed /\ BornInv /\ [Next]_vars => BornInv'
<1> SUFFICES ASSUME TypeOK, ShutIsClosed, BornInv, [Next]_vars PROVE BornInv'
  OBVIOUS
<1>1. ASSUME Grows, UNCHANGED <<owner, proc>>, RoomsKnown' PROVE BornInv'
  BY <1>1, CallStays, TimerStays DEF BornInv, StaysInCall, OwnersKept
<1>2. ASSUME NEW r \in Rooms, CreateRoom(r) PROVE BornInv'
  <2>1. /\ status[r] = "unborn" /\ status' = [status EXCEPT ![r] = "active"]
        /\ repo' = repo \cup {r} /\ UNCHANGED <<owner, proc>>
    BY <1>2 DEF CreateRoom, sessionVars
  <2>2. Grows
    BY <2>1 DEF Grows, TypeOK, RoomTypes
  <2>3. \A s \in Created : owner[s][1] \in Rooms
    BY DEF Created, TypeOK, SessionTypes
  <2>4. RoomsKnown'
    BY <2>1, <2>3 DEF BornInv, RoomsKnown, Born, Created, TypeOK, RoomTypes
  <2> QED
    BY <1>1, <2>1, <2>2, <2>4
<1>3. ASSUME UNCHANGED <<status, repo, owner, proc>> PROVE BornInv'
  BY <1>1, <1>3, SameRoomsKnown DEF Grows
<1>4. ASSUME NEW a \in Admins, AdminCall(a) PROVE BornInv'
  <2>1. /\ UNCHANGED <<status, repo, owner>> /\ a \notin Timers
        /\ \A q \in Procs \ {a} : proc'[q] = proc[q]
    BY <1>4, ProcsAreDistinct
    DEF AdminCall, DeleteCall, SweepList, SweepNext, roomVars, sessionVars, Move, TypeOK,
        ProcTypes, Procs
  <2> QED
    BY <2>1, SameRoomsKnown, DeleterBorn DEF Grows
<1>5. ASSUME NEW c \in Conns, JoinStep(c) \/ LeaveStep(c) PROVE BornInv'
  BY <1>5, JoinBorn, LeaveBorn
<1>6. ASSUME NEW p \in Admins \cup Timers, DeleteStep(p) PROVE BornInv'
  BY <1>6, DeleteBorn
<1>7. ASSUME NEW t \in Timers, ArmTimer(t) \/ TimerStep(t) PROVE BornInv'
  BY <1>7, TimersBorn
<1> QED
  BY <1>2, <1>3, <1>4, <1>5, <1>6, <1>7
  DEF Next, BecomeStale, Drop, AlreadyArmed, StartPipeline, vars, roomVars, sessionVars

LEMMA InitBorn == Init => BornInv
BY DEF Init, BornInv, RoomsKnown, CallBorn, TimerBorn, Born, Created, Idle, Procs

LEMMA AlwaysBorn == Spec => [](TypeOK /\ ShutIsClosed /\ BornInv)
<1>1. Init => ShutIsClosed
  BY DEF Init, ShutIsClosed, Idle, Procs
<1> QED
  BY <1>1, TypeCorrect, ShutStep, InitBorn, NextBorn, PTL DEF Spec

\* A grace callback that has begun does not end before its room is closed: it
\* closes the room itself, or finds it gone from the repository, which only
\* happens to a closed room, however often joins and leaves save it again.
THEOREM CallbacksClose == Spec => ExpiryCloses
<1> DEFINE E == \A t \in Timers :
                  /\ proc[t].pc \in {"fired", "lookFor", "shut", "cleanup", "remove", "notify"}
                  /\ proc'[t].pc = "idle"
                  => status[proc[t].room] = "closed"
<1>1. ASSUME TypeOK, ShutIsClosed, BornInv, [Next]_vars PROVE E
  <2> SUFFICES ASSUME NEW t \in Timers,
                      proc[t].pc \in {"fired", "lookFor", "shut", "cleanup", "remove", "notify"},
                      proc'[t].pc = "idle"
               PROVE  status[proc[t].room] = "closed"
    OBVIOUS
  <2>0. t \in Procs /\ proc \in [Procs -> Locals]
    BY <1>1 DEF TypeOK, ProcTypes, Procs
  <2>1. \A p \in Procs, l \in DeleteLabels \cup TimerLabels : Goto(p, l) => proc'[t].pc # "idle"
    BY <2>0, GotoStep DEF Labels, DeleteLabels, TimerLabels
  <2>2. \A p \in Procs \ {t} : ~ (\E l : Move(p, l))
    BY <2>0 DEF Move
  <2>3. \A p \in Admins \cup Timers : ~DeleteStep(p)
    BY <2>1, <2>2, ProcsAreDistinct
    DEF DeleteStep, DeleteFind, DeleteShut, DeleteCleanup, DeleteRemove, AfterDelete, Goto,
        DeleteLabels, TimerLabels, Procs
  <2>4. \A c \in Conns : ~JoinStep(c) /\ ~LeaveStep(c)
    <3> SUFFICES ASSUME NEW c \in Conns PROVE ~JoinStep(c) /\ ~LeaveStep(c)
      OBVIOUS
    <3>1. c \in Procs \ {t}
      BY ProcsAreDistinct DEF Procs
    <3>2. ~JoinCancel(c)
      BY <2>0, <3>1 DEF JoinCancel, At
    <3>3. ~JoinStep(c)
      BY <2>2, <3>1, <3>2
      DEF JoinStep, JoinFind, JoinRefused, JoinAdmit, JoinCollect, JoinResume, JoinAgain,
          JoinCreate, JoinCreateFails, JoinSave, JoinRegister, JoinTouch, JoinFull, JoinPair,
          BindAndReturn, Goto, Return
    <3>4. ~LeaveStep(c)
      BY <2>2, <3>1
      DEF LeaveStep, LeaveCall, LeaveFind, LeaveClose, LeaveFetch, LeaveLeave, LeaveStore,
          LeaveUnregister, Goto, Return
    <3> QED
      BY <3>3, <3>4
  <2>5. \A a \in Admins : ~AdminCall(a)
    BY <2>2, ProcsAreDistinct DEF AdminCall, DeleteCall, SweepList, SweepNext, Procs
  <2>6. \A u \in Timers : ~ArmTimer(u)
    BY <2>0, <2>2 DEF ArmTimer, At, Procs
  <2>7. \A u \in Timers : TimerStep(u) => u = t /\ Notify(t)
    BY <2>1, <2>2 DEF TimerStep, Fire, GraceExpired, Notify, Goto, Return, Procs,
       DeleteLabels, TimerLabels
  <2>8. ~UNCHANGED proc
    OBVIOUS
  <2>9. Notify(t)
    BY <1>1, <2>3, <2>4, <2>5, <2>6, <2>7, <2>8
    DEF Next, CreateRoom, BecomeStale, Drop, AlreadyArmed, StartPipeline, vars
  <2> QED
    BY <1>1, <2>9 DEF Notify, At, BornInv, TimerBorn
<1> HIDE DEF E
<1>2. TypeOK /\ ShutIsClosed /\ BornInv /\ [Next]_vars => [E]_vars
  BY <1>1
<1>3. Spec => [][E]_vars
  BY <1>2, AlwaysBorn, PTL DEF Spec
<1> QED
  BY <1>3 DEF ExpiryCloses, E

\* A timer whose callback is on its way to Room.Close.
Closes(e) == proc[e].pc \in {"lookFor", "shut"}

Known(t) ==
  \/ graceTimers[proc[t].sess] = t
  \/ status[proc[t].room] = "closed"
  \/ \E e \in Timers : proc[e].room = proc[t].room /\ Closes(e)

\* A timer goes on to Room.Close, unless its room is closed.
StaysClosing ==
  \A e \in Timers : Closes(e) =>
    \/ Closes(e)' /\ proc'[e].room = proc[e].room
    \/ status'[proc[e].room] = "closed"

StaysArmed(t) ==
  At(t, "armed")' =>
    At(t, "armed") /\ proc'[t].room = proc[t].room /\ proc'[t].sess = proc[t].sess

LEMMA KnownStays ==
  ASSUME TypeOK, RunningTimerKnown, Grows, StaysClosing, NEW t \in Timers, StaysArmed(t),
         At(t, "armed")', graceTimers[proc[t].sess] = t => Known(t)', Born(proc[t].room)
  PROVE  Known(t)'
<1>1. proc[t].room \in Rooms
  BY DEF StaysArmed, At, TypeOK, ProcTypes, TimerOK
<1>2. Known(t)
  BY DEF RunningTimerKnown, Known, Closes, StaysArmed
<1>3. CASE status[proc[t].room] = "closed"
  BY <1>1, <1>3 DEF Known, Grows, Born, StaysArmed
<1>4. CASE \E e \in Timers : proc[e].room = proc[t].room /\ Closes(e)
  BY <1>4 DEF Known, StaysClosing, StaysArmed
<1> QED
  BY <1>2, <1>3, <1>4 DEF Known

LEMMA KnownStep ==
  ASSUME TypeOK, BornInv, RunningTimerKnown, Grows, StaysClosing,
         \A t \in Timers : StaysArmed(t),
         \A t \in Timers : At(t, "armed")' /\ graceTimers[proc[t].sess] = t => Known(t)'
  PROVE  RunningTimerKnown'
<1> SUFFICES ASSUME NEW t \in Timers, At(t, "armed")' PROVE Known(t)'
  BY DEF RunningTimerKnown, Known, Closes
<1>1. At(t, "armed") /\ Born(proc[t].room)
  BY DEF StaysArmed, At, BornInv, TimerBorn
<1> QED
  BY <1>1, KnownStays

\* A step that changes neither timer objects nor their entries.
LEMMA TimersStill ==
  ASSUME TypeOK, BornInv, RunningTimerKnown, Grows, UNCHANGED graceTimers,
         \A t \in Timers : proc'[t] = proc[t]
  PROVE  RunningTimerKnown'
<1>1. StaysClosing /\ \A t \in Timers : StaysArmed(t)
  BY DEF StaysClosing, Closes, StaysArmed, At
<1> QED
  BY <1>1, KnownStep DEF Known

LEMMA CancelKnown ==
  ASSUME TypeOK, BornInv, RunningTimerKnown, NEW c \in Conns, JoinCancel(c)
  PROVE  RunningTimerKnown'
<1> DEFINE batch == proc[c].batch
           stopped == {t \in Timers : At(t, "armed") /\ \E s \in batch : graceTimers[s] = t}
<1>1. /\ graceTimers' = [s \in Sessions |-> IF s \in batch THEN None ELSE graceTimers[s]]
      /\ \A t \in Timers \ stopped : proc'[t] = proc[t]
      /\ \A t \in stopped : proc'[t] = Idle
      /\ UNCHANGED status
  BY ProcsAreDistinct DEF JoinCancel, Procs, roomVars
<1>2. StaysClosing
  BY <1>1 DEF StaysClosing, Closes, At
<1>3. \A t \in Timers : StaysArmed(t) /\ (At(t, "armed")' => t \notin stopped)
  BY <1>1 DEF StaysArmed, At, Idle
<1>4. ASSUME NEW t \in Timers, At(t, "armed")', graceTimers[proc[t].sess] = t PROVE Known(t)'
  <2>1. t \notin stopped /\ At(t, "armed") /\ proc'[t] = proc[t]
    BY <1>1, <1>3, <1>4 DEF StaysArmed
  <2>2. proc[t].sess \in Sessions /\ proc[t].sess \notin batch
    BY <1>4, <2>1 DEF At, TypeOK, ProcTypes, TimerOK, Created
  <2> QED
    BY <1>1, <1>4, <2>1, <2>2 DEF Known
<1> QED
  BY <1>1, <1>2, <1>3, <1>4, KnownStep DEF Grows

LEMMA DeleteKnown ==
  ASSUME TypeOK, BornInv, RunningTimerKnown, NEW p \in Admins \cup Timers, DeleteStep(p)
  PROVE  RunningTimerKnown'
<1> USE DEF At, DeleteLabels
<1>0. /\ p \in Procs /\ proc \in [Procs -> Locals] /\ proc[p].room \in Rooms
      /\ proc[p].pc \in DeleteLabels /\ UNCHANGED graceTimers
      /\ \A q \in Procs \ {p} : proc'[q] = proc[q]
  BY RoomOfDelete
  DEF TypeOK, DeleteStep, DeleteFind, DeleteShut, DeleteCleanup, DeleteRemove, AfterDelete,
      Goto, Move, Procs, ProcTypes
<1>1. /\ p \in Timers => proc'[p].pc \notin {"armed"} /\ proc'[p].room = proc[p].room
      /\ p \in Timers /\ Closes(p) => Closes(p)' \/ status'[proc[p].room] = "closed"
      /\ Grows
  <2>1. CASE DeleteFind(p)
    <3>1. UNCHANGED <<status, repo>> /\ Grows
      BY <2>1 DEF DeleteFind, roomVars, Grows
    <3>2. CASE Goto(p, "shut")
      BY <1>0, <3>1, <3>2, GotoStep DEF Labels, Closes
    <3>3. CASE proc[p].room \notin repo /\ p \in Timers /\ Goto(p, "notify")
      <4>1. status[proc[p].room] = "closed"
        BY <1>0, <3>3, GoneIsClosed DEF BornInv, TimerBorn
      <4> QED
        BY <1>0, <3>1, <3>3, <4>1, GotoStep DEF Labels, TimerLabels
    <3>4. CASE p \in Admins
      BY <3>1, <3>4, ProcsAreDistinct
    <3> QED
      BY <2>1, <3>2, <3>3, <3>4 DEF DeleteFind, AfterDelete
  <2>2. CASE DeleteShut(p)
    BY <1>0, <2>2, GotoStep DEF DeleteShut, Labels, Grows, TypeOK, RoomTypes
  <2>3. CASE DeleteCleanup(p)
    BY <1>0, <2>3, GotoStep DEF DeleteCleanup, Labels, Grows, Closes, roomVars
  <2>4. CASE DeleteRemove(p)
    BY <1>0, <2>4, GotoStep, ProcsAreDistinct
    DEF DeleteRemove, AfterDelete, Labels, TimerLabels, Grows, Closes
  <2> QED
    BY <2>1, <2>2, <2>3, <2>4 DEF DeleteStep
<1>2. StaysClosing
  BY <1>0, <1>1 DEF StaysClosing, Closes, Procs
<1>3. \A t \in Timers : StaysArmed(t)
  BY <1>0, <1>1 DEF StaysArmed, Procs
<1> QED
  BY <1>0, <1>1, <1>2, <1>3, KnownStep DEF Known, StaysArmed

LEMMA TimersKnown ==
  ASSUME TypeOK, BornInv, RunningTimerKnown, NEW t \in Timers, ArmTimer(t) \/ TimerStep(t)
  PROVE  RunningTimerKnown'
<1> USE DEF At
<1>0. t \in Procs /\ proc \in [Procs -> Locals] /\ proc[t] \in Locals /\ Grows
  BY DEF TypeOK, ProcTypes, Procs, ArmTimer, TimerStep, Fire, GraceExpired, Notify, roomVars, Grows
<1>1. CASE ArmTimer(t)
  <2> DEFINE s == hub.sess
             l == [proc[t] EXCEPT !.pc = "armed", !.sess = s, !.room = owner[s][1]]
  <2>1. /\ Move(t, l) /\ s \in Sessions /\ proc[t].pc = "idle" /\ graceTimers[s] = None
        /\ graceTimers' = [graceTimers EXCEPT ![s] = t]
    BY <1>1, NoneIsNothing DEF ArmTimer, TypeOK, TimerTypes, Created
  <2> HIDE DEF s
  <2>2. l.pc = "armed" /\ l.sess = s
    BY <1>0 DEF Locals
  <2> HIDE DEF l
  <2>3. proc'[t] = l /\ \A q \in Timers \ {t} : proc'[q] = proc[q]
    BY <1>0, <2>1 DEF Move, Procs
  <2>4. Known(t)'
    BY <2>1, <2>2, <2>3 DEF Known, TypeOK, TimerTypes
  <2>5. StaysClosing
    BY <2>1, <2>3 DEF StaysClosing, Closes
  <2>6. ASSUME NEW q \in Timers \ {t}, At(q, "armed")' PROVE Known(q)'
    <3>1. StaysArmed(q) /\ Born(proc[q].room)
      BY <2>3, <2>6 DEF StaysArmed, BornInv, TimerBorn
    <3>2. graceTimers[proc[q].sess] = q => Known(q)'
      <4> SUFFICES ASSUME graceTimers[proc[q].sess] = q PROVE Known(q)'
        OBVIOUS
      <4>1. proc[q].sess # s
        BY <2>1, NoneIsNothing
      <4> QED
        BY <2>1, <2>3, <4>1 DEF Known, TypeOK, TimerTypes
    <3> QED
      BY <1>0, <2>5, <2>6, <3>1, <3>2, KnownStays
  <2> QED
    BY <2>4, <2>6 DEF RunningTimerKnown, Known, Closes
<1>2. CASE Fire(t)
  <2>1. /\ proc'[t].pc = "fired" /\ proc[t].pc = "armed" /\ UNCHANGED graceTimers
        /\ \A q \in Timers \ {t} : proc'[q] = proc[q]
    BY <1>0, <1>2, GotoStep DEF Fire, Labels, TimerLabels, Procs
  <2>2. StaysClosing /\ \A q \in Timers : StaysArmed(q)
    BY <2>1 DEF StaysClosing, Closes, StaysArmed
  <2> QED
    BY <1>0, <2>1, <2>2, KnownStep DEF Known
<1>3. CASE GraceExpired(t)
  <2>1. /\ proc'[t].pc = "lookFor" /\ proc'[t].room = proc[t].room /\ proc[t].pc = "fired"
        /\ \A q \in Timers \ {t} : proc'[q] = proc[q]
    BY <1>0, <1>3, GotoStep DEF GraceExpired, Labels, DeleteLabels, Procs
  <2>2. graceTimers' = [graceTimers EXCEPT ![proc[t].sess] = None]
    BY <1>3 DEF GraceExpired
  <2>3. StaysClosing /\ \A q \in Timers : StaysArmed(q)
    BY <2>1 DEF StaysClosing, Closes, StaysArmed
  <2>4. ASSUME NEW q \in Timers, At(q, "armed")', graceTimers[proc[q].sess] = q PROVE Known(q)'
    <3>1. q # t /\ proc'[q] = proc[q] /\ At(q, "armed")
      BY <2>1, <2>4
    <3>2. CASE proc[q].sess = proc[t].sess
      <4>1. proc[q].room = proc[t].room
        BY <2>1, <3>1, <3>2 DEF BornInv, TimerBorn
      <4> QED
        BY <2>1, <3>1, <4>1 DEF Known, Closes
    <3>3. CASE proc[q].sess # proc[t].sess
      BY <2>2, <2>4, <3>1, <3>3 DEF Known, TypeOK, TimerTypes
    <3> QED
      BY <3>2, <3>3
  <2> QED
    BY <1>0, <2>3, <2>4, KnownStep
<1>4. CASE Notify(t)
  <2>1. /\ proc'[t].pc = "idle" /\ proc[t].pc = "notify" /\ UNCHANGED graceTimers
        /\ \A q \in Timers \ {t} : proc'[q] = proc[q]
    BY <1>0, <1>4, ReturnStep DEF Notify, Idle, Procs
  <2>2. StaysClosing /\ \A q \in Timers : StaysArmed(q)
    BY <2>1 DEF StaysClosing, Closes, StaysArmed
  <2> QED
    BY <1>0, <2>1, <2>2, KnownStep DEF Known, StaysArmed
<1> QED
  BY <1>1, <1>2, <1>3, <1>4 DEF TimerStep

LEMMA NextKnown == TypeOK /\ BornInv /\ RunningTimerKnown /\ [Next]_vars => RunningTimerKnown'
<1> SUFFICES ASSUME TypeOK, BornInv, RunningTimerKnown, [Next]_vars PROVE RunningTimerKnown'
  OBVIOUS
<1>1. ASSUME UNCHANGED <<status, graceTimers>>, NEW p \in Conns \cup Admins, NEW l, Move(p, l)
      PROVE  RunningTimerKnown'
  <2>1. \A t \in Timers : proc'[t] = proc[t]
    BY <1>1, ProcsAreDistinct DEF Move, TypeOK, ProcTypes, Procs
  <2> QED
    BY <1>1, <2>1, TimersStill DEF Grows
<1>2. ASSUME NEW c \in Conns, JoinStep(c), ~ JoinCancel(c) PROVE RunningTimerKnown'
  BY <1>1, <1>2
  DEF JoinStep, JoinFind, JoinRefused, JoinAdmit, JoinCollect, JoinResume, JoinAgain,
      JoinCreate, JoinCreateFails, JoinSave, JoinRegister, JoinTouch, JoinFull, JoinPair,
      BindAndReturn, Goto, Return, roomVars
<1>3. ASSUME NEW c \in Conns, LeaveStep(c) PROVE RunningTimerKnown'
  BY <1>1, <1>3
  DEF LeaveStep, LeaveCall, LeaveFind, LeaveClose, LeaveFetch, LeaveLeave, LeaveStore,
      LeaveUnregister, Goto, Return, roomVars
<1>4. ASSUME NEW a \in Admins, AdminCall(a) PROVE RunningTimerKnown'
  BY <1>1, <1>4 DEF AdminCall, DeleteCall, SweepList, SweepNext, roomVars
<1>5. ASSUME NEW r \in Rooms, CreateRoom(r) PROVE RunningTimerKnown'
  BY <1>5, TimersStill DEF CreateRoom, Grows, TypeOK, RoomTypes
<1>6. ASSUME UNCHANGED <<status, graceTimers, proc>> PROVE RunningTimerKnown'
  BY <1>6, TimersStill DEF Grows
<1>7. ASSUME NEW c \in Conns, JoinStep(c) PROVE RunningTimerKnown'
  BY <1>2, <1>7, CancelKnown
<1>8. ASSUME NEW p \in Admins \cup Timers, DeleteStep(p) PROVE RunningTimerKnown'
  BY <1>8, DeleteKnown
<1>9. ASSUME NEW t \in Timers, ArmTimer(t) \/ TimerStep(t) PROVE RunningTimerKnown'
  BY <1>9, TimersKnown
<1> QED
  BY <1>3, <1>4, <1>5, <1>6, <1>7, <1>8, <1>9
  DEF Next, BecomeStale, Drop, AlreadyArmed, StartPipeline, vars, roomVars

\* A grace timer that still runs can be stopped by a rejoin: graceTimers has it,
\* unless its room is closed or another callback is about to close it.
THEOREM RunningTimersKnown == Spec => []RunningTimerKnown
<1>1. Init => RunningTimerKnown
  BY DEF Init, RunningTimerKnown, At, Idle, Procs
<1> QED
  BY <1>1, AlwaysBorn, NextKnown, PTL DEF Spec

(***************************************************************************)
(* The life of a room and of a session.                                    *)
(*                                                                         *)
(* Each step of the service is a step of RoomLife or none.  The session    *)
(* that a JoinRoom has opened keeps its PeerConnection until it is         *)
(* registered, because nobody else holds it, and Room.Close only meets     *)
(* rooms that have been created.                                           *)
(***************************************************************************)
OpeningHasPeer == \A c \in Conns : proc[c].pc \in Opening => proc[c].sess \in peers

ShutBorn == \A a \in Admins : At(a, "shut") => Born(proc[a].room)

LifeInv == ApartInv /\ BornInv /\ OpeningHasPeer /\ ShutBorn

\* The only step that closes a PeerConnection of a session that is being opened
\* would be one of a LeaveRoom or of a deletion.
LEMMA NextOpening ==
  ASSUME ApartInv, OpeningHasPeer, [Next]_vars
  PROVE  OpeningHasPeer'
<1> USE DEF ApartInv
\* Nobody becomes an opener of a session, and openers' PeerConnections stay.
<1>1. ASSUME \A c \in Conns : proc'[c].pc \in Opening =>
               /\ proc[c].pc \in Opening /\ proc'[c].sess = proc[c].sess
               /\ proc[c].sess \in peers => proc[c].sess \in peers'
      PROVE  OpeningHasPeer'
  BY <1>1 DEF OpeningHasPeer
<1>2. ASSUME UNCHANGED peers, NEW c \in Conns, NEW l, Move(c, l), l.pc \notin Opening
      PROVE  OpeningHasPeer'
  BY <1>1, <1>2 DEF Move, TypeOK, ProcTypes, Procs
<1>3. ASSUME UNCHANGED peers, NEW c \in Conns, NEW l \in Labels, Goto(c, l), l \notin Opening
      PROVE  OpeningHasPeer'
  BY <1>1, <1>3, GotoStep DEF TypeOK, ProcTypes, Procs
<1>4. ASSUME UNCHANGED peers, \A c \in Conns : proc'[c] = proc[c] PROVE OpeningHasPeer'
  BY <1>1, <1>4
<1>5. ASSUME UNCHANGED peers, NEW p \in Admins \cup Timers, NEW l, Move(p, l)
      PROVE  OpeningHasPeer'
  BY <1>4, <1>5, ProcsAreDistinct DEF Move, TypeOK, ProcTypes, Procs
<1>6. ASSUME NEW c \in Conns, JoinStep(c) PROVE OpeningHasPeer'
  <2>0. c \in Procs /\ proc \in [Procs -> Locals] /\ proc[c] \in Locals
    BY DEF TypeOK, ProcTypes, Procs
  <2>1. ASSUME NEW r \in Rooms, NEW u \in Users, JoinFind(c, r, u) PROVE OpeningHasPeer'
    <3>1. [proc[c] EXCEPT !.pc = "admit", !.room = r, !.user = u].pc = "admit"
      BY <2>0 DEF Locals
    <3> QED
      BY <1>2, <2>1, <3>1 DEF JoinFind, sessionVars, Opening
  <2>2. CASE JoinAdmit(c)
    <3> DEFINE b == proc[c].user \in participants[proc[c].room]
    <3>1. [proc[c] EXCEPT !.pc = "collect", !.rejoin = b].pc = "collect"
      BY <2>0 DEF Locals
    <3> QED
      BY <1>2, <2>2, <3>1 DEF JoinAdmit, sessionVars, Opening
  <2>3. CASE JoinCollect(c)
    <3> DEFINE b == sessions \cap SessionsOf(proc[c].room)
    <3>1. [proc[c] EXCEPT !.pc = "cancel", !.batch = b].pc = "cancel"
      BY <2>0 DEF Locals
    <3> QED
      BY <1>2, <2>3, <3>1 DEF JoinCollect, sessionVars, Opening
  <2>4. CASE JoinCancel(c)
    <3>1. /\ UNCHANGED peers
          /\ proc'[c].pc \in {"resume", "create"}
          /\ \A d \in Conns \ {c} : proc'[d] = proc[d]
      BY <2>0, <2>4, ProcsAreDistinct DEF JoinCancel, sessionVars, Procs, Locals
    <3> QED
      BY <1>1, <3>1 DEF Opening
  <2>5. ASSUME NEW s \in Sessions, JoinCreate(c, s) PROVE OpeningHasPeer'
    <3>1. [proc[c] EXCEPT !.pc = "save", !.sess = s].sess = s
      BY <2>0 DEF Locals
    <3>2. /\ peers' = peers \cup {s} /\ proc'[c].sess = s
          /\ \A d \in Conns \ {c} : proc'[d] = proc[d]
      BY <2>0, <2>5, <3>1 DEF JoinCreate, Move, Procs
    <3> QED
      BY <3>2 DEF OpeningHasPeer
  <2>6. CASE JoinSave(c)
    <3>1. /\ UNCHANGED peers /\ proc[c].pc \in Opening /\ proc'[c].sess = proc[c].sess
          /\ \A d \in Conns \ {c} : proc'[d] = proc[d]
      BY <2>0, <2>6, GotoStep DEF JoinSave, At, sessionVars, Opening, Labels, JoinLabels, Procs
    <3> QED
      BY <1>1, <3>1
  <2>7. CASE JoinRefused(c) \/ JoinResume(c) \/ JoinAgain(c) \/ JoinCreateFails(c)
             \/ JoinRegister(c) \/ JoinTouch(c) \/ JoinFull(c) \/ JoinPair(c)
    <3>1. UNCHANGED peers
      BY <2>7
      DEF JoinRefused, JoinResume, JoinAgain, JoinCreateFails, JoinRegister, JoinTouch,
          JoinFull, JoinPair, sessionVars
    <3>2. Return(c) \/ \E l \in Labels \ Opening : Goto(c, l)
      BY <2>7
      DEF JoinRefused, JoinResume, JoinAgain, JoinCreateFails, JoinRegister, JoinTouch,
          JoinFull, JoinPair, BindAndReturn, Labels, JoinLabels, Opening
    <3> QED
      BY <1>2, <1>3, <3>1, <3>2 DEF Return, Idle, Opening
  <2> QED
    BY <1>6, <2>1, <2>2, <2>3, <2>4, <2>5, <2>6, <2>7 DEF JoinStep
<1>7. ASSUME NEW c \in Conns, LeaveStep(c) PROVE OpeningHasPeer'
  <2>0. c \in Procs /\ proc \in [Procs -> Locals] /\ proc[c] \in Locals
    BY DEF TypeOK, ProcTypes, Procs
  <2>1. CASE LeaveCall(c)
    <3> DEFINE s == bound[c]
    <3>1. [proc[c] EXCEPT !.pc = "find", !.room = owner[s][1], !.user = owner[s][2]].pc = "find"
      BY <2>0 DEF Locals
    <3> QED
      BY <1>2, <2>1, <3>1 DEF LeaveCall, sessionVars, Opening
  <2>2. CASE LeaveFind(c)
    <3> DEFINE s == lookup[Key(c)]
    <3>1. [proc[c] EXCEPT !.pc = "close", !.sess = s].pc = "close"
      BY <2>0 DEF Locals
    <3> QED
      BY <1>2, <2>2, <3>1 DEF LeaveFind, sessionVars, Return, Idle, Opening
  <2>3. CASE LeaveClose(c)
    <3>1. /\ proc[c].pc \in Holding /\ proc'[c].pc = "fetch" /\ peers' = peers \ {proc[c].sess}
          /\ \A d \in Conns \ {c} : proc'[d] = proc[d]
      BY <2>0, <2>3, GotoStep
      DEF LeaveClose, At, sessionVars, Holding, Labels, LeaveLabels, Procs
    <3> QED
      BY <1>1, <3>1 DEF OpenApart, Opening
  <2>4. CASE LeaveFetch(c) \/ LeaveLeave(c) \/ LeaveStore(c) \/ LeaveUnregister(c)
    <3>1. UNCHANGED peers
      BY <2>4 DEF LeaveFetch, LeaveLeave, LeaveStore, LeaveUnregister, sessionVars
    <3>2. Return(c) \/ \E l \in Labels \ Opening : Goto(c, l)
      BY <2>4
      DEF LeaveFetch, LeaveLeave, LeaveStore, LeaveUnregister, Labels, LeaveLabels, Opening
    <3> QED
      BY <1>2, <1>3, <3>1, <3>2 DEF Return, Idle, Opening
  <2> QED
    BY <1>7, <2>1, <2>2, <2>3, <2>4 DEF LeaveStep
<1>8. ASSUME NEW p \in Admins \cup Timers, DeleteStep(p) PROVE OpeningHasPeer'
  <2>1. CASE DeleteCleanup(p)
    <3>1. /\ peers \ sessions \subseteq peers'
          /\ \A c \in Conns : proc'[c] = proc[c]
      BY <2>1, ProcsAreDistinct DEF DeleteCleanup, Goto, Move, TypeOK, ProcTypes, Procs
    <3> QED
      BY <1>1, <3>1 DEF OpenApart
  <2> QED
    BY <1>5, <1>8, <2>1
    DEF DeleteStep, DeleteFind, DeleteShut, DeleteRemove, AfterDelete, Goto, sessionVars
<1>9. ASSUME NEW a \in Admins, AdminCall(a) PROVE OpeningHasPeer'
  BY <1>5, <1>9 DEF AdminCall, DeleteCall, SweepList, SweepNext, sessionVars
<1>10. ASSUME NEW t \in Timers, ArmTimer(t) \/ TimerStep(t) PROVE OpeningHasPeer'
  BY <1>5, <1>10
  DEF ArmTimer, TimerStep, Fire, GraceExpired, Notify, Goto, Return, sessionVars
<1> QED
  BY <1>4, <1>6, <1>7, <1>8, <1>9, <1>10
  DEF Next, CreateRoom, BecomeStale, Drop, AlreadyArmed, StartPipeline, vars, sessionVars

\* A handler or the sweep comes to Room.Close with a room of the repository.
LEMMA NextShutBorn ==
  ASSUME TypeOK, BornInv, ShutBorn, [Next]_vars
  PROVE  ShutBorn'
<1>1. ASSUME Grows,
             \A a \in Admins : At(a, "shut")' =>
               \/ At(a, "shut") /\ proc'[a].room = proc[a].room
               \/ proc'[a].room \in repo
      PROVE  ShutBorn'
  <2> SUFFICES ASSUME NEW a \in Admins, At(a, "shut")' PROVE Born(proc[a].room)'
    BY DEF ShutBorn
  <2>1. proc'[a].room \in Rooms /\ Born(proc'[a].room)
    BY <1>1 DEF ShutBorn, BornInv, RoomsKnown, TypeOK, ProcTypes, AdminOK, RoomTypes, At
  <2> QED
    BY <1>1, <2>1 DEF Grows, Born
<1>2. ASSUME UNCHANGED status, \A a \in Admins : proc'[a] = proc[a] PROVE ShutBorn'
  BY <1>1, <1>2 DEF Grows, At
<1>3. ASSUME UNCHANGED status, NEW p \in Conns \cup Timers, NEW l, Move(p, l) PROVE ShutBorn'
  BY <1>2, <1>3, ProcsAreDistinct DEF Move, TypeOK, ProcTypes, Procs
<1>4. ASSUME NEW c \in Conns, JoinStep(c) PROVE ShutBorn'
  <2>1. CASE JoinCancel(c)
    <3>1. UNCHANGED status /\ \A a \in Admins : proc'[a] = proc[a]
      BY <2>1, ProcsAreDistinct DEF JoinCancel, roomVars, Procs
    <3> QED
      BY <1>2, <3>1
  <2> QED
    BY <1>3, <1>4, <2>1
    DEF JoinStep, JoinFind, JoinRefused, JoinAdmit, JoinCollect, JoinResume, JoinAgain,
        JoinCreate, JoinCreateFails, JoinSave, JoinRegister, JoinTouch, JoinFull, JoinPair,
        BindAndReturn, Goto, Return, roomVars
<1>5. ASSUME NEW c \in Conns, LeaveStep(c) PROVE ShutBorn'
  BY <1>3, <1>5
  DEF LeaveStep, LeaveCall, LeaveFind, LeaveClose, LeaveFetch, LeaveLeave, LeaveStore,
      LeaveUnregister, Goto, Return, roomVars
<1>6. ASSUME NEW a \in Admins, AdminCall(a) PROVE ShutBorn'
  <2>0. UNCHANGED status /\ a \in Procs /\ proc \in [Procs -> Locals] /\ proc[a] \in Locals
    BY <1>6 DEF AdminCall, DeleteCall, SweepList, SweepNext, roomVars, TypeOK, ProcTypes, Procs
  <2>1. ASSUME NEW r \in Rooms, DeleteCall(a, r) PROVE ShutBorn'
    <3>1. proc'[a].room = r /\ r \in repo /\ \A b \in Admins \ {a} : proc'[b] = proc[b]
      BY <2>0, <2>1 DEF DeleteCall, Move, Locals, Procs
    <3> QED
      BY <1>1, <2>0, <3>1 DEF Grows, At
  <2>2. CASE SweepList(a)
    <3>1. proc'[a].pc = "idle" /\ \A b \in Admins \ {a} : proc'[b] = proc[b]
      BY <2>0, <2>2 DEF SweepList, At, Move, Locals, Procs
    <3> QED
      BY <1>1, <2>0, <3>1 DEF Grows, At
  <2>3. CASE SweepNext(a)
    <3>1. proc'[a].pc = "lookFor" /\ \A b \in Admins \ {a} : proc'[b] = proc[b]
      BY <2>0, <2>3 DEF SweepNext, Move, Locals, Procs
    <3> QED
      BY <1>1, <2>0, <3>1 DEF Grows, At
  <2> QED
    BY <1>6, <2>1, <2>2, <2>3 DEF AdminCall
<1>7. ASSUME NEW p \in Admins \cup Timers, DeleteStep(p) PROVE ShutBorn'
  <2>0. /\ p \in Procs /\ proc \in [Procs -> Locals] /\ proc[p].room \in Rooms
        /\ \A q \in Procs \ {p} : proc'[q] = proc[q]
    BY <1>7, RoomOfDelete
    DEF TypeOK, DeleteStep, DeleteFind, DeleteShut, DeleteCleanup, DeleteRemove, AfterDelete,
        Goto, Move, Procs, ProcTypes, At
  <2>1. Grows
    BY <1>7, <2>0
    DEF DeleteStep, DeleteFind, DeleteShut, DeleteCleanup, DeleteRemove, roomVars, Grows, TypeOK,
        RoomTypes
  <2>2. AfterDelete(p) => ~At(p, "shut")'
    <3>1. CASE Goto(p, "notify")
      BY <2>0, <3>1, GotoStep DEF At, Labels, TimerLabels
    <3>2. CASE Move(p, [Idle EXCEPT !.todo = proc[p].todo])
      BY <2>0, <3>2 DEF Move, At, Idle
    <3> QED
      BY <3>1, <3>2 DEF AfterDelete
  <2>3. At(p, "shut")' => proc[p].room \in repo /\ proc'[p].room = proc[p].room
    BY <1>7, <2>0, <2>2, GotoStep
    DEF DeleteStep, DeleteFind, DeleteShut, DeleteCleanup, DeleteRemove, At, Labels, DeleteLabels
  <2> QED
    BY <1>1, <2>0, <2>1, <2>3 DEF Procs, At
<1>8. ASSUME NEW t \in Timers, ArmTimer(t) \/ TimerStep(t) PROVE ShutBorn'
  BY <1>3, <1>8 DEF ArmTimer, TimerStep, Fire, GraceExpired, Notify, Goto, Return, roomVars
<1>9. ASSUME NEW r \in Rooms, CreateRoom(r) PROVE ShutBorn'
  BY <1>1, <1>9 DEF CreateRoom, Grows, TypeOK, RoomTypes, At
<1> QED
  BY <1>2, <1>4, <1>5, <1>6, <1>7, <1>8, <1>9
  DEF Next, BecomeStale, Drop, AlreadyArmed, StartPipeline, vars, roomVars

LEMMA AlwaysLife == Spec => []LifeInv
<1>1. Init => OpeningHasPeer /\ ShutBorn
  BY DEF Init, OpeningHasPeer, ShutBorn, Opening, At, Idle, Procs
<1>2. ApartInv /\ OpeningHasPeer /\ [Next]_vars => OpeningHasPeer'
  BY NextOpening
<1>3. TypeOK /\ BornInv /\ ShutBorn /\ [Next]_vars => ShutBorn'
  BY NextShutBorn
<1> QED
  BY <1>1, <1>2, <1>3, AlwaysApart, AlwaysBorn, PTL DEF Spec, LifeInv

Stages == [s \in Sessions |-> Stage(s)]

LifeStep == [Life!Next]_Life!lvars

LEMMA LifeStutter ==
  ASSUME UNCHANGED <<status, participants, owner, sessions, peers>>
  PROVE  LifeStep
<1>1. Stages' = Stages
  BY DEF Stages, Stage, Created
<1> QED
  BY <1>1 DEF LifeStep, Life!lvars, Stages

\* One session goes on to another stage.
LEMMA OneStage ==
  ASSUME NEW s \in Sessions, \A q \in Sessions \ {s} : Stage(q)' = Stage(q)
  PROVE  Stages' = [Stages EXCEPT ![s] = Stage(s)']
BY DEF Stages

LEMMA LifeAdvances ==
  ASSUME NEW s \in Sessions, UNCHANGED <<status, participants, owner>>,
         \A q \in Sessions \ {s} : (q \in sessions' <=> q \in sessions) /\ (q \in peers' <=> q \in peers),
         \/ Stage(s)' = Stage(s)
         \/ Stage(s) = "open" /\ Stage(s)' = "live"
         \/ Stage(s) = "live" /\ Stage(s)' = "closing"
         \/ Stage(s) = "closing" /\ Stage(s)' = "gone"
  PROVE  LifeStep
<1>1. \A q \in Sessions \ {s} : Stage(q)' = Stage(q)
  BY DEF Stage, Created
<1>2. Stages' = [Stages EXCEPT ![s] = Stage(s)'] /\ Stages[s] = Stage(s)
  BY <1>1, OneStage DEF Stages
<1>3. CASE Stage(s)' = Stage(s)
  <2>1. Stages' = Stages
    BY <1>1, <1>3 DEF Stages
  <2> QED
    BY <2>1 DEF LifeStep, Life!lvars, Stages
<1>4. CASE Stage(s) = "open" /\ Stage(s)' = "live"
  <2>1. Life!Register(s)
    BY <1>2, <1>4 DEF Life!Register, Life!Advance, Stages
  <2> QED
    BY <2>1 DEF LifeStep, Life!Next
<1>5. CASE Stage(s) = "live" /\ Stage(s)' = "closing"
  <2>1. Life!HangUp(s)
    BY <1>2, <1>5 DEF Life!HangUp, Life!Advance, Stages
  <2> QED
    BY <2>1 DEF LifeStep, Life!Next
<1>6. CASE Stage(s) = "closing" /\ Stage(s)' = "gone"
  <2>1. Life!Forget(s)
    BY <1>2, <1>6 DEF Life!Forget, Life!Advance, Stages
  <2> QED
    BY <2>1 DEF LifeStep, Life!Next
<1> QED
  BY <1>3, <1>4, <1>5, <1>6

\* Room.Join and Room.Leave: one user comes, goes or stays.
LEMMA LifePlace ==
  ASSUME TypeOK, NEW r \in Rooms, NEW u \in Users,
         UNCHANGED <<status, owner, sessions, peers>>,
         \/ /\ status[r] = "active"
            /\ u \notin participants[r] => Cardinality(participants[r]) < Capacity
            /\ participants' = [participants EXCEPT ![r] = @ \cup {u}]
         \/ participants' = [participants EXCEPT ![r] = @ \ {u}]
         \/ participants' = participants
  PROVE  LifeStep
<1>1. Stages' = Stages
  BY DEF Stages, Stage, Created
<1>2. CASE participants' = participants
  BY <1>2, LifeStutter
<1>3. CASE /\ status[r] = "active" /\ u \notin participants[r]
           /\ Cardinality(participants[r]) < Capacity
           /\ participants' = [participants EXCEPT ![r] = @ \cup {u}]
  <2>1. Life!Cardinality(participants[r]) = Cardinality(participants[r])
    BY DEF Life!Cardinality, Cardinality, Life!IsFiniteSet, IsFiniteSet
  <2>2. Life!Enter(r, u)
    BY <1>1, <1>3, <2>1 DEF Life!Enter, Stages
  <2> QED
    BY <2>2 DEF LifeStep, Life!Next
<1>4. CASE u \in participants[r] /\ participants' = [participants EXCEPT ![r] = @ \ {u}]
  <2>1. Life!Exit(r, u)
    BY <1>1, <1>4 DEF Life!Exit, Stages
  <2> QED
    BY <2>1 DEF LifeStep, Life!Next
<1>5. ASSUME u \in participants[r], participants' = [participants EXCEPT ![r] = @ \cup {u}]
      PROVE  participants' = participants
  BY <1>5 DEF TypeOK, RoomTypes
<1>6. ASSUME u \notin participants[r], participants' = [participants EXCEPT ![r] = @ \ {u}]
      PROVE  participants' = participants
  BY <1>6 DEF TypeOK, RoomTypes
<1> QED
  BY <1>2, <1>3, <1>4, <1>5, <1>6

LEMMA JoinRefines ==
  ASSUME LifeInv, NEW c \in Conns, JoinStep(c)
  PROVE  LifeStep
<1> USE DEF LifeInv, ApartInv, At
<1>1. ASSUME JoinAdmit(c) \/ JoinAgain(c) \/ JoinCreateFails(c) PROVE LifeStep
  <2> DEFINE r == proc[c].room
             u == proc[c].user
  <2>1. r \in Rooms /\ u \in Users /\ UNCHANGED <<status, owner, sessions, peers>>
    BY <1>1, InCall DEF JoinAdmit, JoinAgain, JoinCreateFails, sessionVars
  <2>2. CASE JoinAdmit(c)
    BY <2>1, <2>2, LifePlace DEF JoinAdmit
  <2>3. CASE JoinAgain(c)
    <3>1. CASE status[r] = "active" /\ Cardinality(participants[r]) < Capacity
      <4>1. participants' = [participants EXCEPT ![r] = @ \cup {u}]
        BY <2>3, <3>1 DEF JoinAgain
      <4> QED
        BY <2>1, <3>1, <4>1, LifePlace
    <3>2. CASE ~(status[r] = "active" /\ Cardinality(participants[r]) < Capacity)
      <4>1. participants' = participants
        BY <2>3, <3>2 DEF JoinAgain, TypeOK, RoomTypes
      <4> QED
        BY <2>1, <4>1, LifePlace
    <3> QED
      BY <3>1, <3>2
  <2>4. CASE JoinCreateFails(c)
    <3>1. \/ participants' = [participants EXCEPT ![r] = @ \ {u}]
          \/ participants' = participants
      BY <2>4 DEF JoinCreateFails, TypeOK, RoomTypes
    <3> QED
      BY <2>1, <3>1, LifePlace
  <2> QED
    BY <1>1, <2>2, <2>3, <2>4
<1>2. ASSUME NEW s \in Sessions, JoinCreate(c, s) PROVE LifeStep
  <2> DEFINE r == proc[c].room
             u == proc[c].user
  <2>1. /\ r \in Rooms /\ u \in Users /\ Born(r) /\ Key(c) = <<r, u>> /\ Key(c) # None
    BY <1>2, InCall, NoneIsNothing DEF JoinCreate, BornInv, CallBorn
  <2>2. /\ owner' = [owner EXCEPT ![s] = <<r, u>>] /\ peers' = peers \cup {s}
        /\ UNCHANGED <<status, participants, sessions>> /\ owner[s] = None
    BY <1>2 DEF JoinCreate, roomVars, Key
  <2>3. s \notin sessions /\ owner'[s] # None /\ \A q \in Sessions \ {s} : owner'[q] = owner[q]
    BY <2>1, <2>2 DEF TypeOK, SessionTypes, Created
  <2>4. Stage(s) = "none" /\ Stage(s)' = "open"
    <3>1. /\ s \notin Created /\ s \notin peers /\ s \notin sessions
          /\ s \in Created' /\ s \in peers' /\ s \notin sessions'
      BY <2>2, <2>3 DEF Created, TypeOK, SessionTypes
    <3> QED
      BY <3>1 DEF Stage
  <2>5. \A q \in Sessions \ {s} : Stage(q)' = Stage(q)
    BY <2>2, <2>3 DEF Stage, Created
  <2>6. Stages' = [Stages EXCEPT ![s] = "open"] /\ Stages[s] = "none"
    BY <2>4, <2>5, OneStage DEF Stages
  <2>7. Life!Begin(s, r, u)
    BY <2>1, <2>2, <2>6 DEF Life!Begin, Stages, Born
  <2> QED
    BY <2>1, <2>7 DEF LifeStep, Life!Next
<1>3. CASE JoinRegister(c)
  <2>0. PICK s : s = proc[c].sess
    OBVIOUS
  <2>1. /\ proc[c].pc \in Opening /\ proc[c].pc \in Holding
        /\ sessions' = sessions \cup {s}
        /\ UNCHANGED <<status, participants, owner, peers>>
    BY <1>3, <2>0 DEF JoinRegister, roomVars, Opening, Holding
  <2>2. s \in Created /\ s \in Sessions /\ s \in peers /\ s \notin sessions
    BY <2>0, <2>1 DEF OpeningHasPeer, OpenApart, TypeOK, ProcTypes, ConnOK, Created
  <2>3. Stage(s) = "open" /\ Stage(s)' = "live"
    BY <2>1, <2>2 DEF Stage, Created
  <2> QED
    BY <2>1, <2>2, <2>3, LifeAdvances
<1> QED
  BY <1>1, <1>2, <1>3, LifeStutter
  DEF JoinStep, JoinFind, JoinRefused, JoinCollect, JoinCancel, JoinResume, JoinSave,
      JoinTouch, JoinFull, JoinPair, roomVars, sessionVars

LEMMA LeaveRefines ==
  ASSUME LifeInv, NEW c \in Conns, LeaveStep(c)
  PROVE  LifeStep
<1> USE DEF LifeInv, ApartInv, At
<1>0. PICK s : s = proc[c].sess
  OBVIOUS
<1>1. CASE LeaveLeave(c)
  <2>1. /\ proc[c].room \in Rooms /\ proc[c].user \in Users
        /\ UNCHANGED <<status, owner, sessions, peers>>
    BY <1>1, InCall DEF LeaveLeave, sessionVars
  <2> QED
    BY <1>1, <2>1, LifePlace DEF LeaveLeave
<1>2. CASE LeaveClose(c)
  <2>1. /\ proc[c].pc = "close" /\ proc[c].pc \in Holding /\ peers' = peers \ {s}
        /\ UNCHANGED <<status, participants, owner, sessions>>
    BY <1>0, <1>2 DEF LeaveClose, roomVars, Holding
  <2>2. s \in Created /\ s \in Sessions
    BY <1>0, <2>1 DEF TypeOK, ProcTypes, ConnOK, Created
  <2>3. s \in peers => s \in sessions
    <3>1. ~ \E d \in Conns : proc[d].pc \in Opening /\ proc[d].sess = s
      BY <1>0, <2>1 DEF OpenApart, Opening
    <3> QED
      BY <3>1 DEF SessionInv, NoStrayPeer, Opening
  <2>4. Stage(s)' = Stage(s) \/ (Stage(s) = "live" /\ Stage(s)' = "closing")
    BY <2>1, <2>2, <2>3 DEF Stage, Created
  <2> QED
    BY <2>1, <2>2, <2>4, LifeAdvances
<1>3. CASE LeaveUnregister(c)
  <2>1. /\ proc[c].pc \in Leaving /\ proc[c].pc \in Holding /\ sessions' = sessions \ {s}
        /\ UNCHANGED <<status, participants, owner, peers>>
    BY <1>0, <1>3 DEF LeaveUnregister, roomVars, Leaving, Holding
  <2>2. s \in Created /\ s \in Sessions /\ s \notin peers
    BY <1>0, <2>1 DEF SessionInv, LeavingClosed, TypeOK, ProcTypes, ConnOK, Created
  <2>3. Stage(s)' = Stage(s) \/ (Stage(s) = "closing" /\ Stage(s)' = "gone")
    BY <2>1, <2>2 DEF Stage, Created
  <2> QED
    BY <2>1, <2>2, <2>3, LifeAdvances
<1> QED
  BY <1>1, <1>2, <1>3, LifeStutter
  DEF LeaveStep, LeaveCall, LeaveFind, LeaveFetch, LeaveStore, roomVars, sessionVars

LEMMA DeleteRefines ==
  ASSUME LifeInv, NEW p \in Admins \cup Timers, DeleteStep(p)
  PROVE  LifeStep
<1> USE DEF LifeInv, ApartInv, At
<1> DEFINE r == proc[p].room
<1>1. CASE DeleteShut(p)
  <2>1. /\ status' = [status EXCEPT ![r] = "closed"]
        /\ participants' = [participants EXCEPT ![r] = {}]
        /\ UNCHANGED <<owner, sessions, peers>>
        /\ proc[p].pc = "shut" /\ r \in Rooms
    BY <1>1, RoomOfDelete DEF DeleteShut, sessionVars, TypeOK
  <2>2. status[r] \in {"active", "closed"}
    BY <2>1 DEF ShutBorn, BornInv, TimerBorn, Born, TypeOK, RoomTypes
  <2>3. CASE status[r] = "active"
    <3>1. Stages' = Stages
      BY <2>1 DEF Stages, Stage, Created
    <3>2. Life!CloseRoom(r)
      BY <2>1, <2>3, <3>1 DEF Life!CloseRoom, Stages
    <3> QED
      BY <2>1, <3>2 DEF LifeStep, Life!Next
  <2>4. CASE status[r] = "closed"
    <3>1. participants[r] = {}
      BY <2>1, <2>4 DEF PlacesBounded, RoomDiscipline
    <3>2. status' = status /\ participants' = participants
      BY <2>1, <2>4, <3>1 DEF TypeOK, RoomTypes
    <3> QED
      BY <2>1, <3>2, LifeStutter
  <2> QED
    BY <2>2, <2>3, <2>4
<1>2. CASE DeleteCleanup(p)
  <2> DEFINE gone == {s \in sessions : \E u \in Users : lookup[<<r, u>>] = s}
  <2>1. /\ r \in Rooms /\ status[r] = "closed"
        /\ peers' = peers \ gone /\ sessions' = sessions \ gone
        /\ UNCHANGED <<status, participants, owner>>
    BY <1>2, RoomOfDelete DEF DeleteCleanup, roomVars, ShutIsClosed, TypeOK
  <2>2. \A s \in gone : owner[s][1] = r
    <3> SUFFICES ASSUME NEW u \in Users, lookup[<<r, u>>] \in sessions
                 PROVE  owner[lookup[<<r, u>>]][1] = r
      OBVIOUS
    <3>1. lookup[<<r, u>>] # None
      BY NoneIsNothing DEF TypeOK, SessionTypes, Created
    <3> QED
      BY <2>1, <3>1 DEF SessionInv, LookupSound
  <2>3. gone \subseteq sessions /\ sessions \subseteq Created /\ Created' = Created
    BY <2>1 DEF TypeOK, SessionTypes, Created
  <2> HIDE DEF gone
  <2>4. \A s \in gone : Stage(s) \in {"live", "closing"} /\ Stage(s)' = "gone"
    BY <2>1, <2>3 DEF Stage
  <2>5. \A s \in Sessions \ gone : Stage(s)' = Stage(s)
    BY <2>1, <2>3 DEF Stage
  <2>6. Stages' = [s \in Sessions |-> IF s \in gone THEN "gone" ELSE Stages[s]]
    BY <2>4, <2>5 DEF Stages
  <2>7. gone \in SUBSET {s \in Sessions : Stages[s] \in {"live", "closing"} /\ owner[s][1] = r}
    BY <2>2, <2>3, <2>4 DEF Created, Stages
  <2>8. Life!EndCalls(r)
    BY <2>1, <2>6, <2>7 DEF Life!EndCalls, Stages
  <2> QED
    BY <2>1, <2>8 DEF LifeStep, Life!Next
<1> QED
  BY <1>1, <1>2, LifeStutter DEF DeleteStep, DeleteFind, DeleteRemove, roomVars, sessionVars

LEMMA NextRefines ==
  ASSUME LifeInv, [Next]_vars
  PROVE  LifeStep
<1>1. ASSUME NEW r \in Rooms, CreateRoom(r) PROVE LifeStep
  <2>1. Stages' = Stages
    BY <1>1 DEF CreateRoom, sessionVars, Stages, Stage, Created
  <2>2. Life!MakeRoom(r)
    BY <1>1, <2>1 DEF CreateRoom, sessionVars, Life!MakeRoom, Stages
  <2> QED
    BY <2>2 DEF LifeStep, Life!Next
<1>2. ASSUME NEW c \in Conns, JoinStep(c) \/ LeaveStep(c) PROVE LifeStep
  BY <1>2, JoinRefines, LeaveRefines
<1>3. ASSUME NEW p \in Admins \cup Timers, DeleteStep(p) PROVE LifeStep
  BY <1>3, DeleteRefines
<1> QED
  BY <1>1, <1>2, <1>3, LifeStutter
  DEF Next, BecomeStale, Drop, AdminCall, DeleteCall, SweepList, SweepNext, ArmTimer, TimerStep,
      Fire, GraceExpired, Notify, AlreadyArmed, StartPipeline, vars, roomVars, sessionVars

\* The room service implements RoomLife, for any number of connections, handlers
\* and timers: a room that is full lets nobody in, a closed room stays closed,
\* and a session goes through its stages once and in order, is never forgotten
\* with its PeerConnection open, and is cut off by others only in a closed room.
THEOREM Implements == Spec => Refinement
<1>1. Init => Life!Init
  BY DEF Init, Life!Init, Stage, Created
<1>2. LifeInv /\ [Next]_vars => LifeStep
  BY NextRefines
<1> QED
  BY <1>1, <1>2, AlwaysLife, PTL DEF Spec, Refinement, Life!Spec, LifeStep
=============================================================================
