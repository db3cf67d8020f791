--------------------------- MODULE ShutdownProofs ---------------------------
(***************************************************************************)
(* For every set of connections and every grace and mercy period: the      *)
(* stages come in order and in time, I/O is not cut short, no sleeping     *)
(* task misses a stage, both servers are joined, and launch() returns Ok   *)
(* only as the sole owner.                                                 *)
(*                                                                         *)
(* The conjuncts of IInv are preserved one after the other, each with the  *)
(* help of the earlier ones.                                               *)
(***************************************************************************)
EXTENDS Shutdown, TLAPS

\* The steps of a task, and those that begin one: nothing else is touched.
ConnStep(c) == Poll(c) \/ Wake(c)
Arrive(c) == Accept(c) \/ \E q \in Quic : StreamComes(q, c)

\* The steps of launch() and of the accept loops
LaunchStep ==
    \/ \E ok \in BOOLEAN : Liftoff(ok)
    \/ \E server \in Servers : StopServing(server) \/ Panic(server)
    \/ EndpointCloses \/ Join \/ Wait

\* A step is a tick, or one of the actions of the tasks.
LEMMA StepCases ==
    ASSUME Next
    PROVE  \/ Tick \/ Notify \/ Signal \/ NoticeStart \/ GraceElapsed \/ MercyElapsed
           \/ LaunchStep \/ FairingsEnd
           \/ (\E c \in Conns : Arrive(c)) \/ (\E c \in Conns : ConnStep(c))
           \/ UNCHANGED vars
  BY DEF Next, Others, Stager, Launcher, LaunchStep, ConnStep, Arrive, Conns, Done

\* Become() with a record of the right type
LEMMA BecomeSets ==
    ASSUME TypeOK, NEW c \in Conns, NEW task, Become(c, task), task \in Conn,
           task.pc \notin {"none"}, task.pc = "closed" => ~task.woken /\ task.wakers = {}
    PROVE  /\ UNCHANGED <<tripped, age, late, stager, launch, fairings>>
           /\ conn'[c] = task
           /\ conn' = [conn EXCEPT ![c] = conn'[c]]
           /\ conn'[c] \in Conn /\ conn'[c].pc # "none"
           /\ conn'[c].pc = "closed" => ~conn'[c].woken /\ conn'[c].wakers = {}
  BY DEF TypeOK, Become

\* The record of a task that has ended
LEMMA ClosedIsConn ==
    ASSUME NEW why \in {"ended", "cancelled", "timed out"}
    PROVE  Closed(why) \in Conn /\ Closed(why).pc = "closed" /\ ~Closed(why).woken
           /\ Closed(why).wakers = {}
           /\ Closed(why).why = why /\ Closed(why).state = "Active"
  BY DEF Closed, NoConn, Conn, Pcs, States, IoPcs, QuicPcs, Stages

\* The record of a task that begins
LEMMA ArriveSets ==
    ASSUME TypeOK, NEW c \in Conns, Arrive(c)
    PROVE  /\ UNCHANGED <<tripped, age, late, stager, launch, fairings>>
           /\ conn[c].pc = "none" /\ conn' = [conn EXCEPT ![c] = conn'[c]]
           /\ conn'[c] \in Conn /\ conn'[c].pc \notin {"none", "closed"}
           /\ conn'[c].woken /\ conn'[c].state = "Active" /\ conn'[c].why = "open"
           /\ launch.loops # {} \/ \E q \in Conns : conn[q].pc = "accept"
  <1> DEFINE quic == [NoConn EXCEPT !.pc = "service", !.woken = TRUE]
  <1>1. /\ Accepted \in Conn /\ Accepted.pc = "connect" /\ Accepted.woken
        /\ Accepted.state = "Active" /\ Accepted.why = "open"
    BY DEF Accepted, NoConn, Conn, Pcs, States, Stages
  <1>2. quic \in Conn /\ quic.pc = "service" /\ quic.woken /\ quic.state = "Active" /\ quic.why = "open"
    BY DEF NoConn, Conn, Pcs, States, Stages, QuicPcs
  <1> HIDE DEF quic
  <1>3. CASE Accept(c)
    BY <1>1, <1>3 DEF Accept, TypeOK
  <1>4. CASE \E q \in Quic : StreamComes(q, c)
    <2>1. /\ Become(c, quic) /\ conn[c].pc = "none"
          /\ \E q \in Conns : conn[q].pc = "accept"
      BY <1>4 DEF StreamComes, quic, Conns
    <2> QED BY <1>2, <2>1 DEF Become, TypeOK
  <1> QED BY <1>3, <1>4 DEF Arrive

\* The loop of poll_with() stops in one of its states.
LEMMA StateNowIsState ==
    ASSUME NEW state PROVE StateNow(state) \in States
  BY DEF StateNow, States

\* Every task waits for some stage.
LEMMA DueIsStage ==
    ASSUME NEW task \in Conn PROVE Due(task) \in Stages
  <1>1. task.state \in States
    BY DEF Conn
  <1>2. Awaits[task.state] \in Stages
    BY <1>1 DEF States, Awaits, Stages
  <1> QED BY <1>2 DEF Due, Stages

\* A poll replaces the record of one connection by a record and leaves all the
\* other variables alone.
LEMMA PollIsBecome ==
    ASSUME TypeOK, NEW c \in Conns, ConnStep(c)
    PROVE  /\ UNCHANGED <<tripped, age, late, stager, launch, fairings>>
           /\ conn[c].pc \notin {"none", "closed"}
           /\ conn' = [conn EXCEPT ![c] = conn'[c]]
           /\ conn'[c] \in Conn /\ conn'[c].pc # "none"
           /\ conn'[c].pc = "closed" => ~conn'[c].woken /\ conn'[c].wakers = {}
  <1> DEFINE now == StateNow(conn[c].state)
  <1>0. conn[c] \in Conn /\ now \in States /\ Awaits[now] \in Stages /\ Raced(c) \subseteq Stages
    BY StateNowIsState DEF TypeOK, States, Awaits, Stages, Raced
  <1> HIDE DEF now
  <1>1. CASE Connect(c)
    <2> DEFINE pc == IF c \in Quic THEN "accept" ELSE "idle"
               up == [conn[c] EXCEPT !.pc = pc]
               asleep == [conn[c] EXCEPT !.woken = FALSE, !.wakers = {"start"}]
    <2>1. pc \in {"accept", "idle"}
      OBVIOUS
    <2>2. up \in Conn /\ up.pc = pc
      <3> HIDE DEF pc
      <3> QED BY <1>0, <2>1 DEF Conn, Pcs, IoPcs, QuicPcs
    <2>3. asleep \in Conn /\ asleep.pc = conn[c].pc
      BY <1>0 DEF Conn, Stages
    <2>4. /\ conn[c].pc = "connect"
          /\ Become(c, up) \/ Become(c, Closed("ended")) \/ Become(c, asleep)
      BY <1>1 DEF Connect
    <2> HIDE DEF pc, up, asleep
    <2> QED
      BY <2>1, <2>2, <2>3, <2>4, BecomeSets, ClosedIsConn
  <1>2. CASE IoDone(c)
    <2> DEFINE next == CASE conn[c].pc \in {"idle", "body"} -> "handler"
                         [] conn[c].graceful -> "closing"
                         [] OTHER -> "idle"
               task == [conn[c] EXCEPT !.state = now, !.wakers = @ \cup {Awaits[now]}, !.pc = next]
    <2>1. next \in {"handler", "closing", "idle"}
      BY <1>0 DEF Conn
    <2>2. task \in Conn /\ task.pc = next
      <3> HIDE DEF next
      <3> QED BY <1>0, <2>1 DEF Conn, Pcs, IoPcs
    <2>3. Become(c, IF conn[c].pc = "closing" THEN Closed("ended") ELSE task)
      BY <1>2 DEF IoDone, now
    <2>4. conn[c].pc \notin {"none", "closed"}
      BY <1>2 DEF IoDone, IoPcs
    <2> HIDE DEF task, next
    <2> QED
      BY <2>1, <2>2, <2>3, <2>4, BecomeSets, ClosedIsConn
  <1>3. CASE IoFails(c)
    BY <1>0, <1>3, BecomeSets, ClosedIsConn DEF IoFails, IoPcs, Served
  <1>4. CASE IoPends(c)
    <2> DEFINE pc == IF conn[c].pc = "idle" THEN "closing" ELSE conn[c].pc
               again == [conn[c] EXCEPT !.state = now, !.graceful = TRUE, !.pc = pc]
               asleep == [conn[c] EXCEPT !.state = now, !.woken = FALSE,
                                         !.wakers = @ \cup {Awaits[now]} \cup Raced(c)]
    <2>1. conn[c].pc \in Served /\ pc \in Served
      BY <1>4 DEF IoPends, IoPcs, Served
    <2>2. again \in Conn /\ again.pc = pc
      <3> HIDE DEF pc
      <3> QED BY <1>0, <2>1 DEF Conn, Pcs, Served
    <2>3. asleep \in Conn /\ asleep.pc = conn[c].pc
      BY <1>0 DEF Conn
    <2>4. Become(c, IF tripped["start"] /\ ~conn[c].graceful THEN again ELSE asleep)
      BY <1>4 DEF IoPends, now
    <2> HIDE DEF again, asleep, pc
    <2> QED
      BY <2>1, <2>2, <2>3, <2>4, BecomeSets DEF IoPcs, Served
  <1>5. CASE IoCancelled(c)
    <2> DEFINE asleep == [conn[c] EXCEPT !.state = "Mercy", !.graceful = TRUE, !.woken = FALSE,
                                         !.wakers = @ \cup {"mercy"}]
    <2>1. asleep \in Conn /\ asleep.pc = conn[c].pc
      BY <1>0 DEF Conn, Stages, States
    <2>2. conn[c].pc \notin {"none", "closed"}
      BY <1>5 DEF IoCancelled, IoPcs, Served
    <2>3. Become(c, Closed("cancelled")) \/ Become(c, asleep)
      BY <1>5 DEF IoCancelled
    <2> HIDE DEF asleep
    <2> QED
      BY <2>1, <2>2, <2>3, BecomeSets, ClosedIsConn
  <1>6. CASE IoTimesOut(c)
    BY <1>0, <1>6, BecomeSets, ClosedIsConn DEF IoTimesOut, IoPcs, Served
  <1>7. CASE HandlerReturns(c)
    BY <1>0, <1>7, BecomeSets DEF HandlerReturns, Conn, Pcs, IoPcs
  <1>8. CASE QuicReady(c)
    <2>1. [conn[c] EXCEPT !.pc = "sending"] \in Conn
      BY <1>0 DEF Conn, Pcs, QuicPcs
    <2>2. [conn[c] EXCEPT !.pc = "sending"].pc = "sending"
      BY <1>0 DEF Conn
    <2> QED
      BY <1>8, <2>1, <2>2, BecomeSets, ClosedIsConn DEF QuicReady, QuicPcs
  <1>10. CASE QuicPends(c)
    <2> DEFINE stage == Due(conn[c])
               asleep == [conn[c] EXCEPT !.woken = FALSE, !.wakers = @ \cup {stage}]
    <2>1. stage \in Stages
      BY <1>0, DueIsStage
    <2>2. Ends(stage) \in {"ended", "cancelled", "timed out"}
      BY <2>1 DEF Stages, Ends
    <2>3. /\ conn[c].pc \in QuicPcs
          /\ Become(c, IF tripped[stage] THEN Closed(Ends(stage)) ELSE asleep)
      BY <1>10 DEF QuicPends
    <2> HIDE DEF stage
    <2>4. asleep \in Conn /\ asleep.pc = conn[c].pc
      BY <1>0, <2>1 DEF Conn
    <2> HIDE DEF asleep
    <2> QED
      BY <2>2, <2>3, <2>4, BecomeSets, ClosedIsConn DEF QuicPcs
  <1>9. CASE Wake(c)
    BY <1>0, <1>9, BecomeSets DEF Wake, Conn
  <1> QED
    BY <1>1, <1>2, <1>3, <1>4, <1>5, <1>6, <1>7, <1>8, <1>9, <1>10 DEF ConnStep, Poll, IoPoll, QuicPoll

-----------------------------------------------------------------------------
\* Trip() changes only flags and wake-ups.
LEMMA TripIsTyped ==
    ASSUME TypeOK, NEW s \in Stages, Trip(s)
    PROVE  /\ tripped' \in [Stages -> BOOLEAN]
           /\ conn' \in [Conns -> Conn]
           /\ \A c \in Conns : /\ conn'[c].pc = conn[c].pc /\ conn'[c].state = conn[c].state
                               /\ conn'[c].why = conn[c].why
                               /\ conn'[c].graceful = conn[c].graceful
                               /\ s \in conn[c].wakers => conn'[c].woken
                               /\ s \notin conn[c].wakers => conn'[c] = conn[c]
  <1>1. tripped' \in [Stages -> BOOLEAN]
    BY DEF Trip, TypeOK
  <1>2. \A c \in Conns : conn[c] \in Conn
    BY DEF TypeOK
  <1>3. \A c \in Conns : [conn[c] EXCEPT !.woken = TRUE, !.wakers = @ \ {s}] \in Conn
    BY <1>2 DEF Conn
  <1>4. ASSUME NEW c \in Conns
        PROVE  conn'[c] = IF s \in conn[c].wakers
                          THEN [conn[c] EXCEPT !.woken = TRUE, !.wakers = @ \ {s}] ELSE conn[c]
    BY DEF Trip
  <1>5. conn' \in [Conns -> Conn]
    <2>1. \A c \in Conns : conn'[c] \in Conn
      BY <1>2, <1>3, <1>4
    <2> QED BY <2>1 DEF Trip
  <1> QED
    BY <1>1, <1>2, <1>4, <1>5 DEF Conn

Launch == [pc : {"liftoff", "serve", "wait", "ok", "err"}, period : 0..NPeriods,
           left : 0..(Grace + Mercy + 1), loops : SUBSET {"http12", "http3"}, panicked : BOOLEAN,
           crashed : BOOLEAN, rocket : {"shared", "owned"}]

\* launch() and the accept loops
LEMMA LaunchIsTyped ==
    ASSUME TypeOK, LaunchStep
    PROVE  /\ launch' \in Launch /\ fairings' \in {"none", "running", "done"}
           /\ UNCHANGED <<tripped, age, late, stager, conn>>
  <1>0. launch \in Launch /\ fairings \in {"none", "running", "done"}
    BY DEF TypeOK, Launch
  <1>1. ASSUME NEW ok \in BOOLEAN, Liftoff(ok)
        PROVE  launch' \in Launch
    <2> DEFINE pc == IF ok THEN "serve" ELSE "wait"
               loops == IF ok THEN Servers ELSE {}
    <2>1. launch' = [launch EXCEPT !.pc = pc, !.loops = loops, !.crashed = ~ok]
      BY <1>1 DEF Liftoff
    <2>2. pc \in {"serve", "wait"} /\ loops \subseteq {"http12", "http3"}
      BY DEF Servers
    <2>3. (~ok) \in BOOLEAN
      OBVIOUS
    <2> HIDE DEF pc, loops
    <2> QED BY <1>0, <2>1, <2>2, <2>3 DEF Launch
  <1>2. ASSUME NEW server, StopServing(server) \/ Panic(server) \/ EndpointCloses
        PROVE  launch' \in Launch
    BY <1>0, <1>2 DEF StopServing, Panic, EndpointCloses, Launch
  <1>3. CASE Join
    <2> DEFINE pc == IF launch.panicked THEN "err" ELSE "wait"
    <2>1. launch' = [launch EXCEPT !.pc = pc] /\ pc \in {"err", "wait"}
      BY <1>3 DEF Join
    <2> HIDE DEF pc
    <2>2. launch' \in Launch
      BY <1>0, <2>1 DEF Launch
    <2> QED BY <1>0, <1>3, <2>2 DEF Join
  <1>5. CASE Wait
    <2>1. launch.period + 1 \in 1..NPeriods \/ launch.period = NPeriods
      BY DEF TypeOK, NPeriods
    <2>2. \A n \in 1..NPeriods : Periods[n] \in 0..(Grace + Mercy + 1)
      BY PeriodsAssumption DEF Periods, NPeriods
    <2>3. launch' \in Launch
      <3>1. CASE Unshared \/ launch.period = NPeriods
        <4> DEFINE pc == IF Unshared /\ ~launch.crashed THEN "ok" ELSE "err"
                   rocket == IF Unshared THEN "owned" ELSE "shared"
        <4>1. launch' = [launch EXCEPT !.pc = pc, !.rocket = rocket]
          BY <1>5, <3>1 DEF Wait, GiveBack
        <4>2. pc \in {"ok", "err"} /\ rocket \in {"owned", "shared"}
          OBVIOUS
        <4> HIDE DEF pc, rocket
        <4> QED BY <1>0, <4>1, <4>2 DEF Launch
      <3>2. CASE ~(Unshared \/ launch.period = NPeriods)
        <4> DEFINE left == Periods[launch.period + 1]
        <4>1. launch' = [launch EXCEPT !.period = @ + 1, !.left = left]
          BY <1>5, <3>2 DEF Wait
        <4>2. left \in 0..(Grace + Mercy + 1) /\ launch.period + 1 \in 0..NPeriods
          BY <2>1, <2>2, <3>2 DEF NPeriods
        <4> HIDE DEF left
        <4> QED BY <1>0, <4>1, <4>2 DEF Launch
      <3> QED BY <3>1, <3>2
    <2> QED
      BY <1>0, <1>5, <2>3 DEF Wait
  <1> QED
    BY <1>0, <1>1, <1>2, <1>3, <1>5 DEF LaunchStep, Liftoff, StopServing, Panic, EndpointCloses

\* The type invariant.  A task that has ended is not on the run queue: only
\* tasks that registered with a wire are woken, and Closed() forgets them.
LEMMA TypeStep ==
    ASSUME TypeOK, [Next]_vars
    PROVE  TypeOK'
  <1>1. CASE Tick
    <2>1. age' \in 0..(Grace + Mercy)
      BY <1>1, PeriodsAssumption DEF Tick, TypeOK, AtMost
    <2>2. stager' \in [pc : {"select", "grace", "mercy", "done"}, left : 0..(Grace + Mercy)]
      BY <1>1, PeriodsAssumption DEF Tick, TypeOK, Less
    <2>3. launch' \in Launch
      <3>1. launch \in Launch /\ launch' = [launch EXCEPT !.left = Less(launch.left)]
        BY <1>1 DEF Tick, TypeOK, Launch
      <3>2. Less(launch.left) \in 0..(Grace + Mercy + 1)
        BY <3>1, PeriodsAssumption DEF Launch, Less
      <3> HIDE DEF Launch
      <3> QED BY <3>1, <3>2 DEF Launch
    <2> QED
      BY <1>1, <2>1, <2>2, <2>3 DEF Tick, TypeOK, Launch
  <1>2. CASE Notify \/ Signal \/ GraceElapsed \/ MercyElapsed
    <2>1. \E s \in Stages : Trip(s)
      BY <1>2 DEF Notify, Signal, GraceElapsed, MercyElapsed, Stages
    <2>2. \A c \in Conns : conn[c].pc \in {"none", "closed"} => conn'[c] = conn[c]
      BY <2>1, TripIsTyped DEF TypeOK
    <2>3. tripped' \in [Stages -> BOOLEAN] /\ conn' \in [Conns -> Conn]
      BY <2>1, TripIsTyped
    <2>4. \A c \in Conns : conn'[c].pc = conn[c].pc
      BY <2>1, TripIsTyped
    <2>5. stager' \in [pc : {"select", "grace", "mercy", "done"}, left : 0..(Grace + Mercy)]
      BY <1>2, PeriodsAssumption DEF Notify, Signal, GraceElapsed, MercyElapsed, TypeOK
    <2>6. UNCHANGED <<age, late, launch, fairings>>
      BY <1>2 DEF Notify, Signal, GraceElapsed, MercyElapsed
    <2> QED
      BY <2>2, <2>3, <2>4, <2>5, <2>6 DEF TypeOK
  <1>3. CASE NoticeStart
    BY <1>3, PeriodsAssumption DEF NoticeStart, TypeOK
  <1>4. CASE FairingsEnd
    BY <1>4 DEF FairingsEnd, TypeOK
  <1>9. CASE LaunchStep
    BY <1>9, LaunchIsTyped DEF TypeOK, Launch
  <1>6. CASE \E c \in Conns : Arrive(c)
    <2>1. PICK c \in Conns : Arrive(c)
      BY <1>6
    <2> QED
      BY <2>1, ArriveSets DEF TypeOK
  <1>7. CASE \E c \in Conns : ConnStep(c)
    <2>1. PICK c \in Conns : ConnStep(c)
      BY <1>7
    <2> QED
      BY <2>1, PollIsBecome DEF TypeOK
  <1>8. CASE UNCHANGED vars
    BY <1>8 DEF vars, TypeOK
  <1> QED
    BY <1>1, <1>2, <1>3, <1>4, <1>6, <1>7, <1>8, <1>9, StepCases

-----------------------------------------------------------------------------
\* Trip() sets one flag.
LEMMA TripSets ==
    ASSUME TypeOK, NEW s \in Stages, Trip(s)
    PROVE  tripped'[s] /\ \A r \in Stages \ {s} : tripped'[r] = tripped[r]
  BY DEF Trip, TypeOK

\* The stages and the clock
LEMMA StagerStep ==
    ASSUME TypeOK, StagerState, [Next]_vars
    PROVE  StagerState'
  <1> USE PeriodsAssumption
  <1>1. CASE Tick
    BY <1>1 DEF Tick, TypeOK, StagerState, AtMost, Less
  <1>2. CASE Notify
    BY <1>2, TripSets DEF Notify, TypeOK, StagerState, Stages
  <1>3. CASE Signal
    BY <1>3, TripSets DEF Signal, TypeOK, StagerState, Stages
  <1>8. CASE GraceElapsed
    <2>1. tripped'["start"] /\ tripped'["grace"] /\ ~tripped'["mercy"] /\ age >= Grace
      BY <1>8, TripSets DEF GraceElapsed, TypeOK, StagerState, Stages
    <2> QED
      BY <1>8, <2>1 DEF GraceElapsed, TypeOK, StagerState
  <1>9. CASE MercyElapsed
    <2>1. tripped'["start"] /\ tripped'["grace"] /\ tripped'["mercy"] /\ age >= Grace + Mercy
      BY <1>9, TripSets DEF MercyElapsed, TypeOK, StagerState, Stages
    <2> QED
      BY <1>9, <2>1 DEF MercyElapsed, TypeOK, StagerState
  <1>4. CASE NoticeStart
    BY <1>4 DEF NoticeStart, TypeOK, StagerState
  <1>5. CASE UNCHANGED <<tripped, age, stager>>
    BY <1>5 DEF StagerState
  <1>6. CASE LaunchStep \/ FairingsEnd \/ (\E c \in Conns : Arrive(c)) \/ UNCHANGED vars
    BY <1>5, <1>6, LaunchIsTyped, ArriveSets DEF FairingsEnd, vars
  <1>7. CASE \E c \in Conns : ConnStep(c)
    BY <1>5, <1>7, PollIsBecome
  <1> QED
    BY <1>1, <1>2, <1>3, <1>4, <1>6, <1>7, <1>8, <1>9, StepCases

\* What one poll does to the state of the connection's I/O
LEMMA PollState ==
    ASSUME TypeOK, NEW c \in Conns, ConnStep(c)
    PROVE  /\ conn'[c].state = "Mercy" => conn[c].state = "Mercy" \/ tripped["grace"]
           /\ conn'[c].why = "cancelled" => conn[c].state = "Mercy" \/ tripped["grace"] \/ conn[c].why = "cancelled"
           /\ conn'[c].why = "timed out" => tripped["mercy"] \/ conn[c].why = "timed out"
  <1>0. conn[c] \in Conn /\ conn \in [Conns -> Conn]
    BY DEF TypeOK
  <1>1. CASE Connect(c)
    <2>1. \/ \E pc \in {"accept", "idle"} : conn'[c] = [conn[c] EXCEPT !.pc = pc]
          \/ conn'[c] = Closed("ended")
          \/ conn'[c] = [conn[c] EXCEPT !.woken = FALSE, !.wakers = {"start"}]
      BY <1>0, <1>1 DEF Connect, Become
    <2>2. conn'[c].state \in {conn[c].state, "Active"} /\ conn'[c].why \in {conn[c].why, "ended"}
      BY <1>0, <2>1, ClosedIsConn DEF Conn
    <2> QED BY <2>2
  <1>2. CASE IoDone(c)
    <2> DEFINE next == CASE conn[c].pc \in {"idle", "body"} -> "handler"
                         [] conn[c].graceful -> "closing"
                         [] OTHER -> "idle"
               now == StateNow(conn[c].state)
               task == [conn[c] EXCEPT !.state = now, !.wakers = @ \cup {Awaits[now]}, !.pc = next]
    <2>1. Become(c, IF conn[c].pc = "closing" THEN Closed("ended") ELSE task) /\ now # "Mercy"
      BY <1>2 DEF IoDone
    <2> HIDE DEF next, now
    <2>2. task.state = now /\ task.why = conn[c].why
      BY <1>0 DEF Conn
    <2> HIDE DEF task
    <2> QED
      BY <1>0, <2>1, <2>2, ClosedIsConn DEF Become
  <1>3. CASE IoFails(c)
    BY <1>0, <1>3, ClosedIsConn DEF IoFails, Become, Conn
  <1>4. CASE IoPends(c)
    <2>1. conn'[c].state # "Mercy" /\ conn'[c].why = conn[c].why
      BY <1>0, <1>4 DEF IoPends, Become, Conn
    <2> QED BY <2>1
  <1>5. CASE IoCancelled(c)
    <2>1. conn[c].state = "Mercy" \/ tripped["grace"]
      BY <1>0, <1>5 DEF IoCancelled, StateNow, Conn, States
    <2>2. \/ conn'[c] = Closed("cancelled")
          \/ conn'[c] = [conn[c] EXCEPT !.state = "Mercy", !.graceful = TRUE,
                                        !.woken = FALSE, !.wakers = @ \cup {"mercy"}]
      BY <1>0, <1>5 DEF IoCancelled, Become
    <2>3. conn'[c].why \in {conn[c].why, "cancelled"}
      BY <1>0, <2>2, ClosedIsConn DEF Conn
    <2> QED BY <2>1, <2>3
  <1>6. CASE IoTimesOut(c)
    BY <1>0, <1>6, ClosedIsConn DEF IoTimesOut, Become, Conn
  <1>7. CASE HandlerReturns(c)
    BY <1>0, <1>7 DEF HandlerReturns, Become, Conn
  <1>8. CASE QuicReady(c)
    <2>1. conn'[c] = Closed("ended") \/ conn'[c] = [conn[c] EXCEPT !.pc = "sending"]
      BY <1>0, <1>8 DEF QuicReady, Become
    <2>2. conn'[c].state \in {conn[c].state, "Active"} /\ conn'[c].why \in {conn[c].why, "ended"}
      BY <1>0, <2>1, ClosedIsConn DEF Conn
    <2> QED BY <2>2
  <1>10. CASE QuicPends(c)
    <2> DEFINE stage == Due(conn[c])
               asleep == [conn[c] EXCEPT !.woken = FALSE, !.wakers = @ \cup {stage}]
    <2>1. stage \in Stages /\ Ends(stage) \in {"ended", "cancelled", "timed out"}
      BY <1>0, DueIsStage DEF Stages, Ends
    <2>2. IF tripped[stage] THEN conn'[c] = Closed(Ends(stage)) ELSE conn'[c] = asleep
      BY <1>0, <1>10 DEF QuicPends, Become
    <2> HIDE DEF stage
    <2>3. asleep.state = conn[c].state /\ asleep.why = conn[c].why
      BY <1>0 DEF Conn
    <2> HIDE DEF asleep
    <2>4. Ends(stage) = "cancelled" => stage = "grace"
      BY <2>1 DEF Stages, Ends
    <2>5. Ends(stage) = "timed out" => stage = "mercy"
      BY <2>1 DEF Stages, Ends
    <2> QED BY <2>1, <2>2, <2>3, <2>4, <2>5, ClosedIsConn
  <1>9. CASE Wake(c)
    BY <1>0, <1>9 DEF Wake, Become, Conn
  <1> QED
    BY <1>1, <1>2, <1>3, <1>4, <1>5, <1>6, <1>7, <1>8, <1>9, <1>10 DEF ConnStep, Poll, IoPoll, QuicPoll

\* The connections keep up with the stages, never ahead of them.
LEMMA ConnStateStep ==
    ASSUME TypeOK, StagerState, ConnState, [Next]_vars
    PROVE  ConnState'
  <1>1. CASE \E c \in Conns : ConnStep(c)
    <2>1. PICK c \in Conns : ConnStep(c)
      BY <1>1
    <2>2. /\ conn' = [conn EXCEPT ![c] = conn'[c]] /\ UNCHANGED tripped
      BY <2>1, PollIsBecome
    <2>3. /\ conn'[c].state = "Mercy" => tripped["grace"]
          /\ conn'[c].why = "cancelled" => tripped["grace"]
          /\ conn'[c].why = "timed out" => tripped["mercy"]
      BY <2>1, PollState DEF ConnState
    <2>4. \A d \in Conns : d # c => conn'[d] = conn[d]
      BY <2>2 DEF TypeOK
    <2> QED
      BY <2>2, <2>3, <2>4 DEF ConnState
  <1>2. CASE Notify \/ Signal \/ GraceElapsed \/ MercyElapsed
    <2>1. PICK s \in Stages : Trip(s)
      BY <1>2 DEF Notify, Signal, GraceElapsed, MercyElapsed, Stages
    <2>2. tripped["grace"] => tripped'["grace"]
      BY <2>1, TripSets DEF Stages
    <2>3. tripped["mercy"] => tripped'["mercy"]
      BY <2>1, TripSets DEF Stages
    <2> QED
      BY <2>1, <2>2, <2>3, TripIsTyped DEF ConnState
  <1>3. CASE \E c \in Conns : Arrive(c)
    <2>1. PICK c \in Conns : Arrive(c)
      BY <1>3
    <2>2. /\ conn' = [conn EXCEPT ![c] = conn'[c]] /\ UNCHANGED tripped
          /\ conn'[c].state = "Active" /\ conn'[c].why = "open"
      BY <2>1, ArriveSets
    <2> QED
      BY <2>2 DEF ConnState, TypeOK
  <1>4. CASE UNCHANGED <<tripped, conn>>
    BY <1>4 DEF ConnState
  <1> QED
    BY <1>1, <1>2, <1>3, <1>4, StepCases, LaunchIsTyped DEF Tick, NoticeStart, FairingsEnd, vars

-----------------------------------------------------------------------------
\* SleepersWillWake for one connection
Sleeper(c) ==
    ~conn[c].woken /\ conn[c].pc \notin {"none", "closed"} =>
        Due(conn[c]) \in conn[c].wakers /\ ~tripped[Due(conn[c])]

\* poll_with() stops its loop at a stage that has not come, or in Mercy.
LEMMA StateNowAwaits ==
    ASSUME NEW state \in States, StateNow(state) # "Mercy"
    PROVE  ~tripped[Awaits[StateNow(state)]]
  BY DEF StateNow, Awaits, States

\* A poll that puts the task to sleep registers it.
LEMMA PollSleeps ==
    ASSUME TypeOK, NEW c \in Conns, ConnStep(c)
    PROVE  Sleeper(c)'
  <1>0. conn[c] \in Conn /\ conn \in [Conns -> Conn]
    BY DEF TypeOK
  <1>u. UNCHANGED tripped
    BY PollIsBecome
  <1>1. CASE conn'[c].woken
    BY <1>1 DEF Sleeper
  <1>2. CASE \E why \in {"ended", "cancelled", "timed out"} : conn'[c] = Closed(why)
    BY <1>2, ClosedIsConn DEF Sleeper
  <1>3. CASE Connect(c)
    <2>1. \/ \E pc \in {"accept", "idle"} : conn'[c] = [conn[c] EXCEPT !.pc = pc]
          \/ conn'[c] = Closed("ended")
          \/ /\ conn'[c] = [conn[c] EXCEPT !.woken = FALSE, !.wakers = {"start"}]
             /\ ~tripped["start"]
      BY <1>0, <1>3 DEF Connect, Become
    <2>2. CASE \E pc \in {"accept", "idle"} : conn'[c] = [conn[c] EXCEPT !.pc = pc]
      BY <1>0, <1>1, <1>3, <2>2 DEF Connect, Conn
    <2>3. CASE conn'[c] = [conn[c] EXCEPT !.woken = FALSE, !.wakers = {"start"}]
               /\ ~tripped["start"]
      <3>1. conn'[c].pc = "connect" /\ conn'[c].wakers = {"start"}
        BY <1>0, <1>3, <2>3 DEF Connect, Conn
      <3>2. Due(conn'[c]) = "start"
        BY <3>1 DEF Due, IoPcs, Served
      <3> QED BY <1>u, <2>3, <3>1, <3>2 DEF Sleeper
    <2> QED BY <1>2, <2>1, <2>2, <2>3
  <1>4. CASE IoDone(c)
    <2> DEFINE next == CASE conn[c].pc \in {"idle", "body"} -> "handler"
                         [] conn[c].graceful -> "closing"
                         [] OTHER -> "idle"
               now == StateNow(conn[c].state)
               task == [conn[c] EXCEPT !.state = now, !.wakers = @ \cup {Awaits[now]}, !.pc = next]
    <2>1. Become(c, IF conn[c].pc = "closing" THEN Closed("ended") ELSE task) /\ conn[c].woken
      BY <1>4 DEF IoDone
    <2> HIDE DEF next, now
    <2>2. task.woken = conn[c].woken
      BY <1>0 DEF Conn
    <2> HIDE DEF task
    <2> QED
      BY <1>0, <1>1, <1>2, <2>1, <2>2 DEF Become
  <1>5. CASE IoFails(c)
    BY <1>0, <1>2, <1>5 DEF IoFails, Become
  <1>6. CASE IoPends(c)
    <2> DEFINE now == StateNow(conn[c].state)
               pc == IF conn[c].pc = "idle" THEN "closing" ELSE conn[c].pc
               again == [conn[c] EXCEPT !.state = now, !.graceful = TRUE, !.pc = pc]
               asleep == [conn[c] EXCEPT !.state = now, !.woken = FALSE,
                                         !.wakers = @ \cup {Awaits[now]} \cup Raced(c)]
    <2>1. /\ Become(c, IF tripped["start"] /\ ~conn[c].graceful THEN again ELSE asleep)
          /\ conn[c].woken /\ conn[c].pc \in Served
      BY <1>6 DEF IoPends
    <2>2. ~tripped[Awaits[now]]
      BY <1>0, <1>6, StateNowAwaits DEF IoPends, Conn
    <2> HIDE DEF now, pc
    <2>3. CASE tripped["start"] /\ ~conn[c].graceful
      <3>1. conn'[c] = again /\ again.woken = conn[c].woken
        BY <1>0, <2>1, <2>3 DEF Become, Conn
      <3> QED BY <1>1, <2>1, <3>1
    <2>4. CASE ~(tripped["start"] /\ ~conn[c].graceful)
      <3>1. conn'[c] = asleep
        BY <1>0, <2>1, <2>4 DEF Become
      <3>2. asleep.pc = conn[c].pc /\ asleep.state = now /\ Awaits[now] \in asleep.wakers
        BY <1>0 DEF Conn
      <3>3. conn'[c].pc \in Served /\ conn'[c].state = now /\ Awaits[now] \in conn'[c].wakers
        BY <2>1, <3>1, <3>2
      <3>4. Due(conn'[c]) = Awaits[now]
        BY <3>3 DEF Due
      <3> QED BY <1>u, <2>2, <3>3, <3>4 DEF Sleeper
    <2> QED BY <2>3, <2>4
  <1>7. CASE IoCancelled(c)
    <2> DEFINE task == [conn[c] EXCEPT !.state = "Mercy", !.graceful = TRUE,
                                       !.woken = FALSE, !.wakers = @ \cup {"mercy"}]
    <2>1. conn'[c] = Closed("cancelled") \/ conn'[c] = task
      BY <1>0, <1>7 DEF IoCancelled, Become
    <2>2. task.pc = conn[c].pc /\ task.state = "Mercy" /\ "mercy" \in task.wakers
      BY <1>0 DEF Conn
    <2>3. conn[c].pc \in Served /\ ~tripped["mercy"]
      BY <1>7 DEF IoCancelled
    <2> HIDE DEF task
    <2>4. CASE conn'[c] = task
      <3>1. Due(conn'[c]) = "mercy"
        BY <2>2, <2>3, <2>4 DEF Due, Awaits
      <3> QED BY <1>u, <2>2, <2>3, <2>4, <3>1 DEF Sleeper
    <2> QED BY <1>2, <2>1, <2>4
  <1>8. CASE IoTimesOut(c)
    BY <1>0, <1>2, <1>8 DEF IoTimesOut, Become
  <1>9. CASE HandlerReturns(c)
    <2>1. PICK pc \in {"body", "writing"} : conn'[c] = [conn[c] EXCEPT !.pc = pc]
      BY <1>0, <1>9 DEF HandlerReturns, Become
    <2>2. conn'[c].woken = conn[c].woken
      BY <1>0, <2>1 DEF Conn
    <2> QED BY <1>1, <1>9, <2>2 DEF HandlerReturns
  <1>10. CASE Wake(c)
    <2>1. conn'[c] = [conn[c] EXCEPT !.woken = TRUE]
      BY <1>0, <1>10 DEF Wake, Become
    <2>2. conn'[c].woken
      BY <1>0, <2>1 DEF Conn
    <2> QED BY <1>1, <2>2
  <1>11. CASE QuicReady(c)
    <2>1. /\ conn'[c] = Closed("ended") \/ conn'[c] = [conn[c] EXCEPT !.pc = "sending"]
          /\ conn[c].woken
      BY <1>0, <1>11 DEF QuicReady, Become
    <2>2. CASE conn'[c] = [conn[c] EXCEPT !.pc = "sending"]
      BY <1>0, <1>1, <2>1, <2>2 DEF Conn
    <2> QED BY <1>2, <2>1, <2>2
  <1>12. CASE QuicPends(c)
    <2> DEFINE stage == Due(conn[c])
               asleep == [conn[c] EXCEPT !.woken = FALSE, !.wakers = @ \cup {stage}]
    <2>1. /\ IF tripped[stage] THEN conn'[c] = Closed(Ends(stage)) ELSE conn'[c] = asleep
          /\ conn[c].pc \in QuicPcs
      BY <1>0, <1>12 DEF QuicPends, Become
    <2>2. Ends(stage) \in {"ended", "cancelled", "timed out"}
      BY <1>0, DueIsStage DEF Stages, Ends
    <2>3. CASE ~tripped[stage]
      <3>1. asleep.pc = conn[c].pc /\ stage \in asleep.wakers
        BY <1>0 DEF Conn
      <3>2. Due(asleep) = stage
        BY <2>1, <3>1 DEF Due, QuicPcs, IoPcs, Served
      <3> HIDE DEF stage, asleep
      <3> QED BY <1>u, <2>1, <2>3, <3>1, <3>2 DEF Sleeper
    <2> QED BY <1>2, <2>1, <2>2, <2>3
  <1> QED
    BY <1>3, <1>4, <1>5, <1>6, <1>7, <1>8, <1>9, <1>10, <1>11, <1>12 DEF ConnStep, Poll, IoPoll, QuicPoll

\* A stage that comes wakes every task that is registered with it; the sleeping
\* tasks that are left wait for another one.
LEMMA SleepersStep ==
    ASSUME TypeOK, SleepersWillWake, [Next]_vars
    PROVE  SleepersWillWake'
  <1>0. \A c \in Conns : Sleeper(c)
    BY DEF SleepersWillWake, Sleeper
  <1>1. SUFFICES ASSUME NEW c \in Conns PROVE Sleeper(c)'
    BY <1>1 DEF SleepersWillWake, Sleeper
  <1>2. CASE \E d \in Conns : ConnStep(d)
    <2>1. PICK d \in Conns : ConnStep(d)
      BY <1>2
    <2>2. CASE d = c
      BY <2>1, <2>2, PollSleeps
    <2>3. CASE d # c
      <3>1. conn'[c] = conn[c] /\ UNCHANGED tripped
        BY <2>1, <2>3, PollIsBecome DEF TypeOK
      <3> QED BY <1>0, <3>1 DEF Sleeper
    <2> QED BY <2>2, <2>3
  <1>3. CASE Notify \/ Signal \/ GraceElapsed \/ MercyElapsed
    <2>1. PICK s \in Stages : Trip(s)
      BY <1>3 DEF Notify, Signal, GraceElapsed, MercyElapsed, Stages
    <2>2. CASE s \in conn[c].wakers
      BY <2>1, <2>2, TripIsTyped DEF Sleeper
    <2>3. CASE s \notin conn[c].wakers
      <3>1. conn'[c] = conn[c]
        BY <2>1, <2>3, TripIsTyped
      <3>2. \A r \in Stages : r \in conn[c].wakers => tripped'[r] = tripped[r]
        BY <2>1, <2>3, TripSets
      <3>3. Due(conn[c]) \in Stages
        BY DueIsStage DEF TypeOK
      <3> QED BY <1>0, <3>1, <3>2, <3>3 DEF Sleeper
    <2> QED BY <2>2, <2>3
  <1>4. CASE \E d \in Conns : Arrive(d)
    <2>1. PICK d \in Conns : Arrive(d)
      BY <1>4
    <2>2. conn' = [conn EXCEPT ![d] = conn'[d]] /\ conn'[d].woken /\ UNCHANGED tripped
      BY <2>1, ArriveSets
    <2>3. CASE d = c
      BY <2>2, <2>3 DEF Sleeper
    <2>4. CASE d # c
      <3>1. conn'[c] = conn[c]
        BY <2>2, <2>4 DEF TypeOK
      <3> QED BY <1>0, <2>2, <3>1 DEF Sleeper
    <2> QED BY <2>3, <2>4
  <1>5. CASE UNCHANGED <<tripped, conn>>
    BY <1>0, <1>5 DEF Sleeper
  <1> QED
    BY <1>2, <1>3, <1>4, <1>5, StepCases, LaunchIsTyped DEF Tick, NoticeStart, FairingsEnd, vars

\* Accept loops run only while launch() serves, and their panics are kept.
LEMMA ServersStep ==
    ASSUME TypeOK, ServersAreJoined, [Next]_vars
    PROVE  ServersAreJoined'
  <1>0. launch \in Launch
    BY DEF TypeOK, Launch
  <1>1. CASE \E ok \in BOOLEAN : Liftoff(ok)
    <2>1. PICK ok \in BOOLEAN : Liftoff(ok)
      BY <1>1
    <2>2. CASE ok
      BY <1>0, <2>1, <2>2 DEF Liftoff, ServersAreJoined, Launch
    <2>3. CASE ~ok
      <3>1. /\ launch' = [launch EXCEPT !.pc = "wait", !.loops = {}, !.crashed = TRUE]
            /\ launch.pc = "liftoff"
        BY <2>1, <2>3 DEF Liftoff
      <3> QED BY <1>0, <3>1 DEF ServersAreJoined, Launch
    <2> QED BY <2>2, <2>3
  <1>2. CASE EndpointCloses \/ \E server \in Servers : StopServing(server) \/ Panic(server)
    BY <1>0, <1>2 DEF EndpointCloses, StopServing, Panic, ServersAreJoined, Launch
  <1>3. CASE Join
    <2>1. /\ launch'.pc = IF launch.panicked THEN "err" ELSE "wait"
          /\ launch'.loops = {} /\ launch'.panicked = launch.panicked
      BY <1>0, <1>3 DEF Join, Launch
    <2> QED BY <2>1 DEF ServersAreJoined
  <1>4. CASE Wait
    <2>1. /\ launch.pc = "wait" /\ launch'.pc \in {"wait", "ok", "err"}
          /\ launch'.loops = launch.loops /\ launch'.panicked = launch.panicked
          /\ launch'.crashed = launch.crashed /\ (launch'.pc = "ok" => ~launch.crashed)
      BY <1>0, <1>4 DEF Wait, GiveBack, Launch
    <2> QED BY <2>1 DEF ServersAreJoined
  <1>5. CASE Tick
    <2>1. /\ launch'.pc = launch.pc /\ launch'.crashed = launch.crashed
          /\ launch'.loops = launch.loops /\ launch'.panicked = launch.panicked
      BY <1>0, <1>5 DEF Tick, Launch
    <2> QED BY <2>1 DEF ServersAreJoined
  <1>6. CASE UNCHANGED launch
    BY <1>6 DEF ServersAreJoined
  <1> QED
    BY <1>1, <1>2, <1>3, <1>4, <1>5, <1>6, StepCases, ArriveSets, PollIsBecome
       DEF LaunchStep, Notify, Signal, NoticeStart, GraceElapsed, MercyElapsed, FairingsEnd, vars

\* After launch() has returned the Rocket, nobody can clone the Rocket any more.
LEMMA OwnerStep ==
    ASSUME TypeOK, ServersAreJoined, OkIsSoleOwner, [Next]_vars
    PROVE  OkIsSoleOwner'
  <1>1. CASE \E c \in Conns : ConnStep(c)
    <2>1. PICK c \in Conns : ConnStep(c)
      BY <1>1
    <2>2. launch.rocket = "shared" /\ launch' = launch
      BY <2>1, PollIsBecome DEF OkIsSoleOwner, Unshared, TypeOK
    <2> QED BY <2>2 DEF OkIsSoleOwner
  <1>2. CASE Notify \/ Signal \/ GraceElapsed \/ MercyElapsed
    <2>1. \A c \in Conns : conn'[c].pc = conn[c].pc
      BY <1>2, TripIsTyped DEF Notify, Signal, GraceElapsed, MercyElapsed, Stages
    <2>2. UNCHANGED <<launch, fairings>>
      BY <1>2 DEF Notify, Signal, GraceElapsed, MercyElapsed
    <2> QED BY <2>1, <2>2 DEF OkIsSoleOwner, Unshared
  <1>3. CASE \E c \in Conns : Arrive(c)
    <2>1. launch.rocket = "shared" /\ launch' = launch
      BY <1>3, ArriveSets DEF ServersAreJoined, OkIsSoleOwner, Unshared, TypeOK
    <2> QED BY <2>1 DEF OkIsSoleOwner
  <1>4. CASE Wait
    <2>0. launch.pc = "wait" /\ launch.rocket = "shared"
      BY <1>4 DEF Wait, OkIsSoleOwner, TypeOK
    <2>1. /\ launch'.pc = "ok" => launch'.rocket = "owned"
          /\ launch'.rocket = "owned" => launch'.pc \in {"ok", "err"} /\ Unshared
      BY <1>4, <2>0 DEF Wait, GiveBack, TypeOK
    <2>2. UNCHANGED <<conn, fairings>>
      BY <1>4 DEF Wait
    <2> QED BY <2>1, <2>2 DEF OkIsSoleOwner, Unshared
  <1>5. CASE (\E ok \in BOOLEAN : Liftoff(ok)) \/ Join
    <2>1. launch'.pc # "ok" /\ launch'.rocket = "shared"
      BY <1>5 DEF Liftoff, Join, TypeOK, OkIsSoleOwner
    <2> QED BY <2>1 DEF OkIsSoleOwner
  <1>9. CASE EndpointCloses \/ \E server \in Servers : StopServing(server) \/ Panic(server)
    <2>1. launch'.pc = launch.pc /\ launch'.rocket = launch.rocket /\ UNCHANGED <<conn, fairings>>
      BY <1>9 DEF EndpointCloses, StopServing, Panic, TypeOK
    <2> QED BY <2>1 DEF OkIsSoleOwner, Unshared
  <1>6. CASE FairingsEnd
    BY <1>6 DEF FairingsEnd, OkIsSoleOwner, Unshared
  <1>7. CASE Tick
    <2>1. launch'.pc = launch.pc /\ launch'.rocket = launch.rocket /\ UNCHANGED <<conn, fairings>>
      BY <1>7 DEF Tick, TypeOK
    <2> QED BY <2>1 DEF OkIsSoleOwner, Unshared
  <1>8. CASE NoticeStart \/ UNCHANGED vars
    BY <1>8 DEF NoticeStart, vars, OkIsSoleOwner, Unshared
  <1> QED
    BY <1>1, <1>2, <1>3, <1>4, <1>5, <1>6, <1>7, <1>8, <1>9, StepCases DEF LaunchStep

-----------------------------------------------------------------------------
\* All of IInv holds initially and is preserved.
LEMMA Inductive == Spec => []IInv
  <1>1. Init => IInv
    <2> SUFFICES ASSUME Init PROVE IInv
      OBVIOUS
    <2>1. TypeOK
      <3>1. tripped \in [Stages -> BOOLEAN] /\ late \in BOOLEAN
        BY DEF Init
      <3>2. conn \in [Conns -> Conn] /\ \A c \in Conns : ~conn[c].woken /\ conn[c].wakers = {}
        BY DEF Init, NoConn, Conn, Pcs, States, Stages
      <3> QED
        BY <3>1, <3>2, PeriodsAssumption DEF Init, TypeOK, NPeriods
    <2>2. StagerState
      BY DEF Init, StagerState, Stages
    <2>3. \A c \in Conns : conn[c].pc = "none" /\ conn[c].state = "Active" /\ conn[c].why = "open"
      BY DEF Init, NoConn
    <2>4. ConnState /\ SleepersWillWake
      BY <2>3 DEF ConnState, SleepersWillWake
    <2>5. ServersAreJoined /\ OkIsSoleOwner
      BY DEF Init, ServersAreJoined, OkIsSoleOwner
    <2> QED BY <2>1, <2>2, <2>4, <2>5 DEF IInv
  <1>2. IInv /\ [Next]_vars => IInv'
    BY TypeStep, StagerStep, ConnStateStep, SleepersStep, ServersStep, OwnerStep DEF IInv
  <1> QED BY <1>1, <1>2, PTL DEF Spec

\* Where the task is says enough about the stages.
LEMMA StagesFollow ==
    ASSUME TypeOK, StagerState
    PROVE  StagesInOrder
  <1>1. stager.pc \in {"select", "grace", "mercy", "done"} /\ age \in Nat
    BY PeriodsAssumption DEF TypeOK
  <1>2. age >= Grace + Mercy => age >= Grace
    BY <1>1, PeriodsAssumption
  <1> QED BY <1>1, <1>2 DEF StagerState, StagesInOrder

\* The type invariant of the shutdown of any number of connections.
THEOREM TypeCorrect == Spec => []TypeOK
  <1>1. IInv => TypeOK
    BY DEF IInv
  <1> QED BY <1>1, Inductive, PTL

\* spawn_listener(): grace comes no earlier than the grace period after start,
\* mercy no earlier than both periods, in this order.
THEOREM StagesAreOrdered == Spec => []StagesInOrder
  <1>1. IInv => StagesInOrder
    BY StagesFollow DEF IInv
  <1> QED BY <1>1, Inductive, PTL

\* Cancellable: no connection's I/O is shut down or cut off before its time.
THEOREM IoIsNotCutShort == Spec => []NotCutShort
  <1>1. IInv => NotCutShort
    <2> SUFFICES ASSUME IInv PROVE NotCutShort
      OBVIOUS
    <2>1. StagesInOrder
      BY StagesFollow DEF IInv
    <2> QED BY <2>1 DEF IInv, ConnState, StagesInOrder, NotCutShort
  <1> QED BY <1>1, Inductive, PTL

\* Cancellable: no task sleeps through a stage it has to act on.
THEOREM SleepersAreRegistered == Spec => []SleepersWillWake
  <1>1. IInv => SleepersWillWake
    BY DEF IInv
  <1> QED BY <1>1, Inductive, PTL

\* listen_and_serve(): both servers have ended before launch() goes on, and one
\* that panicked is reported.
THEOREM LaunchJoinsServers == Spec => []ServersAreJoined
  <1>1. IInv => ServersAreJoined
    BY DEF IInv
  <1> QED BY <1>1, Inductive, PTL

\* try_wait_shutdown(): no task shares a Rocket that launch() has returned.
THEOREM OkOwnsTheRocket == Spec => []OkIsSoleOwner
  <1>1. IInv => OkIsSoleOwner
    BY DEF IInv
  <1> QED BY <1>1, Inductive, PTL
-----------------------------------------------------------------------------
(* Time: when launch() gives up                                            *)

\* Trips and launch() leave the places of the tasks alone; no step but the end of
\* the liftoff begins to serve.
LEMMA NoTaskComes ==
    ASSUME TypeOK, ServersAreJoined, launch.pc # "serve", TasksEnded, [Next]_vars
    PROVE  \A c \in Conns : conn'[c].pc = conn[c].pc
  <1>1. CASE \E c \in Conns : ConnStep(c)
    <2>1. PICK c \in Conns : ConnStep(c)
      BY <1>1
    <2> QED BY <2>1, PollIsBecome DEF TasksEnded
  <1>2. CASE \E c \in Conns : Arrive(c)
    BY <1>2, ArriveSets DEF ServersAreJoined, TasksEnded
  <1>3. CASE Notify \/ Signal \/ GraceElapsed \/ MercyElapsed
    BY <1>3, TripIsTyped DEF Notify, Signal, GraceElapsed, MercyElapsed, Stages
  <1>4. CASE UNCHANGED conn
    BY <1>4
  <1>5. CASE LaunchStep
    BY <1>4, <1>5, LaunchIsTyped
  <1>6. CASE Tick \/ NoticeStart \/ FairingsEnd \/ UNCHANGED vars
    BY <1>4, <1>6 DEF Tick, NoticeStart, FairingsEnd, vars
  <1> QED BY <1>1, <1>2, <1>3, <1>5, <1>6, StepCases

\* A wire stays tripped.
LEMMA StartStays ==
    ASSUME TypeOK, [Next]_vars, tripped["start"]
    PROVE  tripped'["start"]
  <1>1. CASE Notify \/ Signal \/ GraceElapsed \/ MercyElapsed
    BY <1>1, TripSets DEF Notify, Signal, GraceElapsed, MercyElapsed, Stages
  <1>2. CASE UNCHANGED tripped
    BY <1>2
  <1>3. CASE LaunchStep
    BY <1>2, <1>3, LaunchIsTyped
  <1>4. CASE \E c \in Conns : Arrive(c)
    BY <1>2, <1>4, ArriveSets
  <1>5. CASE \E c \in Conns : ConnStep(c)
    BY <1>2, <1>5, PollIsBecome
  <1>6. CASE Tick \/ NoticeStart \/ FairingsEnd \/ UNCHANGED vars
    BY <1>2, <1>6 DEF Tick, NoticeStart, FairingsEnd, vars
  <1> QED BY <1>1, <1>3, <1>4, <1>5, <1>6, StepCases

\* launch() is only touched by its own steps and by the clock.
LEMMA LaunchTouched ==
    ASSUME TypeOK, [Next]_vars
    PROVE  LaunchStep \/ Tick \/ UNCHANGED <<launch, late>>
  BY StepCases, ArriveSets, PollIsBecome
     DEF Notify, Signal, NoticeStart, GraceElapsed, MercyElapsed, FairingsEnd, vars

LEMMA ServeStep ==
    ASSUME TypeOK, ServersAreJoined, ServeState, [Next]_vars
    PROVE  ServeState'
  <1>0. launch \in Launch
    BY DEF TypeOK, Launch
  <1>1. ASSUME launch.pc = "liftoff"
        PROVE  \A c \in Conns : conn'[c].pc = "none"
    <2>1. TasksEnded /\ \A c \in Conns : conn[c].pc = "none"
      BY <1>1 DEF ServeState, TasksEnded
    <2> QED BY <1>1, <2>1, NoTaskComes
  <1>2. CASE \E ok \in BOOLEAN : Liftoff(ok)
    <2>1. PICK ok \in BOOLEAN : Liftoff(ok)
      BY <1>2
    <2>2. CASE ok
      <3>1. /\ launch'.pc = "serve" /\ launch'.loops = Servers
            /\ launch'.period = launch.period /\ launch'.left = launch.left
        BY <1>0, <2>1, <2>2 DEF Liftoff, Launch
      <3>2. "http12" \in Servers /\ launch.pc = "liftoff"
        BY <2>1 DEF Servers, Liftoff
      <3> QED BY <3>1, <3>2 DEF ServeState
    <2>3. CASE ~ok
      <3>1. launch' = [launch EXCEPT !.pc = "wait", !.loops = {}, !.crashed = TRUE]
        BY <2>1, <2>3 DEF Liftoff
      <3>2. launch'.pc = "wait"
        BY <1>0, <3>1 DEF Launch
      <3> QED BY <3>2 DEF ServeState
    <2> QED BY <2>2, <2>3
  <1>3. CASE EndpointCloses \/ \E server \in Servers : StopServing(server) \/ Panic(server)
    <2>1. /\ launch.loops # {} /\ launch'.pc = launch.pc
          /\ launch'.period = launch.period /\ launch'.left = launch.left
      BY <1>0, <1>3 DEF EndpointCloses, StopServing, Panic, Launch
    <2>2. launch.pc = "serve"
      BY <2>1 DEF ServersAreJoined
    <2>3. \/ launch'.panicked \/ tripped["start"]
          \/ (launch'.panicked = launch.panicked /\ ("http12" \in launch.loops => "http12" \in launch'.loops))
      BY <1>0, <1>3 DEF EndpointCloses, StopServing, Panic, Launch
    <2> QED BY <2>1, <2>2, <2>3, StartStays DEF ServeState
  <1>4. CASE Join
    <2>1. launch'.pc \in {"err", "wait"}
      BY <1>0, <1>4 DEF Join, Launch
    <2> QED BY <2>1 DEF ServeState
  <1>5. CASE Wait
    <2>1. launch'.pc \in {"wait", "ok", "err"}
      BY <1>0, <1>5 DEF Wait, GiveBack, Launch
    <2> QED BY <2>1 DEF ServeState
  <1>6. CASE Tick
    <2>1. /\ launch'.pc = launch.pc /\ launch'.period = launch.period
          /\ launch'.left = Less(launch.left)
          /\ launch'.loops = launch.loops /\ launch'.panicked = launch.panicked
      BY <1>0, <1>6 DEF Tick, Launch
    <2>2. launch.left = 0 => Less(launch.left) = 0
      BY DEF Less
    <2> QED BY <1>1, <2>1, <2>2, StartStays DEF ServeState
  <1>7. CASE UNCHANGED launch
    BY <1>1, <1>7, StartStays DEF ServeState
  <1> QED BY <1>2, <1>3, <1>4, <1>5, <1>6, <1>7, LaunchTouched DEF LaunchStep

\* What has been waited for, period by period
LEMMA WaitedIs ==
    ASSUME TypeOK
    PROVE  Waited \in Int
  <1>1. launch.period \in 0 .. 5 /\ launch.left \in Nat
    BY PeriodsAssumption DEF TypeOK, NPeriods
  <1> QED BY <1>1, PeriodsAssumption DEF Waited

\* The end of a period is the beginning of the next one.
LEMMA PeriodsMeet ==
    ASSUME TypeOK, launch.left = 0, launch.period # NPeriods,
           launch'.period = launch.period + 1, launch'.left = Periods[launch.period + 1]
    PROVE  Waited' = Waited
  <1>1. launch.period \in {0, 1, 2, 3, 4}
    BY DEF TypeOK, NPeriods
  <1> QED BY <1>1, PeriodsAssumption DEF Waited, Periods

\* All tasks have acted on the last stage before the clock goes on.
LEMMA MercyEndsTasks ==
    ASSUME TypeOK, StagerState, SleepersWillWake, stager.pc = "done", ~Runnable
    PROVE  TasksEnded
  <1> SUFFICES ASSUME NEW c \in Conns, conn[c].pc \notin {"none", "closed"} PROVE FALSE
    BY DEF TasksEnded
  <1>1. ~conn[c].woken
    BY DEF Runnable
  <1>2. ~tripped[Due(conn[c])] /\ Due(conn[c]) \in Stages
    BY <1>1, DueIsStage DEF SleepersWillWake, TypeOK
  <1> QED BY <1>2 DEF StagerState, Stages

LEMMA KeepUpStep ==
    ASSUME TypeOK, StagerState, SleepersWillWake, ServersAreJoined, ServeState, StagesKeepUp, [Next]_vars
    PROVE  StagesKeepUp'
  <1> USE PeriodsAssumption
  <1>0. /\ launch \in Launch /\ Waited \in Int
        /\ stager \in [pc : {"select", "grace", "mercy", "done"}, left : 0..(Grace + Mercy)]
    BY WaitedIs DEF TypeOK, Launch
  <1>a. ASSUME launch.pc = "wait", TasksEnded
        PROVE  TasksEnded'
    BY <1>a, NoTaskComes DEF TasksEnded
  <1>1. CASE Tick
    <2>1. /\ stager'.pc = stager.pc /\ stager'.left = Less(stager.left)
          /\ launch'.pc = launch.pc /\ launch'.period = launch.period /\ launch'.left = Less(launch.left)
          /\ late' = (late \/ Runnable) /\ tripped' = tripped
      BY <1>0, <1>1 DEF Tick, Launch
    <2>2. /\ stager'.pc = "grace" => stager'.left <= Grace
          /\ stager'.pc = "mercy" => stager'.left <= Mercy
      BY <1>0, <2>1 DEF StagesKeepUp, Less
    <2>3. ASSUME ~late', launch'.pc = "wait", ~TasksEnded
          PROVE  StagerInTime'
      <3>1. ~late /\ ~Runnable /\ launch.pc = "wait" /\ StagerInTime
        BY <2>1, <2>3 DEF StagesKeepUp, TypeOK
      <3>2. launch.left # 0 /\ stager.pc \in {"grace", "mercy"} /\ stager.left # 0
        <4>1. launch.left # 0 /\ ~(stager.pc = "select") /\ (stager.pc \in {"grace", "mercy"} => stager.left # 0)
          BY <3>1 DEF Runnable, StagerInTime
        <4>2. stager.pc # "done"
          BY <2>3, <3>1, MercyEndsTasks
        <4> QED BY <1>0, <4>1, <4>2
      <3>3. launch'.left = launch.left - 1 /\ stager'.left = stager.left - 1
        BY <2>1, <3>2 DEF Less
      <3>4. Waited' = Waited + 1
        <4>1. launch.period \in 0 .. 5 /\ launch.left \in Nat
          BY <1>0 DEF Launch, NPeriods
        <4> QED BY <2>1, <3>3, <4>1 DEF Waited
      <3> QED BY <1>0, <2>1, <3>1, <3>2, <3>3, <3>4 DEF StagerInTime
    <2> QED BY <1>a, <2>1, <2>2, <2>3 DEF StagesKeepUp
  <1>2. CASE LaunchStep
    <2>0. UNCHANGED <<tripped, late, stager, conn>>
      BY <1>2, LaunchIsTyped
    <2>1. ASSUME launch.pc = "wait", launch'.pc = "wait", Wait
          PROVE  Waited' = Waited
      <3>1. launch' = [launch EXCEPT !.period = @ + 1, !.left = Periods[launch.period + 1]]
            /\ launch.left = 0 /\ launch.period # NPeriods
        BY <1>0, <2>1 DEF Wait, GiveBack, Launch
      <3>2. launch'.period = launch.period + 1 /\ launch'.left = Periods[launch.period + 1]
        BY <1>0, <3>1 DEF Launch
      <3> QED BY <3>1, <3>2, PeriodsMeet
    <2>2. CASE launch.pc = "wait"
      <3>1. launch'.pc = "wait" => Wait
        BY <1>2, <2>2 DEF LaunchStep, Liftoff, EndpointCloses, StopServing, Panic, Join, ServersAreJoined
      <3> QED BY <2>0, <2>1, <2>2, <3>1 DEF StagesKeepUp, StagerInTime, TasksEnded
    <2>3. CASE launch.pc # "wait" /\ launch'.pc = "wait"
      <3>1. (\E ok \in BOOLEAN : Liftoff(ok)) \/ (Join /\ ~launch.panicked)
        BY <1>0, <1>2, <2>3 DEF LaunchStep, EndpointCloses, StopServing, Panic, Join, Wait, GiveBack, Launch
      <3>2. CASE \E ok \in BOOLEAN : Liftoff(ok)
        <4>1. TasksEnded
          BY <3>2 DEF Liftoff, ServeState, TasksEnded
        <4> QED BY <2>0, <4>1 DEF StagesKeepUp, TasksEnded
      <3>3. CASE Join /\ ~launch.panicked
        <4>1. tripped["start"] /\ launch.period = 0 /\ launch.left = 0
          BY <3>3 DEF Join, ServeState
        <4>2. launch'.period = 0 /\ launch'.left = 0
          BY <1>0, <3>3, <4>1 DEF Join, Launch
        <4>3. Waited' = 0
          BY <4>2 DEF Waited
        <4>4. StagerInTime'
          BY <1>0, <2>0, <4>1, <4>3 DEF StagerInTime, StagesKeepUp
        <4> QED BY <2>0, <4>4 DEF StagesKeepUp
      <3> QED BY <3>1, <3>2, <3>3
    <2>4. CASE launch'.pc # "wait"
      BY <2>0, <2>4 DEF StagesKeepUp
    <2> QED BY <2>2, <2>3, <2>4
  <1>3. ASSUME UNCHANGED <<late, launch>>,
               /\ stager'.pc = "grace" => stager'.left <= Grace
               /\ stager'.pc = "mercy" => stager'.left <= Mercy,
               StagerInTime /\ Waited' = Waited => StagerInTime'
        PROVE  StagesKeepUp'
    <2>1. Waited' = Waited
      BY <1>3 DEF Waited
    <2> QED BY <1>3, <1>a, <2>1 DEF StagesKeepUp
  <1>4. CASE Notify
    BY <1>3, <1>4, StartStays DEF Notify, StagesKeepUp, StagerInTime
  <1>5. CASE Signal
    <2>1. ~StagerInTime /\ UNCHANGED <<late, launch>> /\ stager' = [pc |-> "grace", left |-> Grace]
      BY <1>5 DEF Signal, StagerInTime
    <2> QED BY <1>3, <2>1
  <1>6. CASE NoticeStart
    <2>1. UNCHANGED <<late, launch>> /\ stager' = [pc |-> "grace", left |-> Grace] /\ stager.pc = "select"
      BY <1>6 DEF NoticeStart
    <2>2. StagerInTime /\ Waited' = Waited => StagerInTime'
      BY <1>0, <2>1, StartStays DEF StagerInTime
    <2> QED BY <1>3, <2>1, <2>2
  <1>7. CASE GraceElapsed
    <2>1. UNCHANGED <<late, launch>> /\ stager' = [pc |-> "mercy", left |-> Mercy] /\ stager.pc = "grace" /\ stager.left = 0
      BY <1>7 DEF GraceElapsed
    <2>2. StagerInTime /\ Waited' = Waited => StagerInTime'
      BY <1>0, <2>1, StartStays DEF StagerInTime
    <2> QED BY <1>3, <2>1, <2>2
  <1>8. CASE MercyElapsed
    <2>1. UNCHANGED <<late, launch>> /\ stager' = [pc |-> "done", left |-> 0] /\ stager.pc = "mercy" /\ stager.left = 0
      BY <1>8 DEF MercyElapsed
    <2>2. StagerInTime /\ Waited' = Waited => StagerInTime'
      BY <1>0, <2>1, StartStays DEF StagerInTime
    <2> QED BY <1>3, <2>1, <2>2
  <1>9. CASE UNCHANGED <<late, launch, stager, tripped>>
    BY <1>3, <1>9 DEF StagesKeepUp, StagerInTime
  <1> QED
    BY <1>1, <1>2, <1>4, <1>5, <1>6, <1>7, <1>8, <1>9, StepCases, ArriveSets, PollIsBecome
       DEF FairingsEnd, vars

\* Without a late task, spawn_listener() is done before try_wait_shutdown().
LEMMA InTime == Spec => []TimeInv
  <1>1. Init => TimeInv
    <2> SUFFICES ASSUME Init PROVE TimeInv
      OBVIOUS
    <2>1. \A c \in Conns : conn[c].pc = "none"
      BY DEF Init, NoConn
    <2> QED BY <2>1 DEF Init, TimeInv, ServeState, StagesKeepUp
  <1>2. IInv /\ TimeInv /\ [Next]_vars => TimeInv'
    BY ServeStep, KeepUpStep DEF IInv, TimeInv
  <1> QED BY <1>1, <1>2, Inductive, PTL DEF Spec

\* The step at which launch() fails
LEMMA FailsWhen ==
    ASSUME IInv, TimeInv, [Next]_vars, ~late, launch.pc # "err", launch'.pc = "err"
    PROVE  \/ launch.panicked
           \/ fairings = "running"
           \/ launch.crashed /\ launch'.rocket = "owned"
  <1>0. launch \in Launch /\ TypeOK
    BY DEF TypeOK, Launch, IInv
  <1>1. Join \/ Wait
    <2>1. CASE \E ok \in BOOLEAN : Liftoff(ok)
      <3>1. launch'.pc \in {"serve", "wait"}
        BY <1>0, <2>1 DEF Liftoff, Launch
      <3> QED BY <3>1
    <2>2. CASE EndpointCloses \/ \E server \in Servers : StopServing(server) \/ Panic(server)
      <3>1. launch'.pc = launch.pc
        BY <1>0, <2>2 DEF EndpointCloses, StopServing, Panic, Launch
      <3> QED BY <3>1
    <2>3. CASE Tick
      <3>1. launch'.pc = launch.pc
        BY <1>0, <2>3 DEF Tick, Launch
      <3> QED BY <3>1
    <2> QED BY <1>0, <2>1, <2>2, <2>3, LaunchTouched DEF LaunchStep
  <1>2. CASE Join
    <2>1. launch'.pc = IF launch.panicked THEN "err" ELSE "wait"
      BY <1>0, <1>2 DEF Join, Launch
    <2> QED BY <2>1
  <1>3. CASE Wait
    <2>0. CASE Unshared
      BY <1>0, <1>3, <2>0 DEF Wait, GiveBack, Launch
    <2> SUFFICES ASSUME ~Unshared PROVE fairings = "running"
      BY <2>0
    <2>1. launch.pc = "wait" /\ launch.left = 0 /\ launch.period = NPeriods
      BY <1>0, <1>3 DEF Wait, Launch
    <2>2. Waited = 3 + Grace + Mercy
      BY <2>1, PeriodsAssumption DEF Waited, NPeriods
    <2>3. stager \in [pc : {"select", "grace", "mercy", "done"}, left : 0..(Grace + Mercy)]
      BY <1>0 DEF TypeOK
    <2>4. ~StagerInTime
      BY <2>2, <2>3, PeriodsAssumption DEF StagerInTime
    <2>5. TasksEnded
      BY <2>1, <2>4 DEF TimeInv, StagesKeepUp
    <2> QED BY <2>5 DEF Unshared, TasksEnded
  <1> QED BY <1>1, <1>2, <1>3

\* try_wait_shutdown(): while no task is late, its periods outlast the stages for
\* any grace and mercy, so that launch() fails only for a shutdown fairing that
\* still runs, because a server has panicked, or for a liftoff fairing that has, and
\* then with the Rocket in its error.
THEOREM FailureIsOfFairings == Spec => FailsOnlyForFairings
  <1>1. IInv /\ TimeInv /\ [Next]_vars =>
          [~late /\ launch.pc # "err" /\ launch'.pc = "err" =>
              \/ launch.panicked
              \/ fairings = "running"
              \/ launch.crashed /\ launch'.rocket = "owned"]_vars
    BY FailsWhen
  <1> QED BY <1>1, Inductive, InTime, PTL DEF Spec, FailsOnlyForFairings
=============================================================================
