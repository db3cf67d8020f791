------------------------------ MODULE Shutdown ------------------------------
(***************************************************************************)
(* Graceful shutdown: the three stages and the task that trips them        *)
(* (core/lib/src/shutdown/handle.rs), the tasks of serve12() with their    *)
(* cancellable I/O (listener/cancellable.rs) and those of serve3()         *)
(* (server.rs), and launch(), which joins the servers, waits and takes the *)
(* Rocket back (rocket.rs).                                                *)
(*                                                                         *)
(* Every stage is a TripWire; by TripWireProofs it is a latch, and tripping *)
(* it wakes the tasks that registered with it.  Time is counted in ticks   *)
(* of the short wait of try_wait_shutdown().  hyper, the peers, handlers   *)
(* and fairings are external: I/O completes, fails or stays pending,       *)
(* handlers and fairings return at any time or never.  Whenever hyper      *)
(* polls a connection it flushes it, also while it waits for a handler.    *)
(***************************************************************************)
EXTENDS Integers, FiniteSets

CONSTANTS
    Tcp,        \* connections of HTTP/1 and 2
    Quic,       \* connections of HTTP/3; none, and there is no server for it
    Streams,    \* requests of HTTP/3, each a task of its own
    Grace,      \* config.shutdown.grace(), in ticks
    Mercy       \* config.shutdown.mercy(), in ticks

\* The tasks that hold the Rocket
Conns == Tcp \cup Quic \cup Streams

ASSUME KindsAssumption == Tcp \cap (Quic \cup Streams) = {} /\ Quic \cap Streams = {}

ASSUME PeriodsAssumption == Grace \in Nat /\ Mercy \in Nat

VARIABLES
    tripped,    \* by stage: the wire has been tripped
    age,        \* history: ticks since start was tripped, up to Grace + Mercy
    late,       \* history: a tick has passed while a task could run
    stager,     \* the task of Stages::spawn_listener: [pc, left]
    launch,     \* the task of Rocket::launch: [pc, period, left], with the accept
                \* loops that still run, whether one of them has panicked or a
                \* liftoff fairing has crashed, and what try_wait_shutdown() returned
    fairings,   \* the task that runs the shutdown fairings
    conn        \* the connection tasks

vars == <<tripped, age, late, stager, launch, fairings, conn>>

Stages == {"start", "grace", "mercy"}

\* cancellable.rs: State, and the stage that each state waits for
States == {"Active", "Grace", "Mercy"}
Awaits == [Active |-> "start", Grace |-> "grace", Mercy |-> "mercy"]

\* serve12() and, if there is a QUIC endpoint, serve3()
Servers == IF Quic = {} THEN {"http12"} ELSE {"http12", "http3"}

\* What a task waits for: I/O of a connection, or a handler, in serve12(); a
\* stream, a handler, or for its response to be sent, in serve3()
IoPcs == {"idle", "body", "writing", "closing"}
Served == IoPcs \cup {"handler"}
QuicPcs == {"accept", "service", "sending"}
Pcs == {"none", "connect", "handler", "closed"} \cup IoPcs \cup QuicPcs
Conn == [pc : Pcs, state : States,
         graceful : BOOLEAN, wakers : SUBSET Stages, woken : BOOLEAN,
         why : {"open", "ended", "cancelled", "timed out"}]

NoConn == [pc |-> "none", state |-> "Active", graceful |-> FALSE, wakers |-> {}, woken |-> FALSE,
           why |-> "open"]
Closed(why) == [NoConn EXCEPT !.pc = "closed", !.why = why]

\* The stage that ends the waiting of a task
Due(task) ==
    IF task.pc \in Served THEN Awaits[task.state]
    ELSE IF task.pc = "service" THEN "mercy"
    ELSE IF task.pc = "sending" THEN "grace" ELSE "start"

\* The periods of try_wait_shutdown()
Periods == <<1, Grace, 1, Mercy, 1>>
NPeriods == 5

TypeOK ==
    /\ tripped \in [Stages -> BOOLEAN]
    /\ age \in 0..(Grace + Mercy)
    /\ late \in BOOLEAN
    /\ stager \in [pc : {"select", "grace", "mercy", "done"}, left : 0..(Grace + Mercy)]
    /\ launch \in [pc : {"liftoff", "serve", "wait", "ok", "err"}, period : 0..NPeriods,
                   left : 0..(Grace + Mercy + 1), loops : SUBSET {"http12", "http3"},
                   panicked : BOOLEAN, crashed : BOOLEAN, rocket : {"shared", "owned"}]
    /\ fairings \in {"none", "running", "done"}
    /\ conn \in [Conns -> Conn]
    /\ \A c \in Conns : conn[c].pc \in {"none", "closed"} => ~conn[c].woken /\ conn[c].wakers = {}

Init ==
    /\ tripped = [s \in Stages |-> FALSE]
    /\ age = 0
    /\ late = FALSE
    /\ stager = [pc |-> "select", left |-> 0]
    /\ launch = [pc |-> "liftoff", period |-> 0, left |-> 0, loops |-> {},
                 panicked |-> FALSE, crashed |-> FALSE, rocket |-> "shared"]
    /\ fairings = "none"
    /\ conn = [c \in Conns |-> NoConn]

-----------------------------------------------------------------------------
\* TripWire::trip, seen from the tasks
Trip(s) ==
    /\ tripped' = [tripped EXCEPT ![s] = TRUE]
    /\ conn' = [c \in Conns |-> IF s \in conn[c].wakers
                                THEN [conn[c] EXCEPT !.woken = TRUE, !.wakers = @ \ {s}]
                                ELSE conn[c]]

\* Shutdown::notify by a handler, a fairing or another task of the application
Notify ==
    /\ ~tripped["start"]
    /\ Trip("start")
    /\ UNCHANGED <<age, late, stager, launch, fairings>>

\* spawn_listener(): a signal ends the select
Signal ==
    /\ stager.pc = "select"
    /\ ~tripped["start"]
    /\ Trip("start")
    /\ stager' = [pc |-> "grace", left |-> Grace]
    /\ UNCHANGED <<age, late, launch, fairings>>

\* spawn_listener(): the wire ends the select
NoticeStart ==
    /\ stager.pc = "select"
    /\ tripped["start"]
    /\ stager' = [pc |-> "grace", left |-> Grace]
    /\ UNCHANGED <<tripped, age, late, launch, fairings, conn>>

GraceElapsed ==
    /\ stager.pc = "grace" /\ stager.left = 0
    /\ Trip("grace")
    /\ stager' = [pc |-> "mercy", left |-> Mercy]
    /\ UNCHANGED <<age, late, launch, fairings>>

MercyElapsed ==
    /\ stager.pc = "mercy" /\ stager.left = 0
    /\ Trip("mercy")
    /\ stager' = [pc |-> "done", left |-> 0]
    /\ UNCHANGED <<age, late, launch, fairings>>

-----------------------------------------------------------------------------
(* _launch(), listen_and_serve() and the accept loops                       *)

\* The liftoff fairings return, or one of them panics: then nothing is served, and
\* after try_wait_shutdown() launch() returns this error, with what that returned.
Liftoff(ok) ==
    /\ launch.pc = "liftoff"
    /\ launch' = [launch EXCEPT !.pc = IF ok THEN "serve" ELSE "wait",
                                !.loops = IF ok THEN Servers ELSE {},
                                !.crashed = ~ok]
    /\ fairings' = IF ok THEN fairings ELSE "running"
    /\ UNCHANGED <<tripped, age, late, stager, conn>>

ServerOf(c) == IF c \in Quic THEN "http3" ELSE "http12"
Accepted == [NoConn EXCEPT !.pc = "connect", !.woken = TRUE]

\* The accept loop outlives serve12().
AcceptLate(c) ==
    /\ c \notin Streams /\ launch.pc # "liftoff"
    /\ conn[c].pc = "none"
    /\ conn' = [conn EXCEPT ![c] = Accepted]
    /\ UNCHANGED <<tripped, age, late, stager, launch, fairings>>

\* accept().race(shutdown()) polls accept() first: a connection that is there is
\* taken even when the shutdown has started.
Accept(c) ==
    /\ c \notin Streams /\ ServerOf(c) \in launch.loops
    /\ conn[c].pc = "none"
    /\ conn' = [conn EXCEPT ![c] = Accepted]
    /\ UNCHANGED <<tripped, age, late, stager, launch, fairings>>

\* A loop notices the shutdown and returns.
StopServing(server) ==
    /\ server \in launch.loops
    /\ tripped["start"]
    /\ launch' = [launch EXCEPT !.loops = @ \ {server}]
    /\ UNCHANGED <<tripped, age, late, stager, fairings, conn>>

\* serve3() also returns when its endpoint is closed.
EndpointCloses ==
    /\ "http3" \in launch.loops
    /\ launch' = [launch EXCEPT !.loops = @ \ {"http3"}]
    /\ UNCHANGED <<tripped, age, late, stager, fairings, conn>>

\* The task of a loop panics, in the accept() of a listener.
Panic(server) ==
    /\ server \in launch.loops
    /\ launch' = [launch EXCEPT !.loops = @ \ {server}, !.panicked = TRUE]
    /\ UNCHANGED <<tripped, age, late, stager, fairings, conn>>

\* The first of the servers to end ends listen_and_serve().
JoinFirst ==
    /\ launch.pc = "serve" /\ launch.loops # Servers
    /\ launch' = [launch EXCEPT !.pc = IF launch.panicked THEN "err" ELSE "wait"]
    /\ fairings' = IF launch.panicked THEN fairings ELSE "running"
    /\ UNCHANGED <<tripped, age, late, stager, conn>>

\* join!: both servers are waited for; if one has panicked, launch() fails there.
\* Otherwise try_wait_shutdown() spawns the shutdown fairings.
Join ==
    /\ launch.pc = "serve" /\ launch.loops = {}
    /\ launch' = [launch EXCEPT !.pc = IF launch.panicked THEN "err" ELSE "wait"]
    /\ fairings' = IF launch.panicked THEN fairings ELSE "running"
    /\ UNCHANGED <<tripped, age, late, stager, conn>>

FairingsEnd ==
    /\ fairings = "running"
    /\ fairings' = "done"
    /\ UNCHANGED <<tripped, age, late, stager, launch, conn>>

\* Arc::strong_count(&self) == 1: no connection, request or fairing task is left
Unshared ==
    /\ \A c \in Conns : conn[c].pc \in {"none", "closed"}
    /\ fairings # "running"

\* try_unwrap(), and what launch() makes of it.  Both results are in the error of
\* a liftoff that failed.
GiveBack == [launch EXCEPT !.pc = IF Unshared /\ ~launch.crashed THEN "ok" ELSE "err",
                           !.rocket = IF Unshared THEN "owned" ELSE "shared"]

\* The waiting ends with the grace period.
WaitGraceOnly ==
    /\ launch.pc = "wait" /\ launch.left = 0
    /\ launch' = IF Unshared \/ launch.period = 3
                 THEN GiveBack
                 ELSE [launch EXCEPT !.period = @ + 1, !.left = Periods[launch.period + 1]]
    /\ UNCHANGED <<tripped, age, late, stager, fairings, conn>>

\* One turn of the loop of try_wait_shutdown(), or what follows it
Wait ==
    /\ launch.pc = "wait" /\ launch.left = 0
    /\ launch' = IF Unshared \/ launch.period = NPeriods
                 THEN GiveBack
                 ELSE [launch EXCEPT !.period = @ + 1, !.left = Periods[launch.period + 1]]
    /\ UNCHANGED <<tripped, age, late, stager, fairings, conn>>

-----------------------------------------------------------------------------
(* The task of a connection.  It is polled when it is woken.               *)

Become(c, task) ==
    /\ conn' = [conn EXCEPT ![c] = task]
    /\ UNCHANGED <<tripped, age, late, stager, launch, fairings>>

\* connect().race_io(shutdown()), in both servers
Connect(c) ==
    /\ conn[c].pc = "connect" /\ conn[c].woken
    /\ \/ Become(c, [conn[c] EXCEPT !.pc = IF c \in Quic THEN "accept" ELSE "idle"])
       \/ Become(c, Closed("ended"))
       \/ Become(c, IF tripped["start"] THEN Closed("ended")
                    ELSE [conn[c] EXCEPT !.woken = FALSE, !.wakers = {"start"}])

\* What the task still awaits besides its I/O: race(shutdown()) until it is over
Raced(c) == IF conn[c].graceful THEN {} ELSE {"start"}

\* The grace state looks at the wire that has already been tripped.
StateNowSkipsGrace(state) == IF state = "Active" /\ ~tripped["start"] THEN "Active" ELSE "Mercy"

\* The loop of poll_with(): the state in which it stops
StateNow(state) ==
    IF state = "Active" /\ ~tripped["start"] THEN "Active"
    ELSE IF state \in {"Active", "Grace"} /\ ~tripped["grace"] THEN "Grace"
    ELSE "Mercy"

\* do_io() is ready: the request, a part of its body or the response is through.
IoDone(c) ==
    /\ conn[c].pc \in IoPcs /\ conn[c].woken
    /\ StateNow(conn[c].state) # "Mercy"
    /\ Become(c,
          IF conn[c].pc = "closing" THEN Closed("ended")
          ELSE [conn[c] EXCEPT !.state = StateNow(conn[c].state),
                               !.wakers = @ \cup {Awaits[StateNow(conn[c].state)]},
                               !.pc = CASE conn[c].pc \in {"idle", "body"} -> "handler"
                                        [] conn[c].graceful -> "closing"
                                        [] OTHER -> "idle"])

\* The peer hangs up, or the I/O fails.
IoFails(c) ==
    /\ conn[c].pc \in Served /\ conn[c].woken
    /\ Become(c, Closed("ended"))

\* poll_flush() goes past poll_with(): a pending handler keeps the task from
\* looking at the stages.
IoPendsUnstaged(c) ==
    /\ conn[c].pc \in Served /\ conn[c].woken
    /\ LET state == IF conn[c].pc = "handler" THEN conn[c].state ELSE StateNow(conn[c].state)
           stage == IF conn[c].pc = "handler" THEN {} ELSE {Awaits[state]} IN
       /\ state # "Mercy"
       /\ Become(c,
             IF tripped["start"] /\ ~conn[c].graceful
             THEN [conn[c] EXCEPT !.state = state, !.graceful = TRUE,
                                  !.pc = IF @ = "idle" THEN "closing" ELSE @]
             ELSE [conn[c] EXCEPT !.state = state, !.woken = FALSE,
                                  !.wakers = @ \cup stage \cup Raced(c)])

\* do_io() is pending, or the handler is and do_io() has flushed.  Then
\* race(shutdown()) is polled; when the shutdown has started,
\* graceful_shutdown() closes an idle connection, and the server is polled again.
IoPends(c) ==
    /\ conn[c].pc \in Served /\ conn[c].woken
    /\ LET state == StateNow(conn[c].state) IN
       /\ state # "Mercy"
       /\ Become(c,
             IF tripped["start"] /\ ~conn[c].graceful
             THEN [conn[c] EXCEPT !.state = state, !.graceful = TRUE,
                                  !.pc = IF @ = "idle" THEN "closing" ELSE @]
             ELSE [conn[c] EXCEPT !.state = state, !.woken = FALSE,
                                  !.wakers = @ \cup {Awaits[state]} \cup Raced(c)])

\* The grace period is over: poll_cancel() ends the I/O, or is pending.
IoCancelled(c) ==
    /\ conn[c].pc \in Served /\ conn[c].woken
    /\ StateNow(conn[c].state) = "Mercy"
    /\ ~tripped["mercy"]
    /\ \/ Become(c, Closed("cancelled"))
       \/ Become(c, [conn[c] EXCEPT !.state = "Mercy", !.graceful = TRUE,
                                    !.woken = FALSE, !.wakers = @ \cup {"mercy"}])

\* The mercy period is over: time_out()
IoTimesOut(c) ==
    /\ conn[c].pc \in Served /\ conn[c].woken
    /\ StateNow(conn[c].state) = "Mercy"
    /\ tripped["mercy"]
    /\ Become(c, Closed("timed out"))

\* The handler reads the body, or produces its response.
HandlerReturns(c) ==
    /\ conn[c].pc = "handler" /\ conn[c].woken
    /\ \E pc \in {"body", "writing"} : Become(c, [conn[c] EXCEPT !.pc = pc])

-----------------------------------------------------------------------------
(* The tasks of serve3(): one for a connection, one for each of its streams *)

\* The next stream of the connection
StreamComes(q, s) ==
    /\ q \in Quic /\ conn[q].pc = "accept" /\ conn[q].woken
    /\ s \in Streams /\ conn[s].pc = "none"
    /\ Become(s, [NoConn EXCEPT !.pc = "service", !.woken = TRUE])

\* stream.accept(), the service and send_response() are over, or have failed.
QuicReady(c) ==
    /\ conn[c].pc \in QuicPcs /\ conn[c].woken
    /\ \/ Become(c, Closed("ended"))
       \/ conn[c].pc = "service" /\ Become(c, [conn[c] EXCEPT !.pc = "sending"])

\* What a stage makes of the task that it ends
Ends(stage) ==
    IF stage = "start" THEN "ended" ELSE IF stage = "grace" THEN "cancelled" ELSE "timed out"

\* The service, too, is raced with the end of the grace period.
QuicPendsBriefly(c) ==
    /\ conn[c].pc \in QuicPcs /\ conn[c].woken
    /\ LET stage == IF conn[c].pc = "accept" THEN "start" ELSE "grace" IN
       Become(c, IF tripped[stage] THEN Closed(Ends(Due(conn[c])))
                 ELSE [conn[c] EXCEPT !.woken = FALSE, !.wakers = @ \cup {stage}])

\* They are pending: the stage that each is raced with is looked at.  A body that
\* the service reads is cancellable by itself; its failing is the handler's affair.
QuicPends(c) ==
    /\ conn[c].pc \in QuicPcs /\ conn[c].woken
    /\ LET stage == Due(conn[c]) IN
       Become(c, IF tripped[stage] THEN Closed(Ends(stage))
                 ELSE [conn[c] EXCEPT !.woken = FALSE, !.wakers = @ \cup {stage}])

\* The I/O driver, or what a handler waits for, wakes the task.
Wake(c) ==
    /\ conn[c].pc \notin {"none", "closed"}
    /\ ~conn[c].woken
    /\ Become(c, [conn[c] EXCEPT !.woken = TRUE])

-----------------------------------------------------------------------------
AtMost(n, m) == IF n <= m THEN n ELSE m
Less(n) == IF n = 0 THEN 0 ELSE n - 1

\* A task can run now: something that has happened is still unnoticed.
Runnable ==
    \/ stager.pc = "select" /\ tripped["start"]
    \/ stager.pc \in {"grace", "mercy"} /\ stager.left = 0
    \/ launch.pc = "serve" /\ (tripped["start"] \/ launch.loops = {})
    \/ launch.pc = "wait" /\ launch.left = 0
    \/ \E c \in Conns : conn[c].woken

Tick ==
    /\ stager.left > 0 \/ launch.left > 0
    /\ stager' = [stager EXCEPT !.left = Less(@)]
    /\ launch' = [launch EXCEPT !.left = Less(@)]
    /\ age' = IF tripped["start"] THEN AtMost(age + 1, Grace + Mercy) ELSE age
    /\ late' = (late \/ Runnable)
    /\ UNCHANGED <<tripped, fairings, conn>>

Stager == NoticeStart \/ GraceElapsed \/ MercyElapsed
Launcher == Join \/ Wait
IoPoll(c) == IoDone(c) \/ IoFails(c) \/ IoPends(c) \/ IoCancelled(c) \/ IoTimesOut(c)
QuicPoll(c) == QuicReady(c) \/ QuicPends(c)
Poll(c) == Connect(c) \/ IoPoll(c) \/ HandlerReturns(c) \/ QuicPoll(c)

Done == launch.pc \in {"ok", "err"} /\ stager.pc = "done" /\ UNCHANGED vars

Others ==
    \/ Notify \/ Signal \/ Stager
    \/ \E ok \in BOOLEAN : Liftoff(ok)
    \/ Launcher \/ FairingsEnd \/ EndpointCloses
    \/ \E server \in Servers : StopServing(server) \/ Panic(server)
    \/ \E q \in Quic, s \in Streams : StreamComes(q, s)
    \/ \E c \in Conns : Accept(c) \/ Poll(c) \/ Wake(c)
    \/ Done

Next == Tick \/ Others

Spec == Init /\ [][Next]_vars

\* Timers fire, woken tasks are polled, liftoff fairings return.  Nothing is
\* said of shutdown fairings or of the peers, and of handlers only that they
\* do not block the thread that polls them.
FairSpec ==
    /\ Spec
    /\ WF_vars(Tick) /\ WF_vars(Stager) /\ WF_vars(Launcher)
    /\ WF_vars(\E ok \in BOOLEAN : Liftoff(ok))
    /\ \A server \in Servers : WF_vars(StopServing(server))
    /\ \A c \in Conns : WF_vars(Poll(c))

-----------------------------------------------------------------------------
\* spawn_listener(): the stages come in order, and not before their time: I/O
\* has the whole grace period, connections then the whole mercy period.
StagesInOrder ==
    /\ tripped["grace"] => tripped["start"] /\ age >= Grace
    /\ tripped["mercy"] => tripped["grace"] /\ age >= Grace + Mercy

\* Cancellable: however late a task is polled, the I/O of a connection is shut
\* down only after the grace period and cut off only after the mercy period.
NotCutShort ==
    \A c \in Conns :
        /\ conn[c].state = "Mercy" \/ conn[c].why = "cancelled" => age >= Grace
        /\ conn[c].why = "timed out" => age >= Grace + Mercy

\* Whatever a task waits for, in serve12() or serve3(): while it sleeps, it is
\* registered with the stage that ends this waiting, and that is still to come.
SleepersWillWake ==
    \A c \in Conns : ~conn[c].woken /\ conn[c].pc \notin {"none", "closed"} =>
        Due(conn[c]) \in conn[c].wakers /\ ~tripped[Due(conn[c])]

\* listen_and_serve(): launch() neither waits nor returns while a server still
\* accepts, whichever of them ends first, and the panic of a server or of a liftoff
\* fairing is not forgotten.
ServersAreJoined ==
    /\ launch.pc # "serve" => launch.loops = {}
    /\ launch.pc \notin {"serve", "err"} => ~launch.panicked
    /\ launch.pc = "ok" => ~launch.crashed

\* try_wait_shutdown(): when launch() returns the Rocket, as its result or within
\* the error of a liftoff, no connection task, request or shutdown fairing is left
\* or will ever come.
OkIsSoleOwner ==
    /\ launch.pc = "ok" => launch.rocket = "owned"
    /\ launch.rocket = "owned" => launch.pc \in {"ok", "err"} /\ Unshared

-----------------------------------------------------------------------------
(* What makes StagesInOrder and NotCutShort inductive                      *)

\* Where the task of spawn_listener() is says which stages are over, and how
\* much of the current one is left.
StagerState ==
    /\ stager.pc = "select" => ~tripped["grace"] /\ ~tripped["mercy"]
    /\ stager.pc = "grace" => /\ tripped["start"] /\ ~tripped["grace"] /\ ~tripped["mercy"]
                              /\ age + stager.left >= Grace
    /\ stager.pc = "mercy" => /\ tripped["start"] /\ tripped["grace"] /\ ~tripped["mercy"]
                              /\ age >= Grace
                              /\ age + stager.left >= Grace + Mercy
    /\ stager.pc = "done" => /\ tripped["start"] /\ tripped["grace"] /\ tripped["mercy"]
                             /\ age >= Grace + Mercy

\* A connection is in the state of a stage only when the stage has come.
ConnState ==
    \A c \in Conns :
        /\ conn[c].state = "Mercy" \/ conn[c].why = "cancelled" => tripped["grace"]
        /\ conn[c].why = "timed out" => tripped["mercy"]

IInv == TypeOK /\ StagerState /\ ConnState /\ SleepersWillWake /\ ServersAreJoined /\ OkIsSoleOwner

\* Nothing is served before the liftoff fairings have returned, and the accept loop
\* of serve12() ends with the shutdown, or in a panic.
ServeState ==
    /\ launch.pc \in {"liftoff", "serve"} => launch.period = 0 /\ launch.left = 0
    /\ launch.pc = "liftoff" => \A c \in Conns : conn[c].pc = "none"
    /\ launch.pc = "serve" => "http12" \in launch.loops \/ tripped["start"] \/ launch.panicked

\* The ticks that try_wait_shutdown() has let pass
Waited ==
    <<0, 1, 1 + Grace, 2 + Grace, 2 + Grace + Mercy, 3 + Grace + Mercy>>[launch.period + 1] - launch.left

TasksEnded == \A c \in Conns : conn[c].pc \in {"none", "closed"}

\* spawn_listener() is not behind try_wait_shutdown().
StagerInTime ==
    /\ tripped["start"]
    /\ stager.pc = "select" => Waited = 0
    /\ stager.pc = "grace" => stager.left + Waited <= Grace
    /\ stager.pc = "mercy" => stager.left + Waited <= Grace + Mercy
    /\ stager.pc = "done" => Waited <= Grace + Mercy

\* While nothing is late, the stages are in time until no task is left.
StagesKeepUp ==
    /\ stager.pc = "grace" => stager.left <= Grace
    /\ stager.pc = "mercy" => stager.left <= Mercy
    /\ ~late /\ launch.pc = "wait" => TasksEnded \/ StagerInTime

TimeInv == ServeState /\ StagesKeepUp

-----------------------------------------------------------------------------
\* try_wait_shutdown(): on a runtime that keeps up with its timers, a launch() that
\* was bound fails for three reasons only: a server has panicked, a shutdown fairing
\* is still running, or a liftoff fairing has panicked, and then the error has the
\* Rocket.  The periods outlast the stages, which end every connection, whatever
\* peers and handlers do.
FailsOnlyForFairings ==
    [][~late /\ launch.pc # "err" /\ launch'.pc = "err" =>
          \/ launch.panicked
          \/ fairings = "running"
          \/ launch.crashed /\ launch'.rocket = "owned"]_vars

\* launch() returns after a shutdown has started, whatever handlers and peers do, and
\* "Rocket guarantees, however, that all requests are completed or aborted once
\* [grace and mercy periods] have expired" (fairing/mod.rs): Cancellable ends
\* every connection, even when its peer never answers and its handler never
\* returns.
ShutdownEnds ==
    /\ tripped["start"] ~> launch.pc \in {"ok", "err"}
    /\ tripped["mercy"] ~> \A c \in Conns : conn[c].pc \in {"none", "closed"}
=============================================================================
