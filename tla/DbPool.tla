------------------------------- MODULE DbPool -------------------------------
(***************************************************************************)
(* contrib/sync_db_pools/lib/src/connection.rs: connections of a blocking  *)
(* database driver, lent to asynchronous request handlers.                 *)
(*                                                                         *)
(* A request first takes a permit of an asynchronous semaphore, then has a *)
(* blocking thread take a connection out of r2d2's pool.  Everything that  *)
(* touches the connection is a job on a blocking thread: each run() of the *)
(* handler, and the return of the connection when the Connection is        *)
(* dropped.  Jobs are never cancelled: they outlive the future that        *)
(* spawned them.                                                           *)
(*                                                                         *)
(* External: tokio's semaphore is first come, first served; its blocking   *)
(* pool is a queue served by MaxBlocking threads; r2d2 keeps the idle      *)
(* connections.                                                            *)
(***************************************************************************)
EXTENDS Integers, Sequences, FiniteSets, SequencesExt

CONSTANTS
    Requests,       \* the requests that use the database
    Conns,          \* the connections of the pool: pool_size many
    NoConn,         \* None
    Calls,          \* bound: the calls of run(), each a request and a label
    MaxBlocking     \* threads for blocking jobs

ASSUME PoolAssumption ==
    /\ IsFiniteSet(Conns) /\ NoConn \notin Conns
    /\ MaxBlocking \in Nat \ {0}
    /\ \A call \in Calls :
          /\ call = <<call[1], call[2]>>
          /\ call[1] \in Requests /\ call[2] \notin {"get", "drop"}

Job == Calls \cup (Requests \X {"get", "drop"})

\* The calls that request r may make
Runs(r) == {call[2] : call \in {c \in Calls : c[1] = r}}

VARIABLES
    task,       \* by request: where its future is
    waiting,    \* the queue of the semaphore
    permits,    \* the semaphore's free permits
    idle,       \* the connections in r2d2's pool
    conn,       \* by request: the Option<PooledConnection> its jobs share
    queue,      \* jobs that no thread has taken yet
    job         \* by job: its progress

vars == <<task, waiting, permits, idle, conn, queue, job>>

Gone == {"ended", "cancelled", "unavailable"}

TypeOK ==
    /\ task \in [Requests -> {"new", "acquiring", "getting", "holding"} \cup Gone]
    /\ waiting \in Seq(Requests)
    /\ permits \in 0 .. Cardinality(Conns)
    /\ idle \subseteq Conns
    /\ conn \in [Requests -> Conns \cup {NoConn}]
    /\ queue \in Seq(Job)
    /\ job \in [Job -> {"none", "queued", "running", "active", "done", "panicked"}]

Init ==
    /\ task = [r \in Requests |-> "new"]
    /\ waiting = <<>>
    /\ permits = Cardinality(Conns)
    /\ idle = Conns
    /\ conn = [r \in Requests |-> NoConn]
    /\ queue = <<>>
    /\ job = [j \in Job |-> "none"]

-----------------------------------------------------------------------------
\* tokio::task::spawn_blocking
Spawn(j) ==
    /\ queue' = Append(queue, j)
    /\ job' = [job EXCEPT ![j] = "queued"]

\* A free thread takes the oldest job.
StartJob ==
    /\ queue # <<>>
    /\ Cardinality({j \in Job : job[j] \in {"running", "active"}}) < MaxBlocking
    /\ job' = [job EXCEPT ![Head(queue)] = "running"]
    /\ queue' = Tail(queue)
    /\ UNCHANGED <<task, waiting, permits, idle, conn>>

\* The permit is granted: enough permits are free for everybody ahead.
Granted(r) == \E i \in DOMAIN waiting : waiting[i] = r /\ i <= permits

Leave(r) == \E i \in DOMAIN waiting : waiting[i] = r /\ waiting' = RemoveAt(waiting, i)

\* A dropped PooledConnection goes back to the pool.
GiveBack(r) ==
    /\ idle' = idle \cup ({conn[r]} \ {NoConn})
    /\ conn' = [conn EXCEPT ![r] = NoConn]

-----------------------------------------------------------------------------
(* ConnectionPool::get                                                     *)

\* FromRequest: semaphore.acquire_owned() joins the queue.
Request(r) ==
    /\ task[r] = "new"
    /\ task' = [task EXCEPT ![r] = "acquiring"]
    /\ waiting' = Append(waiting, r)
    /\ UNCHANGED <<permits, idle, conn, queue, job>>

\* timeout() gives up only if the permit is not there.
AcquireTimeout(r) ==
    /\ task[r] = "acquiring" /\ ~Granted(r)
    /\ task' = [task EXCEPT ![r] = "unavailable"]
    /\ Leave(r)
    /\ UNCHANGED <<permits, idle, conn, queue, job>>

\* The permit is not taken out of the semaphore.
AcquireUncounted(r) ==
    /\ task[r] = "acquiring" /\ Granted(r)
    /\ task' = [task EXCEPT ![r] = "getting"]
    /\ Leave(r)
    /\ Spawn(<<r, "get">>)
    /\ UNCHANGED <<permits, idle, conn>>

\* With the permit, a job is sent to take a connection out of the pool.
Acquire(r) ==
    /\ task[r] = "acquiring" /\ Granted(r)
    /\ task' = [task EXCEPT ![r] = "getting"]
    /\ Leave(r)
    /\ permits' = permits - 1
    /\ Spawn(<<r, "get">>)
    /\ UNCHANGED <<idle, conn>>

\* pool.get_timeout(): a connection is taken...
GetOk(r) ==
    /\ job[<<r, "get">>] = "running"
    /\ \E c \in idle : conn' = [conn EXCEPT ![r] = c] /\ idle' = idle \ {c}
    /\ job' = [job EXCEPT ![<<r, "get">>] = "active"]
    /\ UNCHANGED <<task, waiting, permits, queue>>

\* ... or the time is over.
GetTimeout(r) ==
    /\ job[<<r, "get">>] = "running"
    /\ job' = [job EXCEPT ![<<r, "get">>] = "done"]
    /\ UNCHANGED <<task, waiting, permits, idle, conn, queue>>

\* The job ends.  Its result waits for the future, or is dropped on the
\* thread if the future is gone.
GetReturns(r) ==
    /\ job[<<r, "get">>] = "active"
    /\ job' = [job EXCEPT ![<<r, "get">>] = "done"]
    /\ IF task[r] = "cancelled" THEN GiveBack(r) ELSE UNCHANGED <<idle, conn>>
    /\ UNCHANGED <<task, waiting, permits, queue>>

\* The future goes on: a Connection with the permit in it, or None, the
\* permit being dropped; the guard then fails with 503.
Deliver(r) ==
    /\ task[r] = "getting" /\ job[<<r, "get">>] = "done"
    /\ \/ /\ conn[r] # NoConn
          /\ task' = [task EXCEPT ![r] = "holding"]
          /\ UNCHANGED permits
       \/ /\ conn[r] = NoConn
          /\ task' = [task EXCEPT ![r] = "unavailable"]
          /\ permits' = permits + 1
    /\ UNCHANGED <<waiting, idle, conn, queue, job>>

-----------------------------------------------------------------------------
(* Connection::run                                                         *)

\* The handler calls run(); it may have other calls under way (join!).
Run(r, i) ==
    /\ task[r] = "holding" /\ job[<<r, i>>] = "none"
    /\ Spawn(<<r, i>>)
    /\ UNCHANGED <<task, waiting, permits, idle, conn>>

\* A call that panicked leaves the mutex locked.
UnlockedUnlessPanicked(r) ==
    \A i \in Runs(r) \cup {"drop"} : job[<<r, i>>] \notin {"active", "panicked"}

\* The mutex of the request's connection
Unlocked(r) == \A i \in Runs(r) \cup {"drop"} : job[<<r, i>>] # "active"

\* lock_owned(), then expect("self.connection is Some")
RunLocks(r, i) ==
    /\ job[<<r, i>>] = "running" /\ Unlocked(r)
    /\ job' = [job EXCEPT ![<<r, i>>] = IF conn[r] = NoConn THEN "panicked" ELSE "active"]
    /\ UNCHANGED <<task, waiting, permits, idle, conn, queue>>

\* f(conn) returns or panics; the guard is dropped either way.
RunEnds(r, i) ==
    /\ job[<<r, i>>] = "active"
    /\ \E end \in {"done", "panicked"} : job' = [job EXCEPT ![<<r, i>>] = end]
    /\ UNCHANGED <<task, waiting, permits, idle, conn, queue>>

-----------------------------------------------------------------------------
(* Drop for Connection                                                     *)

\* The job that returns the connection is never sent.
DropForgets(r) ==
    /\ permits' = permits + 1
    /\ UNCHANGED <<waiting, idle, conn, queue, job>>

\* Drop::drop inside the runtime: a job is sent to return the connection, and
\* the permit is released at once.
DropConnection(r) ==
    /\ Spawn(<<r, "drop">>)
    /\ permits' = permits + 1
    /\ UNCHANGED <<waiting, idle, conn>>

\* The handler ends: its calls of run() have returned, or one of them panicked,
\* which unwinds the handler and abandons the others.
Finish(r) ==
    /\ task[r] = "holding"
    /\ \/ \A i \in Runs(r) : job[<<r, i>>] \in {"none", "done"}
       \/ \E i \in Runs(r) : job[<<r, i>>] = "panicked"
    /\ task' = [task EXCEPT ![r] = "ended"]
    /\ DropConnection(r)

\* Drop::drop on a thread outside the runtime, where a handler has stored the
\* connection: it is returned before the permit.  A call of run() whose future
\* was dropped may still be queued.
DropOutside(r) ==
    /\ task[r] = "holding" /\ Unlocked(r)
    /\ task' = [task EXCEPT ![r] = "ended"]
    /\ GiveBack(r)
    /\ permits' = permits + 1
    /\ UNCHANGED <<waiting, queue, job>>

\* The connection is taken out of the Option without the mutex.
DropJobUnlocked(r) ==
    /\ job[<<r, "drop">>] = "running"
    /\ GiveBack(r)
    /\ job' = [job EXCEPT ![<<r, "drop">>] = "done"]
    /\ UNCHANGED <<task, waiting, permits, queue>>

\* The job locks the mutex, takes the connection and drops it.
DropJob(r) ==
    /\ job[<<r, "drop">>] = "running" /\ Unlocked(r)
    /\ GiveBack(r)
    /\ job' = [job EXCEPT ![<<r, "drop">>] = "done"]
    /\ UNCHANGED <<task, waiting, permits, queue>>

\* The client is gone and the request's future is dropped wherever it is.  A
\* job it was waiting for goes on.
Cancel(r) ==
    /\ task' = [task EXCEPT ![r] = "cancelled"]
    /\ \/ /\ task[r] = "acquiring"
          /\ Leave(r)
          /\ UNCHANGED <<permits, idle, conn, queue, job>>
       \/ /\ task[r] = "getting"
          /\ permits' = permits + 1
          /\ IF job[<<r, "get">>] = "done" THEN GiveBack(r) ELSE UNCHANGED <<idle, conn>>
          /\ UNCHANGED <<waiting, queue, job>>
       \/ /\ task[r] = "holding"
          /\ DropConnection(r)

-----------------------------------------------------------------------------
Served == \A r \in Requests : task[r] \in Gone

\* The steps that the scheduler, the timers and the database bring about
Progress(r) ==
    \/ AcquireTimeout(r) \/ Acquire(r) \/ GetOk(r) \/ GetTimeout(r) \/ GetReturns(r)
    \/ Deliver(r) \/ DropJob(r)
    \/ \E i \in Runs(r) : RunLocks(r, i) \/ RunEnds(r, i)

Next ==
    \/ StartJob
    \/ \E r \in Requests :
          \/ Request(r) \/ Cancel(r) \/ Finish(r) \/ DropOutside(r)
          \/ \E i \in Runs(r) : Run(r, i)
          \/ Progress(r)

\* Tasks are polled and threads run; a permit or a connection that does not come
\* is bounded by a timeout; what a handler does with its connection ends.
Fairness ==
    /\ WF_vars(StartJob)
    /\ \A r \in Requests : WF_vars(Progress(r)) /\ WF_vars(Finish(r))

Spec == Init /\ [][Next]_vars /\ Fairness

-----------------------------------------------------------------------------
\* A connection is in one place: in the pool, or behind one request's mutex.  At
\* most one job works with it, also when the request is long gone and the job that
\* returns it has been sent.  And a handler that holds a Connection has one behind
\* the mutex, or the expect() of its next run() would panic.
ExclusiveUse ==
    /\ \A r \in Requests : conn[r] \notin idle
    /\ \A r, q \in Requests : r # q /\ conn[r] # NoConn => conn[r] # conn[q]
    /\ \A r \in Requests :
          LET users == {i \in Runs(r) : job[<<r, i>>] = "active"} IN
          Cardinality(users) <= 1 /\ (users # {} => conn[r] # NoConn)
    /\ \A r \in Requests : task[r] = "holding" => conn[r] # NoConn

\* Permits: a request that has its permit waits inside r2d2 only for a connection
\* whose request is gone and whose return is late; never for a live request.
WaitsOnlyForLateReturns ==
    \A r \in Requests : task[r] = "getting" /\ conn[r] = NoConn /\ idle = {} =>
        \E q \in Requests : conn[q] # NoConn /\ task[q] \in Gone

-----------------------------------------------------------------------------
(* The inductive invariant behind the two                                  *)

\* A job is in the queue once, and only before a thread takes it.
QueueIsSound ==
    /\ \A k \in DOMAIN queue : job[queue[k]] = "queued"
    /\ \A k, l \in DOMAIN queue : queue[k] = queue[l] => k = l

\* What the place of a request's future says of its jobs and its connection: a
\* connection comes only with the end of the "get" job, all other jobs come after
\* it, and the job that returns the connection is sent when the handler is gone.
Stages(r) ==
    /\ task[r] \in {"new", "acquiring"} => job[<<r, "get">>] = "none"
    /\ task[r] \in {"new", "acquiring", "getting", "holding"} => job[<<r, "drop">>] = "none"
    /\ task[r] = "holding" => job[<<r, "get">>] = "done" /\ conn[r] # NoConn
    /\ job[<<r, "get">>] \notin {"active", "done"} => conn[r] = NoConn
    /\ job[<<r, "get">>] # "done" \/ task[r] = "getting" =>
          job[<<r, "drop">>] = "none" /\ \A i \in Runs(r) : job[<<r, i>>] = "none"

\* The mutex: one job at a time, and the connection stays while a job has it.
Mutex(r) ==
    /\ \A i, k \in Runs(r) : job[<<r, i>>] = "active" /\ job[<<r, k>>] = "active" => i = k
    /\ \A i \in Runs(r) : job[<<r, i>>] = "active" => conn[r] # NoConn

\* Every connection is in exactly one place.
Placed ==
    /\ \A r \in Requests : conn[r] \notin idle
    /\ \A r, q \in Requests : conn[r] # NoConn /\ conn[r] = conn[q] => r = q
    /\ \A c \in Conns : c \in idle \/ \E r \in Requests : conn[r] = c

\* The requests that have a permit
Permitted == {r \in Requests : task[r] \in {"getting", "holding"}}

Counted == IsFiniteSet(Permitted) /\ Cardinality(Permitted) + permits = Cardinality(Conns)

IInv ==
    /\ TypeOK
    /\ QueueIsSound
    /\ \A r \in Requests : Stages(r) /\ Mutex(r)
    /\ Placed
    /\ Counted

\* Every request for a connection is answered, by a connection, 503 or its end.
RequestsEnd == \A r \in Requests : task[r] = "acquiring" ~> task[r] \in Gone

\* In the end the pool and the semaphore are full again, whatever was cancelled.
PoolRecovers == <>[](Served => idle = Conns /\ permits = Cardinality(Conns))
=============================================================================
