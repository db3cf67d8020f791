---------------------------- MODULE DbPoolProofs ----------------------------
(***************************************************************************)
(* Proofs about DbPool for any requests, any pool size, any calls of run() *)
(* and any number of blocking threads.                                     *)
(***************************************************************************)
EXTENDS DbPool, FiniteSetTheorems, SequenceTheorems, TLAPS

\* A request's jobs are jobs, and a call is not its "get" or its "drop".
LEMMA JobsOfRequest ==
    ASSUME NEW r \in Requests
    PROVE  /\ <<r, "get">> \in Job /\ <<r, "drop">> \in Job
           /\ \A i \in Runs(r) : <<r, i>> \in Job /\ i \notin {"get", "drop"}
BY PoolAssumption DEF Job, Runs

\* Removing an element leaves a sequence over the same set.
LEMMA RemoveAtType ==
    ASSUME NEW S, NEW s \in Seq(S), NEW i \in DOMAIN s
    PROVE  RemoveAt(s, i) \in Seq(S)
<1>1. SubSeq(s, 1, i - 1) \in Seq(S)
  OBVIOUS
<1>2. SubSeq(s, i + 1, Len(s)) \in Seq(S)
  OBVIOUS
<1> QED
  BY <1>1, <1>2, ConcatProperties DEF RemoveAt

\* Leaving the semaphore's queue
LEMMA LeaveType ==
    ASSUME waiting \in Seq(Requests), NEW r, Leave(r)
    PROVE  waiting' \in Seq(Requests)
BY RemoveAtType DEF Leave

\* A job that was never sent is put into the queue.
LEMMA SpawnKeepsQueue ==
    ASSUME TypeOK, QueueIsSound, NEW j \in Job, job[j] = "none", Spawn(j)
    PROVE  /\ queue' \in Seq(Job)
           /\ job' \in [Job -> {"none", "queued", "running", "active", "done", "panicked"}]
           /\ QueueIsSound'
<1>1. queue \in Seq(Job) /\ queue' = Append(queue, j)
  BY DEF TypeOK, Spawn
<1>2. /\ DOMAIN queue' = 1 .. Len(queue) + 1 /\ queue'[Len(queue) + 1] = j
      /\ \A k \in 1 .. Len(queue) : queue'[k] = queue[k]
      /\ queue' \in Seq(Job)
  BY <1>1, AppendProperties
<1>3. \A k \in 1 .. Len(queue) : queue[k] \in Job /\ queue[k] # j /\ job'[queue[k]] = "queued"
  BY <1>1 DEF TypeOK, QueueIsSound, Spawn
<1>4. job'[j] = "queued"
  BY DEF TypeOK, Spawn
<1>5. DOMAIN queue = 1 .. Len(queue) /\ Len(queue) \in Nat
  BY <1>1
<1>6. \A k \in DOMAIN queue' : job'[queue'[k]] = "queued"
  BY <1>2, <1>3, <1>4, <1>5
<1>7. \A k, l \in DOMAIN queue' : queue'[k] = queue'[l] => k = l
  BY <1>2, <1>3, <1>5 DEF QueueIsSound
<1> QED
  BY <1>2, <1>6, <1>7 DEF TypeOK, Spawn, QueueIsSound

\* A step that changes only jobs outside the queue keeps it.
LEMMA QueueKept ==
    ASSUME TypeOK, QueueIsSound, queue' = queue,
           \A j \in Job : job[j] = "queued" => job'[j] = "queued"
    PROVE  QueueIsSound'
BY DEF TypeOK, QueueIsSound

\* A request gets a permit: one more has one, and there was one free.
LEMMA CountUp ==
    ASSUME TypeOK, Counted, NEW r \in Requests, r \notin Permitted,
           Permitted' = Permitted \cup {r}, permits' = permits - 1, permits >= 1
    PROVE  Counted' /\ permits' \in 0 .. Cardinality(Conns)
<1>1. IsFiniteSet(Permitted') /\ Cardinality(Permitted') = Cardinality(Permitted) + 1
  BY FS_AddElement DEF Counted
<1>2. Cardinality(Permitted) \in Nat /\ Cardinality(Conns) \in Nat
  BY FS_CardinalityType, PoolAssumption DEF Counted
<1> QED
  BY <1>1, <1>2 DEF TypeOK, Counted

\* A request gives its permit back.
LEMMA CountDown ==
    ASSUME TypeOK, Counted, NEW r \in Permitted,
           Permitted' = Permitted \ {r}, permits' = permits + 1
    PROVE  Counted' /\ permits' \in 0 .. Cardinality(Conns)
<1>1. IsFiniteSet(Permitted') /\ Cardinality(Permitted') = Cardinality(Permitted) - 1
  BY FS_RemoveElement DEF Counted
<1>2. /\ Cardinality(Permitted) \in Nat /\ Cardinality(Conns) \in Nat
      /\ Cardinality(Permitted') \in Nat
  BY <1>1, FS_CardinalityType, PoolAssumption DEF Counted
<1> QED
  BY <1>1, <1>2 DEF TypeOK, Counted

\* Nothing about the permits changes.
LEMMA CountKept ==
    ASSUME TypeOK, Counted, Permitted' = Permitted, permits' = permits
    PROVE  Counted' /\ permits' \in 0 .. Cardinality(Conns)
BY DEF TypeOK, Counted

\* A connection that goes back is in one place.
LEMMA GiveBackPlaces ==
    ASSUME TypeOK, Placed, NEW r \in Requests, GiveBack(r)
    PROVE  /\ Placed' /\ idle' \subseteq Conns
           /\ conn' \in [Requests -> Conns \cup {NoConn}]
           /\ conn'[r] = NoConn /\ \A q \in Requests \ {r} : conn'[q] = conn[q]
<1>1. /\ idle' \subseteq Conns /\ conn' \in [Requests -> Conns \cup {NoConn}]
      /\ conn'[r] = NoConn /\ \A q \in Requests \ {r} : conn'[q] = conn[q]
  BY DEF TypeOK, GiveBack
<1>2. \A q \in Requests : conn'[q] \notin idle'
  BY <1>1, PoolAssumption DEF TypeOK, Placed, GiveBack
<1>3. \A q, p \in Requests : conn'[q] # NoConn /\ conn'[q] = conn'[p] => q = p
  BY <1>1 DEF Placed
<1>4. \A c \in Conns : c \in idle' \/ \E q \in Requests : conn'[q] = c
  <2> TAKE c \in Conns
  <2>1. CASE c \in idle
    BY <2>1 DEF GiveBack
  <2>2. CASE c \notin idle
    <3>1. PICK q \in Requests : conn[q] = c
      BY <2>2 DEF Placed
    <3>2. CASE q = r
      BY <3>1, <3>2, PoolAssumption DEF GiveBack
    <3>3. CASE q # r
      BY <3>1, <3>3, <1>1
    <3> QED BY <3>2, <3>3
  <2> QED BY <2>1, <2>2
<1> QED
  BY <1>1, <1>2, <1>3, <1>4 DEF Placed

\* A request's part of the invariant depends only on its own future, jobs and
\* connection.
LEMMA OthersKept ==
    ASSUME NEW q \in Requests, Stages(q), Mutex(q),
           task'[q] = task[q], conn'[q] = conn[q],
           job'[<<q, "get">>] = job[<<q, "get">>], job'[<<q, "drop">>] = job[<<q, "drop">>],
           \A i \in Runs(q) : job'[<<q, i>>] = job[<<q, i>>]
    PROVE  Stages(q)' /\ Mutex(q)'
BY DEF Stages, Mutex

\* The pool starts full, nobody waiting.
LEMMA InitIInv == Init => IInv
<1> SUFFICES ASSUME Init PROVE IInv
  OBVIOUS
<1>1. Permitted = {}
  BY DEF Init, Permitted
<1>2. Counted /\ Cardinality(Conns) \in Nat
  BY <1>1, FS_EmptySet, FS_CardinalityType, PoolAssumption DEF Init, Counted
<1>3. TypeOK
  BY <1>2 DEF Init, TypeOK, Gone
<1>4. QueueIsSound /\ Placed
  BY PoolAssumption DEF Init, QueueIsSound, Placed
<1>5. \A r \in Requests : Stages(r) /\ Mutex(r)
  BY JobsOfRequest DEF Init, Stages, Mutex
<1> QED
  BY <1>2, <1>3, <1>4, <1>5 DEF IInv
\* tokio's blocking threads: taking a job.
LEMMA StartKeeps == IInv /\ StartJob => IInv'
<1> SUFFICES ASSUME IInv, StartJob PROVE IInv'
  OBVIOUS
<1> DEFINE j == Head(queue)
<1>1. /\ queue \in Seq(Job) /\ queue # <<>> /\ queue' = Tail(queue) /\ Len(queue) \in Nat \ {0}
      /\ job' = [job EXCEPT ![j] = "running"] /\ j = queue[1] /\ j \in Job
  BY DEF IInv, TypeOK, StartJob
<1>2. /\ queue' \in Seq(Job) /\ DOMAIN queue' = 1 .. Len(queue) - 1
      /\ \A k \in 1 .. Len(queue) - 1 : queue'[k] = queue[k + 1]
  BY <1>1
<1>3. job[j] = "queued"
  BY <1>1 DEF IInv, QueueIsSound
<1>4. TypeOK'
  BY <1>1, <1>2 DEF IInv, TypeOK, StartJob
<1>5. QueueIsSound'
  <2>1. \A k \in 1 .. Len(queue) - 1 :
          k + 1 \in DOMAIN queue /\ queue[k + 1] \in Job /\ queue[k + 1] # j
    BY <1>1 DEF IInv, QueueIsSound
  <2>2. \A k \in DOMAIN queue' : job'[queue'[k]] = "queued"
    BY <1>1, <1>2, <2>1 DEF IInv, TypeOK, QueueIsSound
  <2>3. ASSUME NEW k \in DOMAIN queue', NEW l \in DOMAIN queue', queue'[k] = queue'[l]
        PROVE  k = l
    <3>1. queue[k + 1] = queue[l + 1] /\ k \in Nat /\ l \in Nat
      BY <1>1, <1>2, <2>3
    <3>2. k + 1 = l + 1
      BY <3>1, <2>1, <1>2 DEF IInv, QueueIsSound
    <3> QED BY <3>1, <3>2
  <2> QED
    BY <2>2, <2>3 DEF QueueIsSound
<1>6. ASSUME NEW r \in Requests PROVE Stages(r)' /\ Mutex(r)'
  <2>1. /\ \A k \in Job \ {j} : job'[k] = job[k]
        /\ job'[j] = "running" /\ task' = task /\ conn' = conn
    BY <1>1 DEF IInv, TypeOK, StartJob
  <2> QED
    BY <1>3, <2>1, JobsOfRequest DEF IInv, Stages, Mutex
<1>7. Placed' /\ Counted'
  BY DEF StartJob, IInv, Placed, Counted, Permitted
<1> QED
  BY <1>4, <1>5, <1>6, <1>7 DEF IInv

\* Waiting for a permit, and not getting one
LEMMA WaitKeeps ==
    ASSUME IInv, NEW r \in Requests,
           Request(r) \/ AcquireTimeout(r) \/ (task[r] = "acquiring" /\ Cancel(r))
    PROVE  IInv'
<1>1. /\ UNCHANGED <<permits, idle, conn, queue, job>>
      /\ task[r] \in {"new", "acquiring"}
      /\ \E t \in {"acquiring", "unavailable", "cancelled"} : task' = [task EXCEPT ![r] = t]
  BY DEF Request, AcquireTimeout, Cancel
<1>2. waiting' \in Seq(Requests)
  <2>1. waiting \in Seq(Requests)
    BY DEF IInv, TypeOK
  <2>2. waiting' = Append(waiting, r) \/ Leave(r)
    BY DEF Request, AcquireTimeout, Cancel
  <2>3. Leave(r) => waiting' \in Seq(Requests)
    BY <2>1, LeaveType
  <2> QED
    BY <2>1, <2>2, <2>3
<1>3. TypeOK'
  BY <1>1, <1>2 DEF IInv, TypeOK, Gone
<1>4. QueueIsSound' /\ Placed'
  BY <1>1 DEF IInv, QueueIsSound, Placed
<1>5. ASSUME NEW q \in Requests PROVE Stages(q)' /\ Mutex(q)'
  BY <1>1, Zenon, SMT DEF IInv, TypeOK, Stages, Mutex
<1>6. Permitted' = Permitted
  BY <1>1 DEF IInv, TypeOK, Permitted
<1>7. Counted'
  BY <1>1, <1>6, CountKept DEF IInv
<1> QED
  BY <1>3, <1>4, <1>5, <1>7 DEF IInv

\* A permit is taken only when one is free.
LEMMA AcquireKeeps ==
    ASSUME IInv, NEW r \in Requests, Acquire(r)
    PROVE  IInv'
<1> DEFINE j == <<r, "get">>
<1>1. /\ task[r] = "acquiring" /\ task' = [task EXCEPT ![r] = "getting"]
      /\ permits' = permits - 1 /\ Spawn(j) /\ UNCHANGED <<idle, conn>>
      /\ Leave(r) /\ Granted(r)
  BY DEF Acquire
<1>2. j \in Job /\ job[j] = "none"
  BY <1>1, JobsOfRequest DEF IInv, Stages
<1>3. permits >= 1
  BY <1>1 DEF Granted, IInv, TypeOK
<1>4. waiting' \in Seq(Requests)
  BY <1>1, LeaveType DEF IInv, TypeOK
<1>5. /\ queue' \in Seq(Job) /\ QueueIsSound'
      /\ job' \in [Job -> {"none", "queued", "running", "active", "done", "panicked"}]
  BY <1>1, <1>2, SpawnKeepsQueue DEF IInv
<1>6. Permitted' = Permitted \cup {r} /\ r \notin Permitted
  BY <1>1 DEF IInv, TypeOK, Permitted
<1>7. Counted' /\ permits' \in 0 .. Cardinality(Conns)
  BY <1>1, <1>3, <1>6, CountUp DEF IInv
<1>8. TypeOK'
  BY <1>1, <1>4, <1>5, <1>7 DEF IInv, TypeOK
<1>9. Placed'
  BY <1>1 DEF IInv, Placed
<1>10. ASSUME NEW q \in Requests PROVE Stages(q)' /\ Mutex(q)'
  <2>1. /\ \A k \in Job \ {j} : job'[k] = job[k]
        /\ job'[j] = "queued" /\ conn' = conn
        /\ task'[r] = "getting" /\ \A p \in Requests \ {r} : task'[p] = task[p]
    BY <1>1, <1>2 DEF IInv, TypeOK, Spawn
  <2>2. CASE q = r
    BY <1>1, <1>2, <2>1, <2>2, JobsOfRequest DEF IInv, Stages, Mutex
  <2>3. CASE q # r
    BY <2>1, <2>3, OthersKept, JobsOfRequest DEF IInv
  <2> QED BY <2>2, <2>3
<1> QED
  BY <1>5, <1>7, <1>8, <1>9, <1>10 DEF IInv

\* The "get" job: a connection is taken, the time is over, the job ends.
LEMMA GetKeeps ==
    ASSUME IInv, NEW r \in Requests, GetOk(r) \/ GetTimeout(r) \/ GetReturns(r)
    PROVE  IInv'
<1> DEFINE j == <<r, "get">>
<1>1. /\ UNCHANGED <<task, waiting, permits, queue>>
      /\ job[j] \in {"running", "active"}
      /\ \E s \in {"active", "done"} : job' = [job EXCEPT ![j] = s]
      /\ j \in Job
  BY JobsOfRequest DEF GetOk, GetTimeout, GetReturns
<1>2. /\ \A k \in Job \ {j} : job'[k] = job[k]
      /\ job'[j] \in {"active", "done"}
      /\ job' \in [Job -> {"none", "queued", "running", "active", "done", "panicked"}]
  BY <1>1 DEF IInv, TypeOK
<1>3. QueueIsSound'
  BY <1>1, <1>2, QueueKept DEF IInv
<1>4. Counted'
  BY <1>1, CountKept DEF IInv, Permitted
<1>5. task[r] \notin {"new", "acquiring", "holding"}
      /\ job[<<r, "drop">>] = "none" /\ \A i \in Runs(r) : job[<<r, i>>] = "none"
  BY <1>1 DEF IInv, Stages
<1>6. CASE GetOk(r)
  <2>1. PICK c \in idle : conn' = [conn EXCEPT ![r] = c] /\ idle' = idle \ {c}
    BY <1>6 DEF GetOk
  <2>2. conn[r] = NoConn /\ job'[j] = "active"
    BY <1>1, <1>6 DEF GetOk, IInv, TypeOK, Stages
  <2>3. /\ conn'[r] = c /\ \A q \in Requests \ {r} : conn'[q] = conn[q]
        /\ c \in Conns /\ c # NoConn
    BY <2>1, PoolAssumption DEF IInv, TypeOK
  <2>4. Placed'
    <3>1. \A q \in Requests : conn'[q] \notin idle'
      BY <2>1, <2>3 DEF IInv, Placed
    <3>2. \A q, p \in Requests : conn'[q] # NoConn /\ conn'[q] = conn'[p] => q = p
      BY <2>3 DEF IInv, Placed
    <3>3. ASSUME NEW d \in Conns, d \notin idle' PROVE \E q \in Requests : conn'[q] = d
      <4>1. CASE d = c
        BY <2>3, <4>1
      <4>2. CASE d # c
        <5>1. PICK q \in Requests : conn[q] = d
          BY <2>1, <3>3, <4>2 DEF IInv, Placed
        <5>2. q # r
          BY <5>1, <2>2, PoolAssumption
        <5> QED BY <5>1, <5>2, <2>3
      <4> QED BY <4>1, <4>2
    <3> QED
      BY <3>1, <3>2, <3>3 DEF Placed
  <2>5. TypeOK'
    BY <1>1, <1>2, <2>1 DEF IInv, TypeOK
  <2>6. ASSUME NEW q \in Requests PROVE Stages(q)' /\ Mutex(q)'
    <3>1. CASE q = r
      BY <1>1, <1>2, <1>5, <2>2, <2>3, <3>1, JobsOfRequest DEF IInv, Stages, Mutex
    <3>2. CASE q # r
      BY <1>1, <1>2, <2>3, <3>2, OthersKept, JobsOfRequest DEF IInv
    <3> QED BY <3>1, <3>2
  <2> QED
    BY <1>3, <1>4, <2>4, <2>5, <2>6 DEF IInv
<1>7. CASE GetTimeout(r) \/ (GetReturns(r) /\ task[r] # "cancelled")
  <2>1. UNCHANGED <<idle, conn>> /\ job'[j] = "done"
    BY <1>1, <1>7 DEF GetTimeout, GetReturns, IInv, TypeOK
  <2>2. Placed'
    BY <2>1 DEF IInv, Placed
  <2>3. TypeOK'
    BY <1>1, <1>2, <2>1 DEF IInv, TypeOK
  <2>4. ASSUME NEW q \in Requests PROVE Stages(q)' /\ Mutex(q)'
    <3>1. CASE q = r
      BY <1>1, <1>2, <1>5, <2>1, <3>1, JobsOfRequest DEF IInv, Stages, Mutex
    <3>2. CASE q # r
      BY <1>1, <1>2, <2>1, <3>2, OthersKept, JobsOfRequest DEF IInv
    <3> QED BY <3>1, <3>2
  <2> QED
    BY <1>3, <1>4, <2>2, <2>3, <2>4 DEF IInv
<1>8. CASE GetReturns(r) /\ task[r] = "cancelled"
  <2>1. GiveBack(r) /\ job'[j] = "done"
    BY <1>1, <1>8 DEF GetReturns, IInv, TypeOK
  <2>2. /\ Placed' /\ idle' \subseteq Conns /\ conn' \in [Requests -> Conns \cup {NoConn}]
        /\ conn'[r] = NoConn /\ \A q \in Requests \ {r} : conn'[q] = conn[q]
    BY <2>1, GiveBackPlaces DEF IInv
  <2>3. TypeOK'
    BY <1>1, <1>2, <2>2 DEF IInv, TypeOK
  <2>4. ASSUME NEW q \in Requests PROVE Stages(q)' /\ Mutex(q)'
    <3>1. CASE q = r
      BY <1>1, <1>2, <1>5, <1>8, <2>1, <2>2, <3>1, JobsOfRequest DEF IInv, Stages, Mutex
    <3>2. CASE q # r
      BY <1>1, <1>2, <2>2, <3>2, OthersKept, JobsOfRequest DEF IInv
    <3> QED BY <3>1, <3>2
  <2> QED
    BY <1>3, <1>4, <2>2, <2>3, <2>4 DEF IInv
<1> QED
  BY <1>6, <1>7, <1>8

\* The result of the "get" job reaches the future.
LEMMA DeliverKeeps ==
    ASSUME IInv, NEW r \in Requests, Deliver(r)
    PROVE  IInv'
<1>1. /\ task[r] = "getting" /\ job[<<r, "get">>] = "done"
      /\ UNCHANGED <<waiting, idle, conn, queue, job>>
      /\ \/ conn[r] # NoConn /\ task' = [task EXCEPT ![r] = "holding"] /\ permits' = permits
         \/ conn[r] = NoConn /\ task' = [task EXCEPT ![r] = "unavailable"] /\ permits' = permits + 1
  BY DEF Deliver
<1>2. QueueIsSound' /\ Placed'
  BY <1>1 DEF IInv, QueueIsSound, Placed
<1>3. Counted' /\ permits' \in 0 .. Cardinality(Conns)
  <2>1. CASE conn[r] # NoConn
    <3>1. Permitted' = Permitted /\ permits' = permits
      BY <1>1, <2>1 DEF IInv, TypeOK, Permitted
    <3> QED BY <3>1, CountKept DEF IInv
  <2>2. CASE conn[r] = NoConn
    <3>1. r \in Permitted /\ Permitted' = Permitted \ {r} /\ permits' = permits + 1
      BY <1>1, <2>2 DEF IInv, TypeOK, Permitted
    <3> QED BY <3>1, CountDown DEF IInv
  <2> QED BY <2>1, <2>2
<1>4. TypeOK'
  BY <1>1, <1>3 DEF IInv, TypeOK, Gone
<1>5. ASSUME NEW q \in Requests PROVE Stages(q)' /\ Mutex(q)'
  <2>1. /\ \A p \in Requests \ {r} : task'[p] = task[p]
        /\ task'[r] = IF conn[r] # NoConn THEN "holding" ELSE "unavailable"
    BY <1>1 DEF IInv, TypeOK
  <2>2. CASE q = r
    BY <1>1, <2>1, <2>2 DEF IInv, Stages, Mutex
  <2>3. CASE q # r
    BY <1>1, <2>1, <2>3, OthersKept DEF IInv
  <2> QED BY <2>2, <2>3
<1> QED
  BY <1>2, <1>3, <1>4, <1>5 DEF IInv

\* Connection::run: a call is sent, locks the mutex, ends.
LEMMA RunKeeps ==
    ASSUME IInv, NEW r \in Requests, NEW i \in Runs(r),
           Run(r, i) \/ RunLocks(r, i) \/ RunEnds(r, i)
    PROVE  IInv'
<1> DEFINE j == <<r, i>>
<1>1. UNCHANGED <<task, waiting, permits, idle, conn>> /\ j \in Job
  BY JobsOfRequest DEF Run, RunLocks, RunEnds
<1>2. /\ queue' \in Seq(Job) /\ QueueIsSound'
      /\ job' \in [Job -> {"none", "queued", "running", "active", "done", "panicked"}]
  <2>1. CASE Run(r, i)
    <3>1. job[j] = "none" /\ Spawn(j)
      BY <2>1 DEF Run
    <3> QED
      BY <1>1, <3>1, SpawnKeepsQueue DEF IInv
  <2>2. CASE RunLocks(r, i) \/ RunEnds(r, i)
    <3>1. /\ queue' = queue /\ job[j] \in {"running", "active"}
          /\ \E s \in {"active", "done", "panicked"} : job' = [job EXCEPT ![j] = s]
      BY <2>2 DEF RunLocks, RunEnds
    <3>2. /\ job' \in [Job -> {"none", "queued", "running", "active", "done", "panicked"}]
          /\ \A k \in Job : job[k] = "queued" => job'[k] = "queued"
      BY <1>1, <3>1 DEF IInv, TypeOK
    <3> QED
      BY <3>1, <3>2, QueueKept DEF IInv, TypeOK
  <2> QED BY <2>1, <2>2
<1>3. TypeOK'
  BY <1>1, <1>2 DEF IInv, TypeOK
<1>4. Placed' /\ Counted'
  BY <1>1 DEF IInv, Placed, Counted, Permitted
<1>5. /\ \A k \in Job \ {j} : job'[k] = job[k]
      /\ Run(r, i) => job'[j] = "queued"
      /\ RunLocks(r, i) => job'[j] = IF conn[r] = NoConn THEN "panicked" ELSE "active"
      /\ RunEnds(r, i) => job'[j] \in {"done", "panicked"}
  BY <1>1 DEF IInv, TypeOK, Run, Spawn, RunLocks, RunEnds
<1>6. job[<<r, "get">>] = "done" /\ task[r] # "getting"
  <2>1. CASE Run(r, i)
    BY <2>1 DEF Run, IInv, Stages
  <2>2. CASE RunLocks(r, i) \/ RunEnds(r, i)
    BY <2>2 DEF RunLocks, RunEnds, IInv, Stages
  <2> QED BY <2>1, <2>2
<1>7. ASSUME NEW q \in Requests PROVE Stages(q)' /\ Mutex(q)'
  <2>1. CASE q = r
    <3>1. Stages(q)'
      BY <1>1, <1>5, <1>6, <2>1, JobsOfRequest DEF IInv, Stages
    <3>2. \A k \in Runs(r) : k # i => job'[<<r, k>>] = job[<<r, k>>]
      BY <1>5, JobsOfRequest
    <3>3. \A k \in Runs(r) : RunLocks(r, i) => job[<<r, k>>] # "active"
      BY DEF RunLocks, Unlocked
    <3>4. Mutex(r)'
      BY <1>1, <1>5, <3>2, <3>3 DEF IInv, Mutex
    <3> QED BY <2>1, <3>1, <3>4
  <2>2. CASE q # r
    <3>1. /\ job'[<<q, "get">>] = job[<<q, "get">>] /\ job'[<<q, "drop">>] = job[<<q, "drop">>]
          /\ \A k \in Runs(q) : job'[<<q, k>>] = job[<<q, k>>]
      BY <1>5, <2>2, JobsOfRequest
    <3>2. task'[q] = task[q] /\ conn'[q] = conn[q] /\ Stages(q) /\ Mutex(q)
      BY <1>1 DEF IInv
    <3> QED
      BY <3>1, <3>2, OthersKept
  <2> QED BY <2>1, <2>2
<1> QED
  BY <1>2, <1>3, <1>4, <1>7 DEF IInv

\* Drop for Connection inside the runtime: at the end of the handler, or when the
\* future of the request is dropped.
LEMMA DropKeeps ==
    ASSUME IInv, NEW r \in Requests, task[r] = "holding", Finish(r) \/ Cancel(r)
    PROVE  IInv'
<1> DEFINE j == <<r, "drop">>
<1>1. /\ \E t \in {"ended", "cancelled"} : task' = [task EXCEPT ![r] = t]
      /\ Spawn(j) /\ permits' = permits + 1 /\ UNCHANGED <<waiting, idle, conn>>
  BY DEF Finish, Cancel, DropConnection
<1>2. j \in Job /\ job[j] = "none" /\ job[<<r, "get">>] = "done"
  BY JobsOfRequest DEF IInv, Stages
<1>3. /\ queue' \in Seq(Job) /\ QueueIsSound'
      /\ job' \in [Job -> {"none", "queued", "running", "active", "done", "panicked"}]
  BY <1>1, <1>2, SpawnKeepsQueue DEF IInv
<1>4. r \in Permitted /\ Permitted' = Permitted \ {r}
  BY <1>1 DEF IInv, TypeOK, Permitted
<1>5. Counted' /\ permits' \in 0 .. Cardinality(Conns)
  BY <1>1, <1>4, CountDown DEF IInv
<1>6. TypeOK' /\ Placed'
  BY <1>1, <1>3, <1>5 DEF IInv, TypeOK, Placed, Gone
<1>7. ASSUME NEW q \in Requests PROVE Stages(q)' /\ Mutex(q)'
  <2>1. /\ \A k \in Job \ {j} : job'[k] = job[k]
        /\ job'[j] = "queued" /\ conn' = conn
        /\ task'[r] \in {"ended", "cancelled"}
        /\ \A p \in Requests \ {r} : task'[p] = task[p]
    BY <1>1, <1>2 DEF IInv, TypeOK, Spawn
  <2>2. CASE q = r
    BY <1>2, <2>1, <2>2, JobsOfRequest DEF IInv, Stages, Mutex
  <2>3. CASE q # r
    BY <2>1, <2>3, OthersKept, JobsOfRequest DEF IInv
  <2> QED BY <2>2, <2>3
<1> QED
  BY <1>3, <1>5, <1>6, <1>7 DEF IInv

\* A connection goes back at once, with the permit: Drop for Connection outside the
\* runtime, or the result of the "get" job dropped with the future.
LEMMA ReturnKeeps ==
    ASSUME IInv, NEW r \in Requests,
           DropOutside(r) \/ (task[r] = "getting" /\ job[<<r, "get">>] = "done" /\ Cancel(r))
    PROVE  IInv'
<1>1. /\ \E t \in {"ended", "cancelled"} : task' = [task EXCEPT ![r] = t]
      /\ task[r] \in {"getting", "holding"}
      /\ GiveBack(r) /\ permits' = permits + 1 /\ UNCHANGED <<waiting, queue, job>>
  BY DEF DropOutside, Cancel
<1>2. job[<<r, "get">>] = "done" /\ \A i \in Runs(r) : job[<<r, i>>] # "active"
  <2>1. CASE DropOutside(r)
    BY <2>1 DEF DropOutside, Unlocked, IInv, Stages
  <2>2. CASE task[r] = "getting" /\ job[<<r, "get">>] = "done"
    BY <2>2 DEF IInv, Stages
  <2> QED BY <2>1, <2>2
<1>3. /\ Placed' /\ idle' \subseteq Conns /\ conn' \in [Requests -> Conns \cup {NoConn}]
      /\ conn'[r] = NoConn /\ \A q \in Requests \ {r} : conn'[q] = conn[q]
  BY <1>1, GiveBackPlaces DEF IInv
<1>4. r \in Permitted /\ Permitted' = Permitted \ {r}
  BY <1>1 DEF IInv, TypeOK, Permitted
<1>5. Counted' /\ permits' \in 0 .. Cardinality(Conns)
  BY <1>1, <1>4, CountDown DEF IInv
<1>6. TypeOK' /\ QueueIsSound'
  BY <1>1, <1>3, <1>5 DEF IInv, TypeOK, QueueIsSound, Gone
<1>7. ASSUME NEW q \in Requests PROVE Stages(q)' /\ Mutex(q)'
  <2>1. /\ task'[r] \in {"ended", "cancelled"} /\ job' = job
        /\ \A p \in Requests \ {r} : task'[p] = task[p]
    BY <1>1 DEF IInv, TypeOK
  <2>2. CASE q = r
    BY <1>2, <1>3, <2>1, <2>2 DEF IInv, Stages, Mutex
  <2>3. CASE q # r
    BY <1>3, <2>1, <2>3, OthersKept DEF IInv
  <2> QED BY <2>2, <2>3
<1> QED
  BY <1>3, <1>5, <1>6, <1>7 DEF IInv

\* The future is dropped while the "get" job is under way: the job keeps what it
\* has, the permit is free.
LEMMA AbandonKeeps ==
    ASSUME IInv, NEW r \in Requests,
           task[r] = "getting", job[<<r, "get">>] # "done", Cancel(r)
    PROVE  IInv'
<1>1. /\ task' = [task EXCEPT ![r] = "cancelled"] /\ permits' = permits + 1
      /\ UNCHANGED <<idle, conn, waiting, queue, job>>
  BY DEF Cancel
<1>2. r \in Permitted /\ Permitted' = Permitted \ {r}
  BY <1>1 DEF IInv, TypeOK, Permitted
<1>3. Counted' /\ permits' \in 0 .. Cardinality(Conns)
  BY <1>1, <1>2, CountDown DEF IInv
<1>4. TypeOK' /\ QueueIsSound' /\ Placed'
  BY <1>1, <1>3 DEF IInv, TypeOK, QueueIsSound, Placed, Gone
<1>5. ASSUME NEW q \in Requests PROVE Stages(q)' /\ Mutex(q)'
  <2>1. task'[r] = "cancelled" /\ \A p \in Requests \ {r} : task'[p] = task[p]
    BY <1>1 DEF IInv, TypeOK
  <2>2. CASE q = r
    BY <1>1, <2>1, <2>2 DEF IInv, Stages, Mutex
  <2>3. CASE q # r
    BY <1>1, <2>1, <2>3, OthersKept DEF IInv
  <2> QED BY <2>2, <2>3
<1> QED
  BY <1>3, <1>4, <1>5 DEF IInv

\* The job that returns the connection
LEMMA DropJobKeeps ==
    ASSUME IInv, NEW r \in Requests, DropJob(r)
    PROVE  IInv'
<1> DEFINE j == <<r, "drop">>
<1>1. /\ job[j] = "running" /\ GiveBack(r) /\ job' = [job EXCEPT ![j] = "done"] /\ j \in Job
      /\ UNCHANGED <<task, waiting, permits, queue>>
      /\ \A i \in Runs(r) : job[<<r, i>>] # "active"
  BY JobsOfRequest DEF DropJob, Unlocked
<1>2. /\ Placed' /\ idle' \subseteq Conns /\ conn' \in [Requests -> Conns \cup {NoConn}]
      /\ conn'[r] = NoConn /\ \A q \in Requests \ {r} : conn'[q] = conn[q]
  BY <1>1, GiveBackPlaces DEF IInv
<1>3. /\ \A k \in Job \ {j} : job'[k] = job[k]
      /\ job'[j] = "done"
      /\ job' \in [Job -> {"none", "queued", "running", "active", "done", "panicked"}]
  BY <1>1 DEF IInv, TypeOK
<1>4. QueueIsSound'
  BY <1>1, <1>3, QueueKept DEF IInv
<1>5. TypeOK' /\ Counted'
  BY <1>1, <1>2, <1>3 DEF IInv, TypeOK, Counted, Permitted
<1>6. ASSUME NEW q \in Requests PROVE Stages(q)' /\ Mutex(q)'
  <2>1. CASE q = r
    BY <1>1, <1>2, <1>3, <2>1, JobsOfRequest DEF IInv, Stages, Mutex
  <2>2. CASE q # r
    BY <1>1, <1>2, <1>3, <2>2, OthersKept, JobsOfRequest DEF IInv
  <2> QED BY <2>1, <2>2
<1> QED
  BY <1>2, <1>4, <1>5, <1>6 DEF IInv

\* Every step of a request, of a job or of a thread keeps the invariant.
LEMMA NextIInv == IInv /\ [Next]_vars => IInv'
<1> SUFFICES ASSUME IInv, [Next]_vars PROVE IInv'
  OBVIOUS
<1>1. ASSUME NEW r \in Requests, Cancel(r) PROVE IInv'
  <2>1. task[r] \in {"acquiring", "getting", "holding"}
    BY <1>1 DEF Cancel
  <2> QED
    BY <1>1, <2>1, WaitKeeps, ReturnKeeps, AbandonKeeps, DropKeeps
<1>2. ASSUME NEW r \in Requests, Finish(r) PROVE IInv'
  BY <1>2, DropKeeps DEF Finish
<1>3. ASSUME NEW r \in Requests, Progress(r) PROVE IInv'
  BY <1>3, WaitKeeps, AcquireKeeps, GetKeeps, DeliverKeeps, DropJobKeeps, RunKeeps DEF Progress
<1>4. CASE UNCHANGED vars
  BY <1>4 DEF vars, IInv, TypeOK, QueueIsSound, Stages, Mutex, Placed, Counted, Permitted
<1> QED
  BY <1>1, <1>2, <1>3, <1>4, StartKeeps, WaitKeeps, ReturnKeeps, RunKeeps DEF Next

\* The inductive invariant holds in every reachable state.
THEOREM Inductive == Spec => []IInv
BY InitIInv, NextIInv, PTL DEF Spec

\* Type correctness; the permits never exceed the pool's size nor fall below zero.
THEOREM TypeCorrect == Spec => []TypeOK
<1>1. IInv => TypeOK
  BY DEF IInv
<1> QED
  BY <1>1, Inductive, PTL

\* A connection is in one place, one job uses it at a time, and a handler that holds
\* a Connection finds one behind the mutex.
THEOREM UseIsExclusive == Spec => []ExclusiveUse
<1>1. ASSUME IInv PROVE ExclusiveUse
  <2>1. ASSUME NEW r \in Requests
        PROVE  LET users == {i \in Runs(r) : job[<<r, i>>] = "active"} IN
               Cardinality(users) <= 1 /\ (users # {} => conn[r] # NoConn)
    <3> DEFINE users == {i \in Runs(r) : job[<<r, i>>] = "active"}
    <3> SUFFICES Cardinality(users) <= 1 /\ (users # {} => conn[r] # NoConn)
      OBVIOUS
    <3> HIDE DEF users
    <3>1. CASE users = {}
      <4>1. Cardinality(users) = 0
        BY <3>1, FS_EmptySet
      <4> QED BY <3>1, <4>1
    <3>2. CASE users # {}
      <4> PICK i \in Runs(r) : job[<<r, i>>] = "active"
        BY <3>2 DEF users
      <4>1. users = {i}
        BY <1>1 DEF IInv, Mutex, users
      <4>2. Cardinality(users) = 1
        BY <4>1, FS_Singleton
      <4>3. conn[r] # NoConn
        BY <1>1 DEF IInv, Mutex
      <4> QED BY <4>2, <4>3
    <3> QED BY <3>1, <3>2
  <2>2. \A r \in Requests : task[r] = "holding" => conn[r] # NoConn
    BY <1>1 DEF IInv, Stages
  <2> QED
    BY <1>1, <2>1, <2>2 DEF ExclusiveUse, IInv, Placed
<1> QED
  BY <1>1, Inductive, PTL

\* A permit stands for a connection: with no more live holders than connections, an
\* empty pool means that somebody who is gone has not returned his yet.
THEOREM WaitsAreForLateReturns == Spec => []WaitsOnlyForLateReturns
<1>1. ASSUME IInv PROVE WaitsOnlyForLateReturns
  <2> SUFFICES ASSUME NEW r \in Requests,
                      task[r] = "getting", conn[r] = NoConn, idle = {},
                      \A q \in Requests : conn[q] # NoConn => task[q] \notin Gone
               PROVE  FALSE
    BY DEF WaitsOnlyForLateReturns
  <2> DEFINE rest == Permitted \ {r}
             owner == [c \in Conns |-> CHOOSE q \in Requests : conn[q] = c]
  <2>1. \A q \in Requests : conn[q] # NoConn => q \in rest
    BY <1>1 DEF IInv, TypeOK, Stages, Permitted, Gone
  <2>2. \A c \in Conns : owner[c] \in Requests /\ conn[owner[c]] = c
    BY <1>1 DEF IInv, Placed
  <2>3. owner \in [Conns -> rest]
    BY <2>1, <2>2, PoolAssumption
  <2>4. \A c, d \in Conns : owner[c] = owner[d] => c = d
    BY <2>2
  <2>5. owner \in Injection(Conns, rest)
    BY <2>3, <2>4 DEF Injection, IsInjective
  <2>6. /\ r \in Permitted /\ IsFiniteSet(Permitted) /\ IsFiniteSet(rest)
        /\ Cardinality(rest) = Cardinality(Permitted) - 1
    BY <1>1, FS_RemoveElement DEF IInv, Counted, Permitted
  <2>7. Cardinality(Conns) <= Cardinality(rest)
    BY <2>5, <2>6, FS_Injection DEF ExistsInjection
  <2>8. Cardinality(Permitted) + permits = Cardinality(Conns) /\ permits >= 0
        /\ Cardinality(Permitted) \in Nat /\ Cardinality(Conns) \in Nat /\ permits \in Int
    BY <1>1, FS_CardinalityType, PoolAssumption DEF IInv, Counted, TypeOK
  <2> QED
    BY <2>6, <2>7, <2>8
<1> QED
  BY <1>1, Inductive, PTL

=============================================================================
