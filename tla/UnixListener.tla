---------------------------- MODULE UnixListener ----------------------------
(***************************************************************************)
(* core/lib/src/listener/unix.rs: several servers that start, stop and     *)
(* crash over one socket path.                                             *)
(*                                                                         *)
(* With `reuse` a server takes an exclusive flock() on a file beside the   *)
(* socket, removes a socket that a crash has left behind, and binds; when  *)
(* it stops it removes the socket and the lock file and unlocks.  The      *)
(* system calls of different processes interleave.  A lock is on the file  *)
(* that was opened (an inode), not on the path: after the path has been    *)
(* removed the next process creates another file.                          *)
(***************************************************************************)
EXTENDS Naturals

CONSTANTS
    Procs,
    Nobody,
    Retries,        \* attempts after the first that failed: 5 in the code
    MaxFlakes,      \* AddrInUse reported for a path that is free, per bind()
    MaxStarts       \* bound: starts of all processes together

ASSUME NobodyAssumption == Nobody \notin Procs
ASSUME RetriesAssumption == Retries \in Nat /\ MaxFlakes \in 0 .. Retries

VARIABLES
    sock,       \* who has bound the socket at the path, Nobody if there is no file
    lockFile,   \* the inode at the path of the lock, 0 if there is none
    inodes,     \* inodes created so far
    locked,     \* the processes that have the flock of the file they opened
    at,         \* process -> where it is
    reuse,      \* process -> the configuration parameter
    fd,         \* process -> the inode of its lock file, 0 if not open
    retries,
    flakes,
    starts,
    orphaned,   \* history: someone has locked an inode that was not at the path
    modes       \* history: the values of `reuse` that have been used

system == <<sock, lockFile, inodes, locked>>
history == <<orphaned, modes>>
serverVars == <<system, at, reuse, fd, retries, flakes, starts, history>>

Off == {"down", "crashed"}
Goto(p, to) == at' = [at EXCEPT ![p] = to]
Free(inode) == \A q \in locked : fd[q] # inode

ServerInit ==
    /\ sock = Nobody /\ lockFile = 0 /\ inodes = 0 /\ locked = {}
    /\ at = [p \in Procs |-> "down"]
    /\ reuse = [p \in Procs |-> TRUE]
    /\ fd = [p \in Procs |-> 0]
    /\ retries = [p \in Procs |-> 0] /\ flakes = [p \in Procs |-> 0]
    /\ starts = 0 /\ orphaned = FALSE /\ modes = {}

Start(p, r) ==
    /\ at[p] \in Off /\ starts < MaxStarts
    /\ Goto(p, IF r THEN "open" ELSE "bind")
    /\ reuse' = [reuse EXCEPT ![p] = r]
    /\ retries' = [retries EXCEPT ![p] = Retries]
    /\ flakes' = [flakes EXCEPT ![p] = 0]
    /\ fd' = [fd EXCEPT ![p] = 0]
    /\ starts' = starts + 1 /\ modes' = modes \cup {r}
    /\ UNCHANGED <<system, orphaned>>

-----------------------------------------------------------------------------
(* UnixListener::bind                                                      *)

\* Returning early closes the lock file, which unlocks it.
Fail(p) ==
    /\ Goto(p, "failed")
    /\ locked' = locked \ {p} /\ fd' = [fd EXCEPT ![p] = 0]

OpenLock(p) ==
    /\ at[p] = "open"
    /\ lockFile' = IF lockFile = 0 THEN inodes + 1 ELSE lockFile
    /\ inodes' = IF lockFile = 0 THEN inodes + 1 ELSE inodes
    /\ fd' = [fd EXCEPT ![p] = lockFile']
    /\ Goto(p, "lock")
    /\ UNCHANGED <<sock, locked, reuse, retries, flakes, starts, history>>

\* Mutant: the result of lock_exclusive_nonblocking() is dropped.
LockIgnored(p) ==
    /\ at[p] = "lock"
    /\ locked' = IF Free(fd[p]) THEN locked \cup {p} ELSE locked
    /\ orphaned' = (orphaned \/ fd[p] # lockFile)
    /\ Goto(p, "exists")
    /\ UNCHANGED <<sock, lockFile, inodes, fd, reuse, retries, flakes, starts, modes>>

Lock(p) ==
    /\ at[p] = "lock"
    /\ \/ /\ Free(fd[p])
          /\ locked' = locked \cup {p}
          /\ orphaned' = (orphaned \/ fd[p] # lockFile)
          /\ Goto(p, "exists") /\ UNCHANGED fd
       \/ ~Free(fd[p]) /\ Fail(p) /\ UNCHANGED orphaned
    /\ UNCHANGED <<sock, lockFile, inodes, reuse, retries, flakes, starts, modes>>

\* if path.exists() ...
Exists(p) ==
    /\ at[p] = "exists"
    /\ Goto(p, IF sock # Nobody THEN "remove" ELSE "bind")
    /\ UNCHANGED <<system, reuse, fd, retries, flakes, starts, history>>

\* ... remove_file().await?: an error if somebody else was faster.
Remove(p) ==
    /\ at[p] = "remove"
    /\ \/ sock # Nobody /\ sock' = Nobody /\ Goto(p, "bind") /\ UNCHANGED <<locked, fd>>
       \/ sock = Nobody /\ Fail(p) /\ UNCHANGED sock
    /\ UNCHANGED <<lockFile, inodes, reuse, retries, flakes, starts, history>>

BindOk(p) ==
    /\ at[p] = "bind" /\ sock = Nobody
    /\ sock' = p /\ Goto(p, "serving")
    /\ UNCHANGED <<lockFile, inodes, locked, reuse, fd, retries, flakes, starts, history>>

BindErr(p) ==
    /\ at[p] = "bind"
    /\ \/ sock # Nobody /\ UNCHANGED flakes
       \/ sock = Nobody /\ flakes[p] < MaxFlakes /\ flakes' = [flakes EXCEPT ![p] = @ + 1]
    /\ Goto(p, "err")
    /\ UNCHANGED <<system, reuse, fd, retries, starts, history>>

\* Mutant: one attempt too few.
RetryOnceLess(p) ==
    /\ at[p] = "err"
    /\ \/ /\ ~(sock # Nobody /\ ~reuse[p]) /\ retries[p] > 1
          /\ retries' = [retries EXCEPT ![p] = @ - 1]
          /\ Goto(p, "bind") /\ UNCHANGED <<locked, fd>>
       \/ /\ (sock # Nobody /\ ~reuse[p]) \/ retries[p] <= 1
          /\ Fail(p) /\ UNCHANGED retries
    /\ UNCHANGED <<sock, lockFile, inodes, reuse, flakes, starts, history>>

\* The three arms for an error; path.exists() is looked at after bind() has failed.
Retry(p) ==
    /\ at[p] = "err"
    /\ \/ /\ ~(sock # Nobody /\ ~reuse[p]) /\ retries[p] > 0
          /\ retries' = [retries EXCEPT ![p] = @ - 1]
          /\ Goto(p, "bind") /\ UNCHANGED <<locked, fd>>
       \/ /\ (sock # Nobody /\ ~reuse[p]) \/ retries[p] = 0
          /\ Fail(p) /\ UNCHANGED retries
    /\ UNCHANGED <<sock, lockFile, inodes, reuse, flakes, starts, history>>

-----------------------------------------------------------------------------
(* The end of a listener                                                   *)

Stop(p) ==
    /\ at[p] = "serving" /\ Goto(p, "unlink")
    /\ UNCHANGED <<system, reuse, fd, retries, flakes, starts, history>>

\* Drop: the socket is removed in both branches.
UnlinkSocket(p) ==
    /\ at[p] = "unlink"
    /\ sock' = Nobody /\ Goto(p, IF reuse[p] THEN "unlinkLock" ELSE "down")
    /\ UNCHANGED <<lockFile, inodes, locked, reuse, fd, retries, flakes, starts, history>>

UnlinkLock(p) ==
    /\ at[p] = "unlinkLock"
    /\ lockFile' = 0 /\ Goto(p, "unlock")
    /\ UNCHANGED <<sock, inodes, locked, reuse, fd, retries, flakes, starts, history>>

Unlock(p) ==
    /\ at[p] = "unlock"
    /\ locked' = locked \ {p} /\ fd' = [fd EXCEPT ![p] = 0] /\ Goto(p, "down")
    /\ UNCHANGED <<sock, lockFile, inodes, reuse, retries, flakes, starts, history>>

\* launch() reports the error and the process ends.
Exit(p) ==
    /\ at[p] = "failed" /\ Goto(p, "down")
    /\ UNCHANGED <<system, reuse, fd, retries, flakes, starts, history>>

\* The kernel closes what was open; the files stay.
Crash(p) ==
    /\ at[p] \notin Off /\ Goto(p, "crashed")
    /\ locked' = locked \ {p} /\ fd' = [fd EXCEPT ![p] = 0]
    /\ UNCHANGED <<sock, lockFile, inodes, reuse, retries, flakes, starts, history>>

Step(p) ==
    \/ OpenLock(p) \/ Lock(p) \/ Exists(p) \/ Remove(p)
    \/ BindOk(p) \/ BindErr(p) \/ Retry(p)
    \/ UnlinkSocket(p) \/ UnlinkLock(p) \/ Unlock(p) \/ Exit(p)

ServerNext ==
    \E p \in Procs :
        \/ \E r \in BOOLEAN : Start(p, r)
        \/ Step(p) \/ Stop(p) \/ Crash(p)

ServerSpec == ServerInit /\ [][ServerNext]_serverVars /\ \A p \in Procs : WF_serverVars(Step(p))

-----------------------------------------------------------------------------
(* Properties                                                              *)

\* A server that serves can be reached: the socket at the path is its own, whatever
\* other servers have started, stopped or crashed since (bind() and Drop).  Two
\* things are excepted.  A server may open the lock file just before another that
\* stops removes it, and lock it afterwards: its lock then excludes nobody.  And
\* servers with and without `reuse` do not respect each other.
ServersAreReachable ==
    ~orphaned /\ modes # BOOLEAN
        => \A p \in Procs : at[p] = "serving" => sock = p

ServerTypeOK ==
    /\ sock \in Procs \cup {Nobody} /\ lockFile \in Nat /\ inodes \in Nat /\ locked \subseteq Procs
    /\ at \in [Procs -> Off \cup {"open", "lock", "exists", "remove", "bind", "err", "serving",
                                  "unlink", "unlinkLock", "unlock", "failed"}]
    /\ reuse \in [Procs -> BOOLEAN] /\ fd \in [Procs -> Nat]
    /\ retries \in [Procs -> 0 .. Retries] /\ flakes \in [Procs -> 0 .. MaxFlakes]
    /\ starts \in Nat /\ orphaned \in BOOLEAN /\ modes \subseteq BOOLEAN

\* What the place of a process says: whether it has a lock or a lock file open, and
\* with which configuration it was started.
PlacesAreSound ==
    \A p \in Procs :
        /\ at[p] \in Off \cup {"open", "lock", "failed"} \/ ~reuse[p] => p \notin locked
        /\ at[p] \notin Off => reuse[p] \in modes
        /\ at[p] \in {"open", "lock", "exists", "remove", "unlinkLock", "unlock"} => reuse[p]
        /\ at[p] = "lock" => fd[p] # 0

\* flock(): a file has one lock.
LocksExclude == \A p, q \in locked : fd[p] = fd[q] => p = q

\* A server with `reuse` has the lock of the file at the path until it removes it.
Guarded == {"exists", "remove", "bind", "err", "serving", "unlink", "unlinkLock"}
LockIsAtPath ==
    ~orphaned => \A p \in Procs : at[p] \in Guarded /\ reuse[p] =>
        p \in locked /\ fd[p] = lockFile /\ lockFile # 0

SocketIsOwn ==
    ~orphaned /\ modes # BOOLEAN => \A p \in Procs : at[p] \in {"serving", "unlink"} => sock = p

\* Inductive, and why servers are reachable: whoever removes or binds the socket is
\* alone in having the lock of the file at the path.
ServersInv == ServerTypeOK /\ PlacesAreSound /\ LocksExclude /\ LockIsAtPath /\ SocketIsOwn

Alone(p) == \A q \in Procs \ {p} : at[q] \in Off

\* A server with `reuse` that starts when no other runs comes up, in whatever state a
\* crash has left the socket and the lock file, if bind() reports AddrInUse for a
\* free path no more than `retries` times.
RestartSucceeds ==
    \A p \in Procs :
        at[p] = "open" /\ Alone(p) ~> at[p] \in {"serving", "crashed"} \/ ~Alone(p)
=============================================================================
