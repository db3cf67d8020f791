-------------------------- MODULE StandaloneProofs --------------------------
(***************************************************************************)
(* Proofs about parts that share nothing with the rest: the request-local  *)
(* cache, for any number of callers and calls, servers over one socket     *)
(* path, for any processes, retries and starts, temporary files, for any   *)
(* destinations and calls, and event streams, for any events and buffers.  *)
(***************************************************************************)
EXTENDS LocalCache, UnixListener, TempFile, EventStream, SequenceTheorems, WellFoundedInduction, TLAPS

-----------------------------------------------------------------------------
(* LocalCache                                                              *)

\* A call that has begun is not the absence of a value.
LEMMA CallIsAValue ==
    ASSUME TypeOK, NEW c \in Callers, pc[c] # "idle"
    PROVE  Call(c) \in Callers \X (1 .. MaxCalls) /\ Call(c) # None
<1>1. calls[c] \in 1 .. MaxCalls
    BY MaxCallsAssumption DEF TypeOK
<1> QED
    BY <1>1, NoneAssumption DEF Call

\* A request starts with an empty cache and no callers.
LEMMA CacheInit == Init => IInv
    BY MaxCallsAssumption DEF Init, IInv, TypeOK, CellIsKept, States

\* No step of a caller, and no interleaving of them, breaks the invariant.
LEMMA CacheStep == IInv /\ [Next]_vars => IInv'
<1> SUFFICES ASSUME IInv, [Next]_vars PROVE IInv'
    OBVIOUS
<1> USE DEF IInv, States
<1>1. ASSUME NEW c \in Callers, Enter(c) PROVE IInv'
    BY <1>1, MaxCallsAssumption DEF Enter, TypeOK, CellIsKept
<1>2. ASSUME NEW c \in Callers, Look(c) PROVE IInv'
    <2>1. TypeOK'
        BY <1>2 DEF Look, TypeOK
    <2>2. CellIsKept'
        BY <1>2 DEF Look, TypeOK, CellIsKept
    <2> QED
        BY <2>1, <2>2
<1>3. ASSUME NEW c \in Callers, Make(c) PROVE IInv'
    <2>1. Call(c) \in Callers \X (1 .. MaxCalls) /\ Call(c) # None
        BY <1>3, CallIsAValue DEF Make
    <2>2. TypeOK'
        BY <1>3, <2>1 DEF Make, TypeOK
    <2>3. CellIsKept'
        BY <1>3, <2>1 DEF Make, TypeOK, CellIsKept
    <2> QED
        BY <2>2, <2>3
<1>4. ASSUME NEW c \in Callers, Abandon(c) PROVE IInv'
    BY <1>4 DEF Abandon, TypeOK, CellIsKept
<1>5. ASSUME NEW c \in Callers, Set(c) PROVE IInv'
    <2>1. TypeOK'
        BY <1>5 DEF Set, TypeOK
    <2>2. CellIsKept'
        BY <1>5 DEF Set, TypeOK, CellIsKept
    <2> QED
        BY <2>1, <2>2
<1>6. ASSUME NEW c \in Callers, Get(c) PROVE IInv'
    <2>1. TypeOK'
        BY <1>6 DEF Get, TypeOK
    <2>2. CellIsKept'
        BY <1>6 DEF Get, TypeOK, CellIsKept
    <2> QED
        BY <2>1, <2>2
<1>7. CASE UNCHANGED vars
    BY <1>7 DEF vars, TypeOK, CellIsKept
<1> QED
    BY <1>1, <1>2, <1>3, <1>4, <1>5, <1>6, <1>7 DEF Next

\* All callers of a request get one value, made for this request, however their calls
\* of local_cache() and local_cache_async() overlap or are abandoned.
THEOREM FirstStoreWinsAlways == Spec => []FirstStoreWins
<1>1. IInv => FirstStoreWins
    BY DEF IInv, CellIsKept, FirstStoreWins
<1> QED
    BY <1>1, CacheInit, CacheStep, PTL DEF Spec

-----------------------------------------------------------------------------
(* UnixListener                                                            *)

\* Nothing is there before the first start.
LEMMA ServersInit == ServerInit => ServersInv
<1> SUFFICES ASSUME ServerInit PROVE ServersInv
  OBVIOUS
<1>1. ServerTypeOK
  <2>1. MaxFlakes \in Nat /\ Retries \in Nat
    BY RetriesAssumption
  <2>2. /\ sock \in Procs \cup {Nobody} /\ lockFile \in Nat /\ inodes \in Nat /\ locked \subseteq Procs
        /\ fd \in [Procs -> Nat] /\ starts \in Nat /\ modes \subseteq BOOLEAN
        /\ retries \in [Procs -> 0 .. Retries] /\ flakes \in [Procs -> 0 .. MaxFlakes]
    BY <2>1 DEF ServerInit
  <2>3. reuse \in [Procs -> BOOLEAN] /\ orphaned \in BOOLEAN
    BY DEF ServerInit
  <2>4. at \in [Procs -> Off]
    BY DEF ServerInit, Off
  <2> QED
    BY <2>2, <2>3, <2>4 DEF ServerTypeOK
<1>2. PlacesAreSound /\ LocksExclude /\ LockIsAtPath /\ SocketIsOwn
  BY DEF ServerInit, PlacesAreSound, LocksExclude, LockIsAtPath, SocketIsOwn, Off, Guarded
<1> QED
  BY <1>1, <1>2 DEF ServersInv

\* Two servers of one mode that are past the lock are one: bind() is exclusive.
LEMMA GuardedIsAlone ==
    ASSUME ServersInv, ~orphaned, modes # BOOLEAN,
           NEW p \in Procs, at[p] \in Guarded, reuse[p],
           NEW q \in Procs, at[q] \in Guarded
    PROVE  p = q
<1>1. reuse[p] \in modes /\ reuse[q] \in modes /\ modes \subseteq BOOLEAN
  BY DEF ServersInv, ServerTypeOK, PlacesAreSound, Off, Guarded
<1>2. reuse[q]
  BY <1>1 DEF ServersInv, ServerTypeOK
<1>3. p \in locked /\ q \in locked /\ fd[p] = fd[q]
  BY <1>2 DEF ServersInv, LockIsAtPath
<1> QED
  BY <1>3 DEF ServersInv, LocksExclude

\* A process starts.
LEMMA StartKeeps ==
    ASSUME ServersInv, NEW p \in Procs, NEW r \in BOOLEAN, Start(p, r)
    PROVE  ServersInv'
<1>1. /\ at' = [at EXCEPT ![p] = IF r THEN "open" ELSE "bind"] /\ at[p] \in Off
      /\ reuse' = [reuse EXCEPT ![p] = r] /\ fd' = [fd EXCEPT ![p] = 0]
      /\ modes' = modes \cup {r} /\ UNCHANGED <<sock, lockFile, inodes, locked, orphaned>>
  BY DEF Start, Goto, system
<1>2. ServerTypeOK'
  <2>1. /\ sock' \in Procs \cup {Nobody} /\ lockFile' \in Nat /\ inodes' \in Nat
        /\ locked' \subseteq Procs /\ fd' \in [Procs -> Nat] /\ starts' \in Nat
        /\ retries' \in [Procs -> 0 .. Retries] /\ flakes' \in [Procs -> 0 .. MaxFlakes]
    BY <1>1, RetriesAssumption DEF ServersInv, ServerTypeOK, Start
  <2>2. /\ reuse' \in [Procs -> BOOLEAN] /\ orphaned' \in BOOLEAN /\ modes' \subseteq BOOLEAN
    BY <1>1 DEF ServersInv, ServerTypeOK
  <2>3. at' \in [Procs -> Off \cup {"open", "lock", "exists", "remove", "bind", "err", "serving",
                                    "unlink", "unlinkLock", "unlock", "failed"}]
    BY <1>1 DEF ServersInv, ServerTypeOK
  <2> QED
    BY <2>1, <2>2, <2>3 DEF ServerTypeOK
<1>3. \A q \in Procs \ {p} : at'[q] = at[q] /\ reuse'[q] = reuse[q] /\ fd'[q] = fd[q]
  BY <1>1 DEF ServersInv, ServerTypeOK
<1>4. at'[p] \in {"open", "bind"} /\ (at'[p] = "open" => r) /\ reuse'[p] = r /\ p \notin locked
  BY <1>1 DEF ServersInv, ServerTypeOK, PlacesAreSound
<1>5. PlacesAreSound'
  BY <1>1, <1>3, <1>4 DEF ServersInv, PlacesAreSound, Off
<1>6. LocksExclude'
  BY <1>1, <1>3, <1>4 DEF ServersInv, ServerTypeOK, LocksExclude
<1>7. LockIsAtPath'
  <2>1. at'[p] \in Guarded => ~reuse'[p]
    BY <1>1, <1>4 DEF ServersInv, ServerTypeOK, Guarded
  <2> QED
    BY <1>1, <1>3, <2>1 DEF ServersInv, LockIsAtPath
<1>8. SocketIsOwn'
  <2>1. modes' # BOOLEAN => modes # BOOLEAN
    BY <1>1 DEF ServersInv, ServerTypeOK
  <2> QED
    BY <1>1, <1>3, <1>4, <2>1 DEF ServersInv, SocketIsOwn
<1> QED
  BY <1>2, <1>5, <1>6, <1>7, <1>8 DEF ServersInv
\* Types, for all steps but the start
LEMMA TypesKept ==
    ASSUME ServerTypeOK, NEW p \in Procs, Step(p) \/ Stop(p) \/ Crash(p)
    PROVE  /\ ServerTypeOK' /\ UNCHANGED <<reuse, starts, modes>>
           /\ \A q \in Procs \ {p} : at'[q] = at[q] /\ fd'[q] = fd[q]
<1>1. UNCHANGED <<reuse, starts, modes>>
  BY DEF Step, OpenLock, Lock, Exists, Remove, BindOk, BindErr, Retry, UnlinkSocket, UnlinkLock,
     Unlock, Exit, Stop, Crash, history
<1>2. PICK to \in Off \cup {"open", "lock", "exists", "remove", "bind", "err", "serving",
                           "unlink", "unlinkLock", "unlock", "failed"} :
        at' = [at EXCEPT ![p] = to]
  BY DEF Step, OpenLock, Lock, Exists, Remove, BindOk, BindErr, Retry, UnlinkSocket, UnlinkLock,
     Unlock, Exit, Stop, Crash, Goto, Fail, Off
<1>3. PICK n \in Nat : fd' = fd \/ fd' = [fd EXCEPT ![p] = n]
  <2>1. CASE OpenLock(p)
    <3>1. lockFile' \in Nat /\ fd' = [fd EXCEPT ![p] = lockFile']
      BY <2>1 DEF OpenLock, ServerTypeOK
    <3> QED BY <3>1
  <2>2. CASE ~OpenLock(p)
    <3>1. fd' = fd \/ fd' = [fd EXCEPT ![p] = 0]
      BY <2>2 DEF Step, Lock, Exists, Remove, BindOk, BindErr, Retry, UnlinkSocket,
         UnlinkLock, Unlock, Exit, Stop, Crash, Fail
    <3> QED BY <3>1
  <2> QED
    BY <2>1, <2>2
<1>4. sock' \in Procs \cup {Nobody} /\ locked' \subseteq Procs
  BY DEF Step, OpenLock, Lock, Exists, Remove, BindOk, BindErr, Retry, UnlinkSocket, UnlinkLock,
     Unlock, Exit, Stop, Crash, Fail, system, ServerTypeOK
<1>5. lockFile' \in Nat /\ inodes' \in Nat
  BY DEF Step, OpenLock, Lock, Exists, Remove, BindOk, BindErr, Retry, UnlinkSocket, UnlinkLock,
     Unlock, Exit, Stop, Crash, system, ServerTypeOK
<1>6. orphaned' \in BOOLEAN
  BY DEF Step, OpenLock, Lock, Exists, Remove, BindOk, BindErr, Retry, UnlinkSocket, UnlinkLock,
     Unlock, Exit, Stop, Crash, history, ServerTypeOK
<1>7. retries' \in [Procs -> 0 .. Retries]
  <2>1. CASE Retry(p)
    BY <2>1, RetriesAssumption DEF Retry, ServerTypeOK
  <2>2. CASE retries' = retries
    BY <2>2 DEF ServerTypeOK
  <2> QED
    BY <2>1, <2>2 DEF Step, OpenLock, Lock, Exists, Remove, BindOk, BindErr, UnlinkSocket,
       UnlinkLock, Unlock, Exit, Stop, Crash
<1>8. flakes' \in [Procs -> 0 .. MaxFlakes]
  <2>1. CASE BindErr(p)
    BY <2>1, RetriesAssumption DEF BindErr, ServerTypeOK
  <2>2. CASE flakes' = flakes
    BY <2>2 DEF ServerTypeOK
  <2> QED
    BY <2>1, <2>2 DEF Step, OpenLock, Lock, Exists, Remove, BindOk, Retry, UnlinkSocket,
       UnlinkLock, Unlock, Exit, Stop, Crash
<1>9. at' \in [Procs -> Off \cup {"open", "lock", "exists", "remove", "bind", "err", "serving",
                                  "unlink", "unlinkLock", "unlock", "failed"}]
      /\ \A q \in Procs \ {p} : at'[q] = at[q]
  BY <1>2 DEF ServerTypeOK
<1>10. fd' \in [Procs -> Nat] /\ \A q \in Procs \ {p} : fd'[q] = fd[q]
  BY <1>3 DEF ServerTypeOK
<1> QED
  BY <1>1, <1>4, <1>5, <1>6, <1>7, <1>8, <1>9, <1>10 DEF ServerTypeOK

\* A process loses its lock: it fails, stops or crashes.  The files stay.
LEMMA LeaveKeeps ==
    ASSUME ServersInv, NEW p \in Procs, at[p] \notin Off, NEW to \in Off \cup {"failed"},
           Goto(p, to), locked' = locked \ {p}, fd' = [fd EXCEPT ![p] = 0],
           UNCHANGED <<sock, lockFile, reuse, orphaned, modes>>, ServerTypeOK'
    PROVE  ServersInv'
<1>1. /\ at'[p] = to /\ \A q \in Procs \ {p} : at'[q] = at[q] /\ fd'[q] = fd[q]
  BY DEF ServersInv, ServerTypeOK, Goto
<1>2. PlacesAreSound'
  BY <1>1 DEF ServersInv, PlacesAreSound, Off
<1>3. LocksExclude' /\ LockIsAtPath' /\ SocketIsOwn'
  BY <1>1 DEF ServersInv, ServerTypeOK, LocksExclude, LockIsAtPath, SocketIsOwn, Off, Guarded
<1> QED
  BY <1>2, <1>3 DEF ServersInv

\* A process goes on and leaves the files alone.
LEMMA MoveKeeps ==
    ASSUME ServersInv, NEW p \in Procs, NEW to, Goto(p, to),
           UNCHANGED <<sock, lockFile, locked, fd, reuse, orphaned, modes>>, ServerTypeOK',
           \/ at[p] \in Guarded /\ to \in {"bind", "err"}
           \/ at[p] = "exists" /\ to = "remove"
           \/ at[p] = "serving" /\ to = "unlink"
           \/ at[p] = "failed" /\ to = "down"
    PROVE  ServersInv'
<1>1. at'[p] = to /\ \A q \in Procs \ {p} : at'[q] = at[q]
  BY DEF ServersInv, ServerTypeOK, Goto
<1>2. PlacesAreSound'
  BY <1>1 DEF ServersInv, PlacesAreSound, Off, Guarded
<1>3. LocksExclude' /\ LockIsAtPath' /\ SocketIsOwn'
  BY <1>1 DEF ServersInv, LocksExclude, LockIsAtPath, SocketIsOwn, Guarded
<1> QED
  BY <1>2, <1>3 DEF ServersInv

\* The lock file is opened and locked.
LEMMA LockKeeps ==
    ASSUME ServersInv, NEW p \in Procs, OpenLock(p) \/ Lock(p)
    PROVE  ServersInv'
<1>1. /\ ServerTypeOK' /\ UNCHANGED <<reuse, starts, modes>>
      /\ \A q \in Procs \ {p} : at'[q] = at[q] /\ fd'[q] = fd[q]
  BY TypesKept DEF ServersInv, Step
<1>2. CASE OpenLock(p)
  <2>1. /\ at[p] = "open" /\ at'[p] = "lock" /\ UNCHANGED <<sock, locked, orphaned>>
        /\ (lockFile # 0 => lockFile' = lockFile) /\ p \notin locked /\ fd'[p] # 0
    BY <1>2 DEF OpenLock, Goto, history, ServersInv, ServerTypeOK, PlacesAreSound
  <2>2. PlacesAreSound'
    BY <1>1, <2>1 DEF ServersInv, PlacesAreSound, Off
  <2>3. LocksExclude' /\ LockIsAtPath' /\ SocketIsOwn'
    BY <1>1, <2>1 DEF ServersInv, ServerTypeOK, LocksExclude, LockIsAtPath, SocketIsOwn, Guarded
  <2> QED
    BY <1>1, <2>2, <2>3 DEF ServersInv
<1>3. CASE Lock(p) /\ ~Free(fd[p])
  BY <1>1, <1>3, LeaveKeeps DEF Lock, Fail, Off
<1>4. CASE Lock(p) /\ Free(fd[p])
  <2>1. /\ at[p] = "lock" /\ at'[p] = "exists" /\ locked' = locked \cup {p}
        /\ UNCHANGED <<sock, lockFile, fd>>
        /\ ~orphaned' => ~orphaned /\ fd[p] = lockFile
        /\ \A q \in locked : fd[q] # fd[p]
    BY <1>4 DEF Lock, Fail, Goto, Free, ServersInv, ServerTypeOK
  <2>2. PlacesAreSound'
    BY <1>1, <2>1 DEF ServersInv, PlacesAreSound, Off
  <2>3. LocksExclude'
    BY <2>1 DEF ServersInv, LocksExclude
  <2>4. LockIsAtPath'
    <3>1. fd[p] = lockFile => lockFile # 0
      BY <2>1 DEF ServersInv, PlacesAreSound
    <3> QED
      BY <1>1, <2>1, <3>1 DEF ServersInv, LockIsAtPath, Guarded
  <2>5. SocketIsOwn'
    BY <1>1, <2>1 DEF ServersInv, SocketIsOwn
  <2> QED
    BY <1>1, <2>2, <2>3, <2>4, <2>5 DEF ServersInv
<1> QED
  BY <1>2, <1>3, <1>4

\* The socket left by a crash is removed; the socket is bound.
LEMMA SocketKeeps ==
    ASSUME ServersInv, NEW p \in Procs, Remove(p) \/ BindOk(p) \/ UnlinkSocket(p)
    PROVE  ServersInv'
<1>1. /\ ServerTypeOK' /\ UNCHANGED <<reuse, starts, modes>>
      /\ \A q \in Procs \ {p} : at'[q] = at[q] /\ fd'[q] = fd[q]
  BY TypesKept DEF ServersInv, Step
<1>2. CASE Remove(p) /\ sock = Nobody
  BY <1>1, <1>2, LeaveKeeps DEF Remove, Fail, Off, history
<1>3. CASE (Remove(p) /\ sock # Nobody) \/ BindOk(p) \/ UnlinkSocket(p)
  <2>1. /\ at[p] \in {"remove", "bind", "unlink"}
        /\ at'[p] \in {"bind", "serving", "unlinkLock", "down"}
        /\ UNCHANGED <<lockFile, locked, fd, orphaned>>
        /\ at'[p] = "serving" => at[p] = "bind" /\ sock = Nobody /\ sock' = p
        /\ at[p] # "bind" => sock' = Nobody /\ at'[p] # "serving"
        /\ at'[p] = "bind" => at[p] = "remove"
        /\ at'[p] = "unlinkLock" => at[p] = "unlink" /\ reuse[p]
        /\ at'[p] = "down" => at[p] = "unlink" /\ ~reuse[p]
        /\ at[p] = "bind" => at'[p] = "serving"
    BY <1>3 DEF Remove, BindOk, UnlinkSocket, Fail, Goto, history, ServersInv, ServerTypeOK
  <2>2. PlacesAreSound'
    <3>1. at'[p] = "down" => p \notin locked
      BY <2>1 DEF ServersInv, PlacesAreSound
    <3> QED
      BY <1>1, <2>1, <3>1 DEF ServersInv, PlacesAreSound, Off
  <2>3. LocksExclude' /\ LockIsAtPath'
    BY <1>1, <2>1 DEF ServersInv, LocksExclude, LockIsAtPath, Guarded
  <2>4. SocketIsOwn'
    <3> SUFFICES ASSUME ~orphaned, modes # BOOLEAN, NEW q \in Procs, q # p,
                        at[q] \in {"serving", "unlink"}
                 PROVE  FALSE
      BY <1>1, <2>1 DEF SocketIsOwn
    <3>1. sock = q /\ sock # Nobody
      BY NobodyAssumption DEF ServersInv, SocketIsOwn
    <3>2. at[p] = "remove"
      BY <2>1, <3>1 DEF ServersInv, SocketIsOwn
    <3>3. p = q
      BY <3>2, GuardedIsAlone DEF ServersInv, PlacesAreSound, Guarded
    <3> QED BY <3>3
  <2> QED
    BY <1>1, <2>2, <2>3, <2>4 DEF ServersInv
<1> QED
  BY <1>2, <1>3

\* The lock file is removed by the only server past the lock.
LEMMA UnlinkLockKeeps ==
    ASSUME ServersInv, NEW p \in Procs, UnlinkLock(p)
    PROVE  ServersInv'
<1>1. /\ ServerTypeOK' /\ UNCHANGED <<reuse, starts, modes>>
      /\ \A q \in Procs \ {p} : at'[q] = at[q] /\ fd'[q] = fd[q]
  BY TypesKept DEF ServersInv, Step
<1>2. /\ at[p] = "unlinkLock" /\ at'[p] = "unlock" /\ reuse[p]
      /\ UNCHANGED <<sock, locked, fd, orphaned>>
  BY DEF UnlinkLock, Goto, history, ServersInv, ServerTypeOK, PlacesAreSound
<1>3. PlacesAreSound'
  BY <1>1, <1>2 DEF ServersInv, PlacesAreSound, Off
<1>4. LocksExclude' /\ SocketIsOwn'
  BY <1>1, <1>2 DEF ServersInv, LocksExclude, SocketIsOwn
<1>5. LockIsAtPath'
  <2> SUFFICES ASSUME ~orphaned, NEW q \in Procs, q # p, at[q] \in Guarded, reuse[q]
               PROVE  FALSE
    BY <1>1, <1>2 DEF LockIsAtPath, Guarded
  <2>1. p \in locked /\ q \in locked /\ fd[p] = fd[q]
    BY <1>2 DEF ServersInv, LockIsAtPath, Guarded
  <2> QED
    BY <2>1 DEF ServersInv, LocksExclude
<1> QED
  BY <1>1, <1>3, <1>4, <1>5 DEF ServersInv

\* No system call of a server, no crash and no start breaks the invariant.
LEMMA ServersStep == ServersInv /\ [ServerNext]_serverVars => ServersInv'
<1> SUFFICES ASSUME ServersInv, [ServerNext]_serverVars PROVE ServersInv'
  OBVIOUS
<1>1. ASSUME NEW p \in Procs, Unlock(p) \/ Crash(p) PROVE ServersInv'
  <2>1. ServerTypeOK'
    BY <1>1, TypesKept DEF ServersInv, Step
  <2>2. at[p] \notin Off
    BY <1>1 DEF Unlock, Crash, Off
  <2>3. \E to \in Off \cup {"failed"} : Goto(p, to)
    BY <1>1 DEF Unlock, Crash, Off
  <2>4. /\ locked' = locked \ {p} /\ fd' = [fd EXCEPT ![p] = 0]
        /\ UNCHANGED <<sock, lockFile, reuse, orphaned, modes>>
    BY <1>1 DEF Unlock, Crash, history
  <2> QED
    BY <2>1, <2>2, <2>3, <2>4, LeaveKeeps
<1>2. ASSUME NEW p \in Procs, Retry(p), Goto(p, "bind"), UNCHANGED <<locked, fd>> PROVE ServersInv'
  <2>1. ServerTypeOK' /\ UNCHANGED <<reuse, modes>>
    BY <1>2, TypesKept DEF ServersInv, Step
  <2>2. at[p] = "err" /\ UNCHANGED <<sock, lockFile, orphaned>>
    BY <1>2 DEF Retry, history
  <2> QED
    BY <1>2, <2>1, <2>2, MoveKeeps DEF Guarded
<1>3. ASSUME NEW p \in Procs, Retry(p), Fail(p) PROVE ServersInv'
  <2>1. ServerTypeOK' /\ UNCHANGED <<reuse, modes>>
    BY <1>3, TypesKept DEF ServersInv, Step
  <2>2. at[p] \notin Off /\ UNCHANGED <<sock, lockFile, orphaned>>
    BY <1>3 DEF Retry, Off, history
  <2> QED
    BY <1>3, <2>1, <2>2, LeaveKeeps DEF Fail
<1>4. ASSUME NEW p \in Procs, Exists(p) \/ BindErr(p) \/ Stop(p) \/ Exit(p) PROVE ServersInv'
  <2>1. ServerTypeOK' /\ UNCHANGED <<reuse, modes>>
    BY <1>4, TypesKept DEF ServersInv, Step
  <2>2. UNCHANGED <<sock, lockFile, locked, fd, orphaned>>
    BY <1>4 DEF Exists, BindErr, Stop, Exit, system, history
  <2>3. \/ at[p] \in Guarded /\ (Goto(p, "bind") \/ Goto(p, "err"))
        \/ at[p] = "exists" /\ Goto(p, "remove")
        \/ at[p] = "serving" /\ Goto(p, "unlink")
        \/ at[p] = "failed" /\ Goto(p, "down")
    BY <1>4 DEF Exists, BindErr, Stop, Exit, Guarded
  <2> QED
    BY <2>1, <2>2, <2>3, MoveKeeps
<1>5. ASSUME NEW p \in Procs, Retry(p) PROVE ServersInv'
  BY <1>2, <1>3, <1>5 DEF Retry
<1>6. CASE UNCHANGED serverVars
  BY <1>6 DEF serverVars, system, history, ServersInv, ServerTypeOK, PlacesAreSound, LocksExclude,
     LockIsAtPath, SocketIsOwn
<1> QED
  BY <1>1, <1>4, <1>5, <1>6, StartKeeps, LockKeeps, SocketKeeps, UnlinkLockKeeps
     DEF ServerNext, Step

\* However servers start, stop and crash over one path, one that serves has bound the
\* socket at the path, if all use the same `reuse` and none has locked a file that
\* another had just removed.
THEOREM ServersAreReachableAlways == ServerSpec => []ServersAreReachable
<1>1. ServersInv => ServersAreReachable
  BY DEF ServersInv, SocketIsOwn, ServersAreReachable
<1> QED
  BY <1>1, ServersInit, ServersStep, PTL DEF ServerSpec

\* Type correctness of the model of the servers.
THEOREM ServersTyped == ServerSpec => []ServerTypeOK
<1>1. ServersInv => ServerTypeOK
  BY DEF ServersInv
<1> QED
  BY <1>1, ServersInit, ServersStep, PTL DEF ServerSpec

-----------------------------------------------------------------------------
(* Temporary files                                                         *)

\* The values that the methods make are of their types.
LEMMA FileValues ==
    /\ NoJob \in Jobs
    /\ \A kind \in {"persist", "rename", "keep", "copy", "write", "remove"}, p, q \in Paths :
          Job(kind, p, q) \in Jobs /\ Job(kind, p, q) # NoJob
    /\ \A p \in Paths : {Left(p), Right(p)} \subseteq [kind : {"left", "right"}, path : Paths]
    /\ Tmp \in Paths /\ \A j \in Jobs : j.from \in Paths /\ j.to \in Paths
BY MaxMethodsAssumption DEF NoJob, Job, Jobs, Left, Right, Paths, Inodes

\* A new file is one that no path is linked to.
LEMMA FreshIsNew ==
    ASSUME Unused # {}
    PROVE  Fresh \in Inodes \ {1, 2} /\ \A p \in Paths : link[p] # Fresh
BY DEF Fresh, Unused

\* What the open() of a write or a copy has done: the file at the destination is
\* truncated, be it the one that was there or a new one.
Opened(j, k, dst) ==
    /\ link[j.to] = dst \/ (link[j.to] = 0 /\ dst # 1 /\ \A p \in Paths : link[p] # dst)
    /\ link' = [link EXCEPT ![j.to] = dst]
    /\ data' = [data EXCEPT ![dst] = "cut"]
    /\ k = [j EXCEPT !.st = "open", !.src = link[j.from], !.dst = dst]
    /\ j.kind = "copy" => link[j.from] # 0

LEMMA OpensOrFails ==
    ASSUME NEW j \in Jobs, NEW k, FileTypeOK, Opens(j, k)
    PROVE  \/ k = [j EXCEPT !.st = "err"] /\ UNCHANGED disk
           \/ \E dst \in Inodes : Opened(j, k, dst)
<1> DEFINE dst == IF link[j.to] # 0 THEN link[j.to] ELSE Fresh
<1>1. CASE k = [j EXCEPT !.st = "err"] /\ UNCHANGED disk
  BY <1>1
<1>2. CASE ~(k = [j EXCEPT !.st = "err"] /\ UNCHANGED disk)
  <2>1. /\ j.kind = "copy" => link[j.from] # 0
        /\ link[j.to] # 0 \/ Unused # {}
        /\ link' = [link EXCEPT ![j.to] = dst]
        /\ data' = [data EXCEPT ![dst] = "cut"]
        /\ k = [j EXCEPT !.st = "open", !.src = link[j.from], !.dst = dst]
    BY <1>2 DEF Opens
  <2>2. j.to \in Paths /\ link[j.to] \in Inodes \cup {0}
    BY DEF Jobs, FileTypeOK
  <2>3. dst \in Inodes
    BY <2>1, <2>2, FreshIsNew
  <2>4. link[j.to] = dst \/ (link[j.to] = 0 /\ dst # 1 /\ \A p \in Paths : link[p] # dst)
    BY <2>1, <2>2, FreshIsNew
  <2> HIDE DEF dst
  <2> QED
    BY <2>1, <2>3, <2>4 DEF Opened
<1> QED
  BY <1>1, <1>2

\* A job that runs keeps the types, and gives no file a second name.
LEMMA RunsKeeps ==
    ASSUME NEW j \in Jobs, NEW k, FileTypeOK, OneName, Runs(j, k),
           j.st = "open" => j.dst # 0 /\ (j.kind = "copy" => j.src # 0)
    PROVE  /\ k \in Jobs
           /\ link' \in [Paths -> Inodes \cup {0}]
           /\ data' \in [Inodes -> {"whole", "old", "cut"}]
           /\ OneName'
<1> USE DEF FileTypeOK, OneName
<1>1. CASE Renames(j, k)
  BY <1>1 DEF Renames, Jobs
<1>2. CASE Keeps(j, k)
  BY <1>2 DEF Keeps, Jobs, disk
<1>3. CASE Removes(j, k)
  BY <1>3 DEF Removes, Unlink, Jobs
<1>4. CASE Opens(j, k)
  <2>1. CASE k = [j EXCEPT !.st = "err"] /\ UNCHANGED disk
    BY <2>1 DEF Jobs, disk
  <2>2. ASSUME NEW dst \in Inodes, Opened(j, k, dst)
        PROVE  /\ k \in Jobs
               /\ link' \in [Paths -> Inodes \cup {0}]
               /\ data' \in [Inodes -> {"whole", "old", "cut"}]
               /\ OneName'
    <3>1. /\ j.to \in Paths /\ j.from \in Paths
          /\ link[j.to] = dst \/ (link[j.to] = 0 /\ \A p \in Paths : link[p] # dst)
          /\ link' = [link EXCEPT ![j.to] = dst] /\ data' = [data EXCEPT ![dst] = "cut"]
      BY <2>2 DEF Opened, Jobs
    <3>2. k \in Jobs
      BY <2>2, <3>1 DEF Opened, Jobs
    <3> QED
      BY <3>1, <3>2
  <2> QED
    BY <1>4, <2>1, <2>2, OpensOrFails
<1>5. CASE Fills(j, k)
  <2>1. CASE k = [j EXCEPT !.st = "err"] /\ UNCHANGED <<link, data>>
    BY <2>1 DEF Jobs
  <2>2. CASE /\ data' = [data EXCEPT ![j.dst] = IF j.kind = "write" THEN "whole" ELSE data[j.src]]
             /\ k = [j EXCEPT !.st = "ok"] /\ UNCHANGED link
             /\ j.kind \in {"write", "copy"} /\ j.st = "open"
    BY <2>2 DEF Jobs
  <2> QED
    BY <1>5, <2>1, <2>2 DEF Fills
<1> QED
  BY <1>1, <1>2, <1>3, <1>4, <1>5 DEF Runs

\* The job that is waited for
LEMMA RunJobKeeps ==
    ASSUME FilesInv, RunJob
    PROVE  FilesInv'
<1>1. FileTypeOK' /\ OneName'
  <2>1. /\ job \in Jobs
        /\ (job.st = "open" => job.dst # 0 /\ (job.kind = "copy" => job.src # 0))
    BY DEF FilesInv, FileTypeOK, JobsAreSound, IsSound
  <2>2. Runs(job, job') /\ UNCHANGED <<file, call, orphan, noted>>
    BY DEF RunJob
  <2>3. /\ job' \in Jobs /\ link' \in [Paths -> Inodes \cup {0}]
        /\ data' \in [Inodes -> {"whole", "old", "cut"}] /\ OneName'
    BY <2>1, <2>2, RunsKeeps DEF FilesInv
  <2> QED
    BY <2>2, <2>3 DEF FilesInv, FileTypeOK
<1>2. UNCHANGED <<file, call, orphan, noted>>
  BY DEF RunJob
<1>3. CASE job.st = "queued" /\ Renames(job, job')
  <2>1. Early'
    BY <1>1, <1>2, <1>3 DEF FilesInv, Renames, Early, JobsAreSound, IsSound
  <2>2. JobsAreSound'
    BY <1>1, <1>2, <1>3 DEF FilesInv, Renames, FileTypeOK, Jobs, JobsAreSound, IsSound,
         Awaits, Clean, Idle, NoJob
  <2>3. UploadIsThere'
    BY <1>1, <1>2, <1>3 DEF FilesInv, Renames, FileTypeOK, Jobs, JobsAreSound, IsSound,
         Awaits, Clean, UploadIsThere, IsSafe, Whole, TempIsOwned, Right
  <2>4. TempIsOwned'
    BY <1>1, <1>2, <1>3 DEF FilesInv, Renames, FileTypeOK, Jobs, Paths, JobsAreSound, IsSound,
         TempIsOwned
  <2> QED
    BY <1>1, <2>1, <2>2, <2>3, <2>4 DEF FilesInv
<1>4. CASE job.st = "queued" /\ Keeps(job, job')
  <2>1. Early'
    BY <1>1, <1>2, <1>4 DEF FilesInv, Keeps, Early, JobsAreSound, IsSound
  <2>2. JobsAreSound'
    BY <1>1, <1>2, <1>4 DEF FilesInv, Keeps, JobsAreSound, IsSound, Awaits, Clean, Idle, NoJob
  <2>3. UploadIsThere'
    BY <1>1, <1>2, <1>4 DEF FilesInv, Keeps, FileTypeOK, Jobs, JobsAreSound, IsSound, Clean,
         UploadIsThere, IsSafe, Whole, disk
  <2>4. TempIsOwned'
    BY <1>1, <1>2, <1>4 DEF FilesInv, Keeps, TempIsOwned
  <2> QED
    BY <1>1, <2>1, <2>2, <2>3, <2>4 DEF FilesInv
<1>5. CASE job.st = "queued" /\ Removes(job, job')
  <2>1. Early'
    BY <1>1, <1>2, <1>5 DEF FilesInv, Removes, Early, JobsAreSound, IsSound
  <2>2. JobsAreSound'
    BY <1>1, <1>2, <1>5 DEF FilesInv, Removes, FileTypeOK, Jobs, JobsAreSound, IsSound,
         Awaits, Clean, Idle, NoJob
  <2>3. UploadIsThere'
    BY <1>1, <1>2, <1>5 DEF FilesInv, Removes, Unlink, FileTypeOK, Jobs, JobsAreSound,
         IsSound, Awaits, Clean, UploadIsThere, IsSafe, Whole, Right
  <2>4. TempIsOwned'
    BY <1>1, <1>2, <1>5 DEF FilesInv, Removes, Unlink, FileTypeOK, Paths, TempIsOwned
  <2> QED
    BY <1>1, <2>1, <2>2, <2>3, <2>4 DEF FilesInv
<1>6. CASE Fills(job, job')
  <2>1. Early'
    BY <1>1, <1>2, <1>6 DEF FilesInv, Fills, Early, JobsAreSound, IsSound
  <2>2. JobsAreSound'
    BY <1>1, <1>2, <1>6 DEF FilesInv, Fills, FileTypeOK, Jobs, JobsAreSound, IsSound, Awaits,
         Clean, Idle, NoJob
  <2>3. UploadIsThere'
    BY <1>1, <1>2, <1>6 DEF FilesInv, Fills, FileTypeOK, Jobs, JobsAreSound, IsSound, Awaits,
         Clean, UploadIsThere, IsSafe, Whole, Right
  <2>4. TempIsOwned'
    BY <1>1, <1>2, <1>6 DEF FilesInv, Fills, TempIsOwned
  <2> QED
    BY <1>1, <2>1, <2>2, <2>3, <2>4 DEF FilesInv
<1>7. CASE Opens(job, job')
  <2>1. CASE job' = [job EXCEPT !.st = "err"] /\ UNCHANGED disk
    BY <1>1, <1>2, <1>7, <2>1 DEF FilesInv, Opens, Early, JobsAreSound, IsSound, Awaits,
         Clean, UploadIsThere, IsSafe, Whole, TempIsOwned, Idle, NoJob, disk
  <2>2. ASSUME NEW dst \in Inodes, Opened(job, job', dst) PROVE FilesInv'
    <3>k. job.kind \in {"write", "copy"} /\ job.st = "queued" /\ job \in Jobs
      BY <1>7 DEF Opens, FilesInv, FileTypeOK
    <3>l. job' = [job EXCEPT !.st = "open", !.src = link[job.from], !.dst = dst]
      BY <2>2 DEF Opened
    <3>m. /\ job'.kind = job.kind /\ job'.from = job.from /\ job'.to = job.to
          /\ job'.st = "open" /\ job'.dst = dst /\ job'.src = link[job.from]
      BY <3>k, <3>l DEF Jobs
    <3>a. /\ job'.kind = job.kind /\ job'.from = job.from /\ job'.to = job.to
          /\ job'.st = "open" /\ job'.dst = dst /\ job'.src = link[job.from]
          /\ job.kind \in {"write", "copy"} /\ job.st = "queued"
          /\ job # NoJob /\ job' # NoJob
      BY <3>k, <3>m DEF NoJob
    <3>b. /\ link'[job.to] = dst /\ \A p \in Paths \ {job.to} : link'[p] = link[p]
          /\ data'[dst] = "cut" /\ \A i \in Inodes \ {dst} : data'[i] = data[i]
          /\ job.from \in Paths /\ job.to \in Paths
          /\ \/ link[job.to] = dst
             \/ link[job.to] = 0 /\ dst # 1 /\ \A p \in Paths : link[p] # dst
          /\ job.kind = "copy" => link[job.from] # 0
      BY <2>2 DEF FilesInv, FileTypeOK, Opened, Jobs
    <3>1. Early'
      BY <1>1, <1>2, <3>a, <3>b DEF FilesInv, Early, Idle, JobsAreSound
    <3>2. JobsAreSound'
      BY <1>1, <1>2, <3>a, <3>b DEF FilesInv, JobsAreSound, IsSound, Awaits, Clean, Idle, Inodes
    <3>3. UploadIsThere'
      BY <1>1, <1>2, <3>a, <3>b DEF FilesInv, UploadIsThere, FileTypeOK, OneName,
           JobsAreSound, IsSound, Awaits, Clean, UploadIsThere, IsSafe, Whole, Buffered
    <3>4. TempIsOwned'
      BY <1>1, <1>2, <3>a, <3>b DEF FilesInv, TempIsOwned, Paths
    <3> QED
      BY <1>1, <3>1, <3>2, <3>3, <3>4 DEF FilesInv
  <2>3. job \in Jobs /\ FileTypeOK
    BY DEF FilesInv, FileTypeOK
  <2> QED
    BY <1>7, <2>1, <2>2, <2>3, OpensOrFails
<1> QED
  BY <1>3, <1>4, <1>5, <1>6, <1>7 DEF RunJob, Runs

\* The job that nobody waits for any more
LEMMA RunOrphanKeeps ==
    ASSUME FilesInv, RunOrphan
    PROVE  FilesInv'
<1>1. FileTypeOK' /\ OneName'
  <2>1. /\ orphan \in Jobs
        /\ (orphan.st = "open" => orphan.dst # 0 /\ (orphan.kind = "copy" => orphan.src # 0))
    BY DEF FilesInv, FileTypeOK, JobsAreSound, IsSound
  <2>2. Runs(orphan, orphan') /\ UNCHANGED <<file, call, job, noted>>
    BY DEF RunOrphan
  <2>3. /\ orphan' \in Jobs /\ link' \in [Paths -> Inodes \cup {0}]
        /\ data' \in [Inodes -> {"whole", "old", "cut"}] /\ OneName'
    BY <2>1, <2>2, RunsKeeps DEF FilesInv
  <2> QED
    BY <2>2, <2>3 DEF FilesInv, FileTypeOK
<1>2. UNCHANGED <<file, call, job, noted>>
  BY DEF RunOrphan
<1>3. CASE orphan.st = "queued" /\ Renames(orphan, orphan')
  <2>1. Early'
    BY <1>1, <1>2, <1>3 DEF FilesInv, Renames, Early, JobsAreSound, IsSound
  <2>2. JobsAreSound'
    BY <1>1, <1>2, <1>3 DEF FilesInv, Renames, FileTypeOK, Jobs, JobsAreSound, IsSound,
         Awaits, Clean, Idle, NoJob
  <2>3. UploadIsThere'
    BY <1>1, <1>2, <1>3 DEF FilesInv, Renames, FileTypeOK, Jobs, JobsAreSound, IsSound,
         Awaits, Clean, UploadIsThere, IsSafe, Whole, Right, Gone
  <2>4. TempIsOwned'
    BY <1>1, <1>2, <1>3 DEF FilesInv, Renames, FileTypeOK, Jobs, Paths, JobsAreSound, IsSound,
         TempIsOwned
  <2> QED
    BY <1>1, <2>1, <2>2, <2>3, <2>4 DEF FilesInv
<1>4. CASE orphan.st = "queued" /\ Keeps(orphan, orphan')
  <2>1. Early'
    BY <1>1, <1>2, <1>4 DEF FilesInv, Keeps, Early, JobsAreSound, IsSound
  <2>2. JobsAreSound'
    BY <1>1, <1>2, <1>4 DEF FilesInv, Keeps, JobsAreSound, IsSound, Awaits, Clean, Idle, NoJob
  <2>3. UploadIsThere'
    BY <1>1, <1>2, <1>4 DEF FilesInv, Keeps, FileTypeOK, Jobs, JobsAreSound, IsSound, Clean,
         UploadIsThere, IsSafe, Whole, disk
  <2>4. TempIsOwned'
    BY <1>1, <1>2, <1>4 DEF FilesInv, Keeps, TempIsOwned
  <2> QED
    BY <1>1, <2>1, <2>2, <2>3, <2>4 DEF FilesInv
<1>5. CASE orphan.st = "queued" /\ Removes(orphan, orphan')
  <2>1. Early'
    BY <1>1, <1>2, <1>5 DEF FilesInv, Removes, Early, JobsAreSound, IsSound
  <2>2. JobsAreSound'
    BY <1>1, <1>2, <1>5 DEF FilesInv, Removes, FileTypeOK, Jobs, JobsAreSound, IsSound,
         Awaits, Clean, Idle, NoJob
  <2>3. UploadIsThere'
    BY <1>1, <1>2, <1>5 DEF FilesInv, Removes, FileTypeOK, Jobs, JobsAreSound, IsSound,
         Awaits, Clean, UploadIsThere, IsSafe, Whole, Right, Gone
  <2>4. TempIsOwned'
    BY <1>1, <1>2, <1>5 DEF FilesInv, Removes, Unlink, FileTypeOK, Paths, TempIsOwned
  <2> QED
    BY <1>1, <2>1, <2>2, <2>3, <2>4 DEF FilesInv
<1>6. CASE Fills(orphan, orphan')
  <2>1. Early'
    BY <1>1, <1>2, <1>6 DEF FilesInv, Fills, Early, JobsAreSound, IsSound
  <2>2. JobsAreSound'
    BY <1>1, <1>2, <1>6 DEF FilesInv, Fills, FileTypeOK, Jobs, JobsAreSound, IsSound, Awaits,
         Clean, Idle, NoJob
  <2>3. UploadIsThere'
    BY <1>1, <1>2, <1>6 DEF FilesInv, Fills, FileTypeOK, Jobs, JobsAreSound, IsSound, Clean,
         UploadIsThere, IsSafe, Whole, Gone
  <2>4. TempIsOwned'
    BY <1>1, <1>2, <1>6 DEF FilesInv, Fills, TempIsOwned
  <2> QED
    BY <1>1, <2>1, <2>2, <2>3, <2>4 DEF FilesInv
<1>7. CASE Opens(orphan, orphan')
  <2>1. CASE orphan' = [orphan EXCEPT !.st = "err"] /\ UNCHANGED disk
    BY <1>1, <1>2, <1>7, <2>1 DEF FilesInv, Opens, Early, JobsAreSound, IsSound, Awaits,
         Clean, UploadIsThere, IsSafe, Whole, TempIsOwned, Idle, NoJob, disk
  <2>2. ASSUME NEW dst \in Inodes, Opened(orphan, orphan', dst) PROVE FilesInv'
    <3>k. orphan.kind \in {"write", "copy"} /\ orphan.st = "queued" /\ orphan \in Jobs
      BY <1>7 DEF Opens, FilesInv, FileTypeOK
    <3>l. orphan' = [orphan EXCEPT !.st = "open", !.src = link[orphan.from], !.dst = dst]
      BY <2>2 DEF Opened
    <3>m. /\ orphan'.kind = orphan.kind /\ orphan'.from = orphan.from /\ orphan'.to = orphan.to
          /\ orphan'.st = "open" /\ orphan'.dst = dst /\ orphan'.src = link[orphan.from]
      BY <3>k, <3>l DEF Jobs
    <3>a. /\ orphan'.kind = orphan.kind /\ orphan'.from = orphan.from /\ orphan'.to = orphan.to
          /\ orphan'.st = "open" /\ orphan'.dst = dst /\ orphan'.src = link[orphan.from]
          /\ orphan.kind \in {"write", "copy"} /\ orphan.st = "queued"
          /\ orphan # NoJob /\ orphan' # NoJob
      BY <3>k, <3>m DEF NoJob
    <3>b. /\ link'[orphan.to] = dst /\ \A p \in Paths \ {orphan.to} : link'[p] = link[p]
          /\ data'[dst] = "cut" /\ \A i \in Inodes \ {dst} : data'[i] = data[i]
          /\ orphan.from \in Paths /\ orphan.to \in Paths
          /\ \/ link[orphan.to] = dst
             \/ link[orphan.to] = 0 /\ dst # 1 /\ \A p \in Paths : link[p] # dst
          /\ orphan.kind = "copy" => link[orphan.from] # 0
      BY <2>2 DEF FilesInv, FileTypeOK, Opened, Jobs
    <3>1. Early'
      BY <1>1, <1>2, <3>a, <3>b DEF FilesInv, Early, Idle, JobsAreSound
    <3>2. JobsAreSound'
      BY <1>1, <1>2, <3>a, <3>b DEF FilesInv, JobsAreSound, IsSound, Awaits, Clean, Idle, Inodes
    <3>3. UploadIsThere'
      BY <1>1, <1>2, <3>a, <3>b DEF FilesInv, UploadIsThere, FileTypeOK, OneName,
           JobsAreSound, IsSound, Awaits, Clean, UploadIsThere, IsSafe, Whole, Right, Gone,
           Buffered
    <3>4. TempIsOwned'
      BY <1>1, <1>2, <3>a, <3>b DEF FilesInv, TempIsOwned, Paths
    <3> QED
      BY <1>1, <3>1, <3>2, <3>3, <3>4 DEF FilesInv
  <2>3. orphan \in Jobs /\ FileTypeOK
    BY DEF FilesInv, FileTypeOK
  <2> QED
    BY <1>7, <2>1, <2>2, <2>3, OpensOrFails
<1> QED
  BY <1>3, <1>4, <1>5, <1>6, <1>7 DEF RunOrphan, Runs

\* TempFile::from() creates the file.
LEMMA CreateKeeps ==
    ASSUME FilesInv, Create
    PROVE  FilesInv'
<1>1. FileTypeOK'
  BY MaxMethodsAssumption DEF FilesInv, Create, FileTypeOK, Paths, Inodes
<1>2. OneName'
  BY DEF FilesInv, Create, OneName, Early
<1>3. Early'
  BY DEF FilesInv, Create, FileTypeOK, Paths, Early, Idle
<1>4. JobsAreSound'
  BY DEF FilesInv, Create, Early, JobsAreSound, IsSound, Idle
<1>5. UploadIsThere'
  BY DEF FilesInv, Create, Early, JobsAreSound, IsSound, UploadIsThere, IsSafe
<1>6. TempIsOwned'
  BY DEF FilesInv, Create, TempIsOwned
<1> QED
  BY <1>1, <1>2, <1>3, <1>4, <1>5, <1>6 DEF FilesInv

\* The upload is complete.
LEMMA StreamedKeeps ==
    ASSUME FilesInv, Streamed
    PROVE  FilesInv'
<1>1. FileTypeOK'
  BY DEF FilesInv, Streamed, FileTypeOK, Paths, Inodes, Left
<1>2. OneName'
  BY DEF FilesInv, Streamed, OneName
<1>3. Early'
  BY DEF FilesInv, Streamed, Early, Left
<1>4. JobsAreSound'
  BY DEF FilesInv, Streamed, Early, JobsAreSound, IsSound, Idle, Left
<1>5. UploadIsThere'
  BY DEF FilesInv, Streamed, FileTypeOK, Paths, Early, JobsAreSound, IsSound, UploadIsThere,
       IsSafe, Whole, Left
<1>6. TempIsOwned'
  BY DEF FilesInv, Streamed, TempIsOwned
<1> QED
  BY <1>1, <1>2, <1>3, <1>4, <1>5, <1>6 DEF FilesInv

\* It is not.
LEMMA StreamFailsKeeps ==
    ASSUME FilesInv, StreamFails
    PROVE  FilesInv'
<1>1. FileTypeOK'
  BY DEF FilesInv, StreamFails, FileTypeOK, Paths, Gone
<1>2. OneName'
  BY DEF FilesInv, StreamFails, OneName
<1>3. Early'
  BY DEF FilesInv, StreamFails, Early, Gone
<1>4. JobsAreSound'
  BY DEF FilesInv, StreamFails, Early, JobsAreSound, IsSound, Idle, Gone
<1>5. UploadIsThere'
  BY DEF FilesInv, StreamFails, Early, JobsAreSound, IsSound, UploadIsThere, Gone
<1>6. TempIsOwned'
  BY DEF FilesInv, StreamFails, FileTypeOK, Paths, TempIsOwned
<1> QED
  BY <1>1, <1>2, <1>3, <1>4, <1>5, <1>6 DEF FilesInv

\* A field of a form
LEMMA FromValueKeeps ==
    ASSUME FilesInv, FromValue
    PROVE  FilesInv'
<1>1. FileTypeOK'
  BY DEF FilesInv, FromValue, FileTypeOK, Paths, disk, Buffered
<1>2. OneName'
  BY DEF FilesInv, FromValue, OneName, disk
<1>3. Early'
  BY DEF FilesInv, FromValue, Early, Buffered
<1>4. JobsAreSound'
  BY DEF FilesInv, FromValue, Early, JobsAreSound, IsSound, Idle, Buffered
<1>5. UploadIsThere'
  BY DEF FilesInv, FromValue, Early, JobsAreSound, IsSound, UploadIsThere, IsSafe, Buffered
<1>6. TempIsOwned'
  BY DEF FilesInv, FromValue, Paths, Early, TempIsOwned, disk
<1> QED
  BY <1>1, <1>2, <1>3, <1>4, <1>5, <1>6 DEF FilesInv

\* persist_to(), up to its job
LEMMA PersistToKeeps ==
    ASSUME FilesInv, NEW d \in Paths, PersistTo(d)
    PROVE  FilesInv'
<1>1. FileTypeOK'
  BY DEF FilesInv, PersistTo, Begin, Job, FileTypeOK, Jobs, disk, Right
<1>2. OneName'
  BY DEF FilesInv, PersistTo, Begin, OneName, disk
<1>3. Early'
  BY DEF FilesInv, PersistTo, Begin, Early, Right
<1>4. JobsAreSound'
  <2>1. d \in Dests \/ d = file.path
    BY DEF PersistTo, Begin
  <2>2. CASE file.kind = "left"
    BY <2>1, <2>2 DEF FilesInv, PersistTo, Begin, Job, JobsAreSound, IsSound, Awaits, Clean,
         TempIsOwned, Idle, NoCall, Right
  <2>3. CASE file.kind = "right"
    BY <2>1, <2>3, TmpAssumption DEF FilesInv, PersistTo, Begin, Job, JobsAreSound, IsSound,
         Awaits, Clean, Idle, NoCall, Right
  <2>4. CASE file.kind = "buffered"
    BY <2>1, <2>4 DEF FilesInv, PersistTo, Begin, Job, JobsAreSound, IsSound, Awaits, Clean,
         Idle, NoCall
  <2> QED
    BY <2>2, <2>3, <2>4 DEF PersistTo
<1>5. UploadIsThere'
  <2>1. d \in Dests \/ d = file.path
    BY DEF PersistTo, Begin
  <2>2. CASE file.kind = "left"
    BY <2>1, <2>2 DEF FilesInv, PersistTo, Begin, Job, OneName, JobsAreSound, IsSound, Clean,
         UploadIsThere, IsSafe, Whole, disk, Right
  <2>3. CASE file.kind = "right"
    BY <2>1, <2>3 DEF FilesInv, PersistTo, Begin, Job, Early, JobsAreSound, IsSound, Clean,
         UploadIsThere, IsSafe, Whole, Idle, disk, Right
  <2>4. CASE file.kind = "buffered"
    BY <2>1, <2>4 DEF FilesInv, PersistTo, Begin, Job, JobsAreSound, IsSound, Clean,
         UploadIsThere, IsSafe
  <2> QED
    BY <2>2, <2>3, <2>4 DEF PersistTo
<1>6. TempIsOwned'
  BY DEF FilesInv, PersistTo, Begin, Job, JobsAreSound, IsSound, TempIsOwned, disk, Left
<1> QED
  BY <1>1, <1>2, <1>3, <1>4, <1>5, <1>6 DEF FilesInv

\* copy_to() and move_copy_to(), up to their job
LEMMA CopyToKeeps ==
    ASSUME FilesInv, NEW d \in Paths, NEW op \in {"copy_to", "move_copy_to"}, CopyTo(op, d)
    PROVE  FilesInv'
<1>1. FileTypeOK'
  BY DEF FilesInv, CopyTo, Begin, Job, FileTypeOK, Jobs, disk, Right
<1>2. OneName'
  BY DEF FilesInv, CopyTo, Begin, OneName, disk
<1>3. Early'
  BY DEF FilesInv, CopyTo, Begin, Early, Right
<1>4. JobsAreSound'
  <2>1. d \in Dests \/ d = file.path
    BY DEF CopyTo, Begin
  <2>2. CASE file.kind = "left"
    BY <2>1, <2>2 DEF FilesInv, CopyTo, Begin, Job, JobsAreSound, IsSound, Awaits, Clean,
         Idle, NoCall, Right
  <2>3. CASE file.kind = "right"
    BY <2>1, <2>3 DEF FilesInv, CopyTo, Begin, Job, FileTypeOK, JobsAreSound, IsSound, Awaits,
         Clean, Idle, NoCall, Right
  <2>4. CASE file.kind = "buffered"
    BY <2>1, <2>4 DEF FilesInv, CopyTo, Begin, Job, JobsAreSound, IsSound, Awaits, Clean,
         Idle, NoCall
  <2> QED
    BY <2>2, <2>3, <2>4 DEF CopyTo
<1>5. UploadIsThere'
  <2>1. d \in Dests \/ d = file.path
    BY DEF CopyTo, Begin
  <2>2. CASE file.kind = "left"
    BY <2>1, <2>2 DEF FilesInv, CopyTo, Begin, Job, Early, JobsAreSound, IsSound, Awaits,
         Clean, UploadIsThere, IsSafe, Whole, disk, Right
  <2>3. CASE file.kind = "right"
    BY <2>1, <2>3 DEF FilesInv, CopyTo, Begin, Job, JobsAreSound, IsSound, Awaits, Clean,
         UploadIsThere, IsSafe, Whole, NoJob, disk
  <2>4. CASE file.kind = "buffered"
    BY <2>1, <2>4 DEF FilesInv, CopyTo, Begin, Job, JobsAreSound, IsSound, Clean,
         UploadIsThere, IsSafe
  <2> QED
    BY <2>2, <2>3, <2>4 DEF CopyTo
<1>6. TempIsOwned'
  BY DEF FilesInv, CopyTo, Begin, Job, JobsAreSound, IsSound, TempIsOwned, disk
<1> QED
  BY <1>1, <1>2, <1>3, <1>4, <1>5, <1>6 DEF FilesInv

\* What a job returns to nobody is dropped.
LEMMA OrphanEndsKeeps ==
    ASSUME FilesInv, OrphanEnds
    PROVE  FilesInv'
<1>1. FileTypeOK'
  BY DEF FilesInv, OrphanEnds, Unlink, FileTypeOK, Jobs, Paths, NoJob
<1>2. OneName'
  BY DEF FilesInv, OrphanEnds, Unlink, FileTypeOK, OneName
<1>3. Early'
  BY DEF FilesInv, OrphanEnds, Early, JobsAreSound, IsSound, Idle
<1>4. JobsAreSound'
  BY DEF FilesInv, OrphanEnds, JobsAreSound, IsSound, Awaits, Clean, Idle, NoJob
<1>5. UploadIsThere'
  BY DEF FilesInv, OrphanEnds, Ended, FileTypeOK, Jobs, OneName, Early, JobsAreSound, IsSound,
       Awaits, Clean, UploadIsThere, IsSafe, Whole, Idle, NoJob, Left, Right, Gone, Buffered
<1>6. TempIsOwned'
  BY DEF FilesInv, OrphanEnds, Ended, Unlink, FileTypeOK, Jobs, JobsAreSound, IsSound,
       TempIsOwned
<1> QED
  BY <1>1, <1>2, <1>3, <1>4, <1>5, <1>6 DEF FilesInv

\* persist_to() of a TempPath returns.
LEMMA PersistedKeeps ==
    ASSUME FilesInv, Persisted
    PROVE  FilesInv'
<1>1. FileTypeOK'
  BY DEF FilesInv, Persisted, Returns, FileTypeOK, Jobs, Paths, NoJob, NoCall, Left
<1>2. OneName'
  BY DEF FilesInv, Persisted, Returns, OneName
<1>3. Early'
  BY DEF FilesInv, Persisted, Returns, Early, JobsAreSound, IsSound, Left
<1>4. JobsAreSound'
  BY DEF FilesInv, Persisted, Returns, JobsAreSound, IsSound, Clean, Idle, NoJob, Left
<1>5. UploadIsThere'
  BY DEF FilesInv, Persisted, Ended, Returns, JobsAreSound, IsSound, Awaits, Clean,
       UploadIsThere, IsSafe, Whole, Left, Right, Gone
<1>6. TempIsOwned'
  BY DEF FilesInv, Persisted, Ended, Returns, JobsAreSound, IsSound, TempIsOwned
<1> QED
  BY <1>1, <1>2, <1>3, <1>4, <1>5, <1>6 DEF FilesInv

\* persist_to() of a path returns.
LEMMA RenamedKeeps ==
    ASSUME FilesInv, Renamed
    PROVE  FilesInv'
<1>1. FileTypeOK'
  BY DEF FilesInv, Renamed, Returns, FileTypeOK, Jobs, Paths, NoJob, NoCall, Right
<1>2. OneName'
  BY DEF FilesInv, Renamed, Returns, OneName
<1>3. Early'
  BY DEF FilesInv, Renamed, Returns, Early, JobsAreSound, IsSound, Right
<1>4. JobsAreSound'
  BY DEF FilesInv, Renamed, Returns, JobsAreSound, IsSound, Clean, Idle, NoJob, Right
<1>5. UploadIsThere'
  BY DEF FilesInv, Renamed, Ended, Returns, JobsAreSound, IsSound, Awaits, Clean,
       UploadIsThere, IsSafe, Whole, Right, Gone
<1>6. TempIsOwned'
  BY DEF FilesInv, Renamed, Returns, JobsAreSound, IsSound, Awaits, TempIsOwned, Left, Right
<1> QED
  BY <1>1, <1>2, <1>3, <1>4, <1>5, <1>6 DEF FilesInv

\* A buffered upload has been written.
LEMMA WrittenKeeps ==
    ASSUME FilesInv, Written
    PROVE  FilesInv'
<1>1. FileTypeOK'
  <2>1. call.dest \in Paths /\ file.path \in Paths /\ job.from \in Paths /\ job.to \in Paths
    BY FileValues DEF FilesInv, FileTypeOK
  <2>2. job' \in Jobs
    BY <2>1, FileValues DEF Written, Removing, Continues, Returns
  <2>3. noted' \subseteq {"kept", "ownPath", "overlap", "cancelled", "bufferedMove"}
    BY DEF Written, Removing, Continues, Returns, FilesInv, FileTypeOK
  <2>4. file' \in [kind : {"none", "streaming", "buffered", "left", "right", "gone"}, path : Paths]
    BY <2>1, FileValues DEF Written, Removing, Continues, Returns, FilesInv, FileTypeOK
  <2>5. call' \in [op : {"idle", "persist_to", "copy_to", "move_copy_to"}, dest : Paths]
    BY FileValues DEF Written, Removing, Continues, Returns, FilesInv, FileTypeOK, NoCall
  <2>6. UNCHANGED <<link, data, orphan>>
    BY DEF Written, Removing, Continues, Returns
  <2> QED
    BY <2>2, <2>3, <2>4, <2>5, <2>6 DEF FilesInv, FileTypeOK
<1>2. OneName'
  BY DEF FilesInv, Written, Returns, Removing, Continues, OneName
<1>3. Early'
  BY DEF FilesInv, Written, Returns, Removing, Continues, Early, JobsAreSound, IsSound, Right
<1>4. JobsAreSound'
  <2>1. CASE job.st = "err"
    BY <2>1 DEF FilesInv, Written, Returns, Removing, Continues, JobsAreSound, IsSound, Clean,
         Idle, NoJob
  <2>2. CASE job.st = "ok" /\ call.op # "move_copy_to"
    BY <2>2 DEF FilesInv, Written, Returns, Removing, Continues, JobsAreSound, IsSound, Clean,
         Idle, NoJob, Right
  <2>3. CASE job.st = "ok" /\ call.op = "move_copy_to"
    <3>1. /\ job' = Job("remove", job.to, job.to) /\ file' = Right(job.to)
          /\ noted' = noted \cup {"bufferedMove"} /\ UNCHANGED <<call, orphan>>
      BY <2>3 DEF Written, Returns, Removing, Continues, Right
    <3>2. ~Idle /\ IsSound(orphan)
      BY DEF FilesInv, JobsAreSound, Written, NoJob
    <3>3. ~Clean'
      BY <3>1 DEF Clean
    <3>4. IsSound(job)' /\ IsSound(orphan)' /\ job' # NoJob
      BY <3>1, <3>2 DEF IsSound, Job, NoJob
    <3>5. Awaits(job)' /\ job'.kind = "remove" /\ file'.kind = "right"
      BY <3>1 DEF Awaits, Job, Right
    <3> QED
      BY <3>1, <3>2, <3>3, <3>4, <3>5 DEF JobsAreSound, Idle
  <2> QED
    BY <2>1, <2>2, <2>3 DEF Written, Ended
<1>5. UploadIsThere'
  BY DEF FilesInv, Written, Returns, Removing, Continues, FileTypeOK, Early, JobsAreSound,
       IsSound, Awaits, Clean, UploadIsThere, IsSafe, Whole, NoJob, NoCall, Right, Gone,
       Buffered
<1>6. TempIsOwned'
  BY DEF FilesInv, Written, Returns, Removing, Continues, JobsAreSound, IsSound, Awaits,
       TempIsOwned, Left, Buffered
<1> QED
  BY <1>1, <1>2, <1>3, <1>4, <1>5, <1>6 DEF FilesInv

\* keep() has returned; the copy follows.
LEMMA PathKeptKeeps ==
    ASSUME FilesInv, PathKept
    PROVE  FilesInv'
<1>1. FileTypeOK'
  <2>1. call.dest \in Paths /\ file.path \in Paths /\ job.from \in Paths /\ job.to \in Paths
    BY FileValues DEF FilesInv, FileTypeOK
  <2>2. job' \in Jobs
    BY <2>1, FileValues DEF PathKept, Continues, Returns
  <2>3. noted' \subseteq {"kept", "ownPath", "overlap", "cancelled", "bufferedMove"}
    BY DEF PathKept, Continues, Returns, FilesInv, FileTypeOK
  <2>4. file' \in [kind : {"none", "streaming", "buffered", "left", "right", "gone"}, path : Paths]
    BY <2>1, FileValues DEF PathKept, Continues, Returns, FilesInv, FileTypeOK
  <2>5. call' \in [op : {"idle", "persist_to", "copy_to", "move_copy_to"}, dest : Paths]
    BY FileValues DEF PathKept, Continues, Returns, FilesInv, FileTypeOK, NoCall
  <2>6. UNCHANGED <<link, data, orphan>>
    BY DEF PathKept, Continues, Returns
  <2> QED
    BY <2>2, <2>3, <2>4, <2>5, <2>6 DEF FilesInv, FileTypeOK
<1>2. OneName'
  BY DEF FilesInv, PathKept, Returns, Continues, OneName
<1>3. Early'
  BY DEF FilesInv, PathKept, Returns, Continues, Early, JobsAreSound, IsSound, Left
<1>4. JobsAreSound'
  BY DEF FilesInv, PathKept, Returns, Continues, Job, JobsAreSound, IsSound, Awaits, Clean,
       Idle, NoJob, Left
<1>5. UploadIsThere'
  BY DEF FilesInv, PathKept, Returns, Continues, Job, JobsAreSound, IsSound, Awaits, Clean,
       UploadIsThere, IsSafe, Whole, Left, Right, Gone
<1>6. TempIsOwned'
  BY DEF FilesInv, PathKept, Returns, Continues, JobsAreSound, IsSound, TempIsOwned
<1> QED
  BY <1>1, <1>2, <1>3, <1>4, <1>5, <1>6 DEF FilesInv

\* The copy is complete, or has failed.
LEMMA CopiedKeeps ==
    ASSUME FilesInv, Copied
    PROVE  FilesInv'
<1>1. FileTypeOK'
  <2>1. call.dest \in Paths /\ file.path \in Paths /\ job.from \in Paths /\ job.to \in Paths
    BY FileValues DEF FilesInv, FileTypeOK
  <2>2. job' \in Jobs
    BY <2>1, FileValues DEF Copied, Removing, Continues, Returns
  <2>3. noted' \subseteq {"kept", "ownPath", "overlap", "cancelled", "bufferedMove"}
    BY DEF Copied, Removing, Continues, Returns, FilesInv, FileTypeOK
  <2>4. file' \in [kind : {"none", "streaming", "buffered", "left", "right", "gone"}, path : Paths]
    BY <2>1, FileValues DEF Copied, Removing, Continues, Returns, FilesInv, FileTypeOK
  <2>5. call' \in [op : {"idle", "persist_to", "copy_to", "move_copy_to"}, dest : Paths]
    BY FileValues DEF Copied, Removing, Continues, Returns, FilesInv, FileTypeOK, NoCall
  <2>6. UNCHANGED <<link, data, orphan>>
    BY DEF Copied, Removing, Continues, Returns
  <2> QED
    BY <2>2, <2>3, <2>4, <2>5, <2>6 DEF FilesInv, FileTypeOK
<1>2. OneName'
  BY DEF FilesInv, Copied, Returns, Removing, Continues, OneName
<1>3. Early'
  BY DEF FilesInv, Copied, Returns, Removing, Continues, Early, JobsAreSound, IsSound
<1>4. JobsAreSound'
  BY DEF FilesInv, Copied, Returns, Removing, Continues, Job, JobsAreSound, IsSound, Awaits,
       Clean, Idle, NoJob, Right
<1>5. UploadIsThere'
  BY DEF FilesInv, Copied, Returns, Removing, Continues, Job, JobsAreSound, IsSound, Awaits,
       Clean, UploadIsThere, IsSafe, Whole, Right, Gone
<1>6. TempIsOwned'
  BY DEF FilesInv, Copied, Returns, Removing, Continues, TempIsOwned
<1> QED
  BY <1>1, <1>2, <1>3, <1>4, <1>5, <1>6 DEF FilesInv

\* move_copy_to() returns.
LEMMA RemovedKeeps ==
    ASSUME FilesInv, Removed
    PROVE  FilesInv'
<1>1. FileTypeOK'
  BY DEF FilesInv, Removed, Returns, FileTypeOK, Jobs, Paths, NoJob, NoCall, Right
<1>2. OneName'
  BY DEF FilesInv, Removed, Returns, OneName
<1>3. Early'
  BY DEF FilesInv, Removed, Returns, Early, JobsAreSound, IsSound, Right
<1>4. JobsAreSound'
  BY DEF FilesInv, Removed, Returns, JobsAreSound, IsSound, Clean, Idle, NoJob, Right
<1>5. UploadIsThere'
  BY DEF FilesInv, Removed, Returns, JobsAreSound, IsSound, Awaits, Clean, UploadIsThere,
       IsSafe, Whole, Right, Gone
<1>6. TempIsOwned'
  BY DEF FilesInv, Removed, Returns, JobsAreSound, IsSound, Awaits, TempIsOwned, Left, Right
<1> QED
  BY <1>1, <1>2, <1>3, <1>4, <1>5, <1>6 DEF FilesInv

\* The future of a method is dropped.
LEMMA CancelKeeps ==
    ASSUME FilesInv, Cancel
    PROVE  FilesInv'
<1>1. FileTypeOK'
  BY DEF FilesInv, Cancel, FileTypeOK, Paths, NoCall, disk
<1>2. OneName'
  BY DEF FilesInv, Cancel, OneName, disk
<1>3. Early'
  BY DEF FilesInv, Cancel, Early
<1>4. JobsAreSound'
  BY DEF FilesInv, Cancel, JobsAreSound, IsSound, Awaits, Idle
<1>5. UploadIsThere'
  BY DEF FilesInv, Cancel, JobsAreSound, IsSound, Clean, UploadIsThere, IsSafe, Whole, disk
<1>6. TempIsOwned'
  BY DEF FilesInv, Cancel, TempIsOwned, disk
<1> QED
  BY <1>1, <1>2, <1>3, <1>4, <1>5, <1>6 DEF FilesInv

\* The TempFile is dropped.
LEMMA DropKeeps ==
    ASSUME FilesInv, Drop
    PROVE  FilesInv'
<1>1. FileTypeOK'
  BY DEF FilesInv, Drop, Unlink, FileTypeOK, Paths, JobsAreSound, Gone
<1>2. OneName'
  BY DEF FilesInv, Drop, Unlink, FileTypeOK, OneName
<1>3. Early'
  BY DEF FilesInv, Drop, Early, Gone
<1>4. JobsAreSound'
  BY DEF FilesInv, Drop, JobsAreSound, IsSound, Idle, Gone
<1>5. UploadIsThere'
  BY DEF FilesInv, Drop, JobsAreSound, IsSound, UploadIsThere, Gone
<1>6. TempIsOwned'
  BY DEF FilesInv, Drop, Held, Unlink, FileTypeOK, Paths, TempIsOwned, Left
<1> QED
  BY <1>1, <1>2, <1>3, <1>4, <1>5, <1>6 DEF FilesInv

\* So FilesInv holds always.
LEMMA FilesStart == FileInit => FilesInv
<1> SUFFICES ASSUME FileInit PROVE FilesInv
  OBVIOUS
<1>1. FileTypeOK
  BY MaxMethodsAssumption DEF FileInit, FileTypeOK, Jobs, NoJob, NoCall, Paths, Inodes
<1>2. OneName
  BY DEF FileInit, OneName
<1>3. Early
  BY DEF FileInit, Early, Idle
<1>4. JobsAreSound
  BY DEF FileInit, JobsAreSound, IsSound, Idle, NoJob, Gone
<1>5. UploadIsThere
  BY DEF FileInit, UploadIsThere, IsSafe, NoJob
<1>6. TempIsOwned
  BY TmpAssumption DEF FileInit, TempIsOwned, Paths
<1> QED
  BY <1>1, <1>2, <1>3, <1>4, <1>5, <1>6 DEF FilesInv

LEMMA FilesStep == FilesInv /\ [FileNext]_fileVars => FilesInv'
<1> SUFFICES ASSUME FilesInv, [FileNext]_fileVars PROVE FilesInv'
  OBVIOUS
<1>1. CASE UNCHANGED fileVars
  BY <1>1 DEF fileVars, FilesInv, FileTypeOK, OneName, Early, JobsAreSound, IsSound, Awaits,
       UploadIsThere, IsSafe, Whole, TempIsOwned, Idle, Clean
<1>2. CASE \E d \in Paths : PersistTo(d)
  BY <1>2, PersistToKeeps
<1>3. CASE \E d \in Paths, op \in {"copy_to", "move_copy_to"} : CopyTo(op, d)
  BY <1>3, CopyToKeeps
<1>4. CASE Create \/ Streamed \/ StreamFails \/ FromValue
  BY <1>4, CreateKeeps, StreamedKeeps, StreamFailsKeeps, FromValueKeeps
<1>5. CASE RunJob \/ RunOrphan \/ OrphanEnds
  BY <1>5, RunJobKeeps, RunOrphanKeeps, OrphanEndsKeeps
<1>6. CASE Persisted \/ Renamed \/ Written \/ PathKept \/ Copied \/ Removed
  BY <1>6, PersistedKeeps, RenamedKeeps, WrittenKeeps, PathKeptKeeps, CopiedKeeps, RemovedKeeps
<1>7. CASE Cancel \/ Drop
  BY <1>7, CancelKeeps, DropKeeps
<1> QED
  BY <1>1, <1>2, <1>3, <1>4, <1>5, <1>6, <1>7 DEF FileNext

\* An upload is where its TempFile says, whatever has failed or was dropped, and no
\* temporary file stays behind.
THEOREM UploadIsSafeAlways == FileSpec => []UploadIsSafe
<1>1. FilesInv => UploadIsSafe
  <2> SUFFICES ASSUME FilesInv PROVE UploadIsSafe
    OBVIOUS
  <2>1. PathIsWhole
    BY DEF FilesInv, PathIsWhole, UploadIsThere, JobsAreSound, Clean
  <2>2. TempIsRemoved
    BY DEF FilesInv, TempIsRemoved, TempIsOwned, JobsAreSound, NoJob, Gone, Left
  <2> QED
    BY <2>1, <2>2 DEF UploadIsSafe
<1> QED
  BY <1>1, FilesStart, FilesStep, PTL DEF FileSpec

-----------------------------------------------------------------------------
(* Induction and recursion over numbers                                    *)

\* A set of numbers that is not empty has a least one.
LEMMA LeastOf ==
  ASSUME NEW S \in SUBSET Nat, S # {}
  PROVE  \E m \in S : \A k \in S : m <= k
<1> DEFINE R == {ss \in Nat \X Nat : ss[1] < ss[2]}
<1>1. IsWellFoundedOn(R, Nat)
  BY NatLessThanWellFounded DEF OpToRel
<1> HIDE DEF R
<1>2. PICK m \in S : \A k \in S : ~(<<k, m>> \in R)
  BY <1>1, WFMin
<1>3. \A k \in S : ~(k < m)
  BY <1>2 DEF R
<1> QED BY <1>3

\* Induction up to n, in the form in which the provers can use it: over a set.
LEMMA CountUp ==
  ASSUME NEW n \in Nat, NEW P, 0 \in P, \A i \in 1 .. n : i - 1 \in P => i \in P
  PROVE  \A i \in 0 .. n : i \in P
<1> DEFINE Bad == {k \in Nat : k \in 0 .. n /\ k \notin P}
<1> SUFFICES ASSUME Bad # {} PROVE FALSE
  OBVIOUS
<1>1. PICK m \in Bad : \A k \in Bad : m <= k
  <2> Bad \in SUBSET Nat
    OBVIOUS
  <2> HIDE DEF Bad
  <2> QED BY LeastOf
<1>2. m \in Nat /\ m \in 0 .. n /\ m \notin P
  BY <1>1
<1>3. m \in 1 .. n /\ m - 1 \in 0 .. n /\ m - 1 \in Nat
  BY <1>2
<1>4. m - 1 \notin P
  BY <1>2, <1>3
<1>5. m - 1 \in Bad
  BY <1>3, <1>4
<1> QED BY <1>1, <1>2, <1>5

\* A function may be defined by recursion: G[i] is the step to i.
Follows(g, n, x, G) == g[0] = x /\ \A i \in 1 .. n : g[i] = G[i][g[i - 1]]

LEMMA Recursion ==
  ASSUME NEW n \in Nat, NEW S, NEW x \in S, NEW G \in [1 .. n -> [S -> S]]
  PROVE  \E g \in [0 .. n -> S] : Follows(g, n, x, G)
<1> DEFINE Goes(g, k) == /\ g \in [0 .. k -> S] /\ g[0] = x
                         /\ \A i \in 1 .. k : g[i] = G[i][g[i - 1]]
           P == {k \in Nat : \E g : Goes(g, k)}
<1>1. 0 \in P
  <2> DEFINE h == [i \in 0 .. 0 |-> x]
  <2>1. Goes(h, 0)
    OBVIOUS
  <2> QED BY <2>1
<1>2. ASSUME NEW m \in 1 .. n, m - 1 \in P PROVE m \in P
  <2>1. PICK g : Goes(g, m - 1)
    BY <1>2
  <2> DEFINE h == [i \in 0 .. m |-> IF i = m THEN G[m][g[m - 1]] ELSE g[i]]
  <2>2. m \in Nat /\ m - 1 \in 0 .. m - 1 /\ g[m - 1] \in S
    BY <2>1
  <2>3. G[m][g[m - 1]] \in S
    BY <2>2
  <2>4. h \in [0 .. m -> S] /\ h[0] = x
    BY <2>1, <2>2, <2>3
  <2>5. \A i \in 1 .. m : h[i] = G[i][h[i - 1]]
    <3> TAKE i \in 1 .. m
    <3>1. h[i - 1] = g[i - 1]
      BY <2>2
    <3>2. i # m => i \in 1 .. m - 1 /\ h[i] = g[i]
      BY <2>2
    <3>3. i = m => h[i] = G[m][g[m - 1]]
      BY <2>2
    <3> HIDE DEF h
    <3> QED BY <2>1, <3>1, <3>2, <3>3
  <2> HIDE DEF h
  <2>6. Goes(h, m)
    BY <2>4, <2>5
  <2> HIDE DEF Goes
  <2> QED BY <2>2, <2>6
<1> HIDE DEF P
<1>3. n \in P
  <2>1. \A i \in 0 .. n : i \in P
    BY <1>1, <1>2, CountUp
  <2> QED BY <2>1
<1> QED BY <1>3 DEF P, Follows

-----------------------------------------------------------------------------
(* The lines of a text                                                     *)

Scan == [ended : Seq(Text), last : Text]
NoBreak == [ended |-> <<>>, last |-> <<>>]

LEMMA BreakAtType ==
  ASSUME NEW v \in Text, NEW i \in 1 .. Len(v), NEW y \in Scan
  PROVE  BreakAt(v, i, y) \in Scan
<1>1. v[i] \in Chars
  BY DEF Text
<1> QED BY <1>1 DEF BreakAt, Scan, Text

LEMMA BreaksAre ==
  ASSUME NEW v \in Text
  PROVE  /\ Breaks(v) \in [0 .. Len(v) -> Scan]
         /\ Breaks(v)[0] = NoBreak
         /\ \A i \in 1 .. Len(v) : Breaks(v)[i] = BreakAt(v, i, Breaks(v)[i - 1])
<1> DEFINE n == Len(v)
           Is(f) == f = [i \in 0 .. Len(v) |-> IF i = 0 THEN [ended |-> <<>>, last |-> <<>>]
                                              ELSE BreakAt(v, i, f[i - 1])]
           f == CHOOSE f : Is(f)
           G == [i \in 1 .. n |-> [y \in Scan |-> BreakAt(v, i, y)]]
<1>1. n \in Nat
  BY DEF Text
<1>2. NoBreak \in Scan
  BY DEF NoBreak, Scan, Text
<1>3. G \in [1 .. n -> [Scan -> Scan]]
  BY BreakAtType
<1>4. PICK g \in [0 .. n -> Scan] : Follows(g, n, NoBreak, G)
  <2> HIDE DEF n, G
  <2> QED BY <1>1, <1>2, <1>3, Recursion
<1>5. \A i \in 1 .. n : g[i] = BreakAt(v, i, g[i - 1])
  <2> TAKE i \in 1 .. n
  <2>1. i - 1 \in 0 .. n
    BY <1>1
  <2>2. g[i - 1] \in Scan
    BY <1>4, <2>1
  <2>3. G[i][g[i - 1]] = BreakAt(v, i, g[i - 1])
    BY <2>2
  <2> QED BY <1>4, <2>3 DEF Follows
<1>6. \A i \in 0 .. n : g[i] = IF i = 0 THEN [ended |-> <<>>, last |-> <<>>]
                                 ELSE BreakAt(v, i, g[i - 1])
  <2> TAKE i \in 0 .. n
  <2>1. CASE i = 0
    BY <2>1, <1>4 DEF NoBreak, Follows
  <2>2. CASE i # 0
    <3>1. i \in 1 .. n
      BY <1>1, <2>2
    <3> QED BY <1>5, <2>2, <3>1
  <2> QED BY <2>1, <2>2
<1>7. g = [i \in 0 .. n |-> g[i]]
  BY <1>4
<1>8. Is(g)
  BY <1>6, <1>7
<1> HIDE DEF Is
<1>9. Is(f)
  BY <1>8, Zenon
<1>10. Breaks(v) = f
  BY Zenon DEF Breaks, Is
<1> HIDE DEF f
<1>11. f = [i \in 0 .. n |-> IF i = 0 THEN [ended |-> <<>>, last |-> <<>>]
                            ELSE BreakAt(v, i, f[i - 1])]
  BY <1>9 DEF Is
<1> HIDE DEF n, G
<1>12. f[0] = NoBreak
  BY <1>1, <1>11 DEF NoBreak
<1>13. \A i \in 1 .. n : f[i] = BreakAt(v, i, f[i - 1])
  <2> TAKE i \in 1 .. n
  <2>1. i \in 0 .. n /\ i # 0
    BY <1>1
  <2> QED BY <1>11, <2>1, Zenon
<1>14. \A i \in 0 .. n : f[i] \in Scan
  <2> DEFINE P == {i \in Nat : f[i] \in Scan}
  <2>1. 0 \in P
    BY <1>2, <1>12
  <2>2. ASSUME NEW i \in 1 .. n, i - 1 \in P PROVE i \in P
    <3>1. f[i] = BreakAt(v, i, f[i - 1]) /\ f[i - 1] \in Scan /\ i \in Nat
      BY <1>13, <2>2
    <3>2. i \in 1 .. Len(v)
      BY DEF n
    <3> QED BY <3>1, <3>2, BreakAtType
  <2> HIDE DEF P
  <2>3. \A i \in 0 .. n : i \in P
    BY <1>1, <2>1, <2>2, CountUp
  <2> QED BY <2>3 DEF P
<1>15. f \in [0 .. n -> Scan]
  <2>1. DOMAIN f = 0 .. n /\ f = [i \in DOMAIN f |-> f[i]]
    BY <1>11
  <2> QED BY <1>14, <2>1
<1> QED BY <1>10, <1>12, <1>13, <1>15 DEF n

LEMMA LinesType ==
  ASSUME NEW v \in Text
  PROVE  Lines(v) \in Seq(Text)
<1>1. Len(v) \in 0 .. Len(v)
  BY DEF Text
<1>2. Breaks(v)[Len(v)] \in Scan
  BY <1>1, BreaksAre
<1> QED BY <1>2 DEF Lines, Scan

LEMMA FarmHasNoBreak ==
  ASSUME NEW v \in Text
  PROVE  \A i \in 1 .. Len(v) : Farm(v)[i] \notin Newline
BY DEF Farm, Text, Newline

\* A text without newlines is one line.
LEMMA OneLine ==
  ASSUME NEW v \in Text, \A i \in 1 .. Len(v) : v[i] \notin Newline
  PROVE  Lines(v) = <<v>>
<1> DEFINE n == Len(v)
           f == Breaks(v)
           P == {i \in Nat : f[i] = [ended |-> <<>>, last |-> SubSeq(v, 1, i)]}
<1>1. n \in Nat
  BY DEF Text
<1>2. f[0] = NoBreak /\ \A i \in 1 .. n : f[i] = BreakAt(v, i, f[i - 1])
  BY BreaksAre
<1> HIDE DEF f
<1>3. 0 \in P
  <2>1. SubSeq(v, 1, 0) = <<>>
    BY DEF Text
  <2> QED BY <1>2, <2>1 DEF NoBreak
<1>4. ASSUME NEW i \in 1 .. n, i - 1 \in P PROVE i \in P
  <2>1. f[i - 1] = [ended |-> <<>>, last |-> SubSeq(v, 1, i - 1)] /\ i \in Nat
    BY <1>4
  <2>2. Append(SubSeq(v, 1, i - 1), v[i]) = SubSeq(v, 1, i)
    BY <1>1 DEF Text
  <2>3. BreakAt(v, i, f[i - 1]) = [ended |-> <<>>, last |-> Append(SubSeq(v, 1, i - 1), v[i])]
    BY <2>1 DEF BreakAt
  <2>4. f[i] = [ended |-> <<>>, last |-> SubSeq(v, 1, i)]
    BY <1>2, <2>2, <2>3
  <2> QED BY <2>1, <2>4
<1>5. \A i \in 0 .. n : i \in P
  <2> HIDE DEF P, n
  <2> QED BY <1>1, <1>3, <1>4, CountUp
<1>6. f[n] = [ended |-> <<>>, last |-> SubSeq(v, 1, n)]
  BY <1>1, <1>5
<1>7. SubSeq(v, 1, n) = v
  BY DEF Text
<1>8. Lines(v) = Append(f[n].ended, f[n].last)
  BY DEF Lines, f
<1>9. Append(<<>>, v) = <<v>>
  OBVIOUS
<1> QED BY <1>6, <1>7, <1>8, <1>9

\* advance() goes to the end of the line.
LEMMA AdvanceIs ==
  ASSUME NEW v \in Text, NEW p \in 0 .. Len(v)
  PROVE  /\ Advance(v, p) \in Nat /\ p + Advance(v, p) <= Len(v)
         /\ \A i \in p + 1 .. p + Advance(v, p) : v[i] \notin Newline
         /\ p + Advance(v, p) < Len(v) => v[p + Advance(v, p) + 1] \in Newline
<1> DEFINE stops == {i \in p + 1 .. Len(v) : v[i] \in Newline}
           m == CHOOSE i \in stops : \A j \in stops : i <= j
<1>1. Len(v) \in Nat
  BY DEF Text
<1>2. Advance(v, p) = IF stops = {} THEN Len(v) - p ELSE m - (p + 1)
  BY DEF Advance
<1>3. CASE stops = {}
  <2>1. \A i \in p + 1 .. Len(v) : v[i] \notin Newline
    BY <1>3
  <2>2. Advance(v, p) = Len(v) - p
    BY <1>2, <1>3
  <2> HIDE DEF stops, m
  <2> QED BY <1>1, <2>1, <2>2
<1>4. CASE stops # {}
  <2>1. stops \in SUBSET Nat
    BY <1>1
  <2> HIDE DEF stops
  <2>2. \E i \in stops : \A j \in stops : i <= j
    BY <1>4, <2>1, LeastOf
  <2>3. m \in stops /\ \A j \in stops : m <= j
    BY <2>2
  <2> HIDE DEF m
  <2>4. m \in p + 1 .. Len(v) /\ v[m] \in Newline
    BY <2>3 DEF stops
  <2>5. \A i \in p + 1 .. m - 1 : v[i] \notin Newline
    <3> TAKE i \in p + 1 .. m - 1
    <3> SUFFICES ASSUME v[i] \in Newline PROVE FALSE
      OBVIOUS
    <3>1. i \in stops
      BY <1>1, <2>4 DEF stops
    <3> QED BY <2>3, <2>4, <3>1
  <2>6. Advance(v, p) = m - (p + 1)
    BY <1>2, <1>4
  <2>7. p + Advance(v, p) = m - 1 /\ p + Advance(v, p) + 1 = m /\ Advance(v, p) \in Nat
    BY <1>1, <2>4, <2>6
  <2> QED BY <1>1, <2>4, <2>5, <2>7
<1> QED BY <1>3, <1>4

\* skip() goes past one end of a line, and never ends between CR and LF.
LEMMA SkipIs ==
  ASSUME NEW v \in Text, NEW p \in 0 .. Len(v), p < Len(v), v[p + 1] \in Newline,
         v[p + 1] = "lf" => p = 0 \/ v[p] # "cr"
  PROVE  LET q == Skip(v, p)
             here == Breaks(v)[p]
         IN /\ q \in 0 .. Len(v)
            /\ Breaks(v)[q] = [ended |-> Append(here.ended, here.last), last |-> <<>>]
            /\ q < Len(v) /\ v[q + 1] = "lf" => q = 0 \/ v[q] # "cr"
<1> DEFINE f == Breaks(v)
           end == [ended |-> Append(f[p].ended, f[p].last), last |-> <<>>]
<1>1. Len(v) \in Nat /\ p \in Nat /\ p + 1 \in 1 .. Len(v) /\ (p + 1) - 1 = p
  BY DEF Text
<1>2. \A i \in 1 .. Len(v) : f[i] = BreakAt(v, i, f[i - 1])
  BY BreaksAre
<1> HIDE DEF f
<1>3. f[p + 1] = end
  <2>1. f[p + 1] = BreakAt(v, p + 1, f[p])
    BY <1>1, <1>2
  <2>2. ~(v[p + 1] = "lf" /\ p + 1 > 1 /\ v[(p + 1) - 1] = "cr")
    BY <1>1
  <2> QED BY <2>1, <2>2 DEF BreakAt
<1> HIDE DEF end
<1>4. CASE p + 1 < Len(v) /\ v[p + 1] = "cr" /\ v[p + 2] = "lf"
  <2>1. Skip(v, p) = p + 2
    BY <1>4 DEF Skip
  <2>2. p + 2 \in 1 .. Len(v) /\ (p + 2) - 1 = p + 1 /\ p + 2 > 1
    BY <1>1, <1>4
  <2>3. f[p + 2] = BreakAt(v, p + 2, f[p + 1])
    BY <1>2, <2>2
  <2>4. f[p + 2] = f[p + 1]
    BY <1>4, <2>2, <2>3 DEF BreakAt, Newline
  <2>5. v[p + 2] # "cr"
    BY <1>4
  <2> QED BY <1>1, <1>3, <2>1, <2>2, <2>4, <2>5 DEF end, f
<1>5. CASE ~(p + 1 < Len(v) /\ v[p + 1] = "cr" /\ v[p + 2] = "lf")
  <2>1. Skip(v, p) = p + 1
    BY <1>5 DEF Skip
  <2>2. (p + 1) + 1 = p + 2
    BY <1>1
  <2>3. p + 1 < Len(v) /\ v[(p + 1) + 1] = "lf" => v[p + 1] # "cr"
    BY <1>5, <2>2
  <2> QED BY <1>1, <1>3, <2>1, <2>3 DEF end, f
<1> QED BY <1>4, <1>5

-----------------------------------------------------------------------------
(* What a client should make of events                                     *)

LEMMA OfType ==
  ASSUME NEW o \in SUBSET Text, o # {}
  PROVE  Of(o) \in Text
BY DEF Of

LEMMA FarmType ==
  ASSUME NEW v \in Text
  PROVE  Farm(v) \in Text /\ Len(Farm(v)) = Len(v)
BY CharsAssumption DEF Farm, Text, Newline

\* The client's dropping of a space leaves a text.
LEMMA UnpaddedType ==
  ASSUME NEW t \in Text
  PROVE  Unpadded(t) \in Text
<1>1. t \in Seq(Chars)
  BY DEF Text
<1>2. t # <<>> => Tail(t) \in Seq(Chars)
  BY <1>1
<1> QED BY <1>1, <1>2 DEF Unpadded, Text

LEMMA NamedType ==
  ASSUME NEW n \in Text, NEW ls \in Seq(Text)
  PROVE  Named(n, ls) \in Fields /\ Len(Named(n, ls)) = Len(ls)
<1> DEFINE F == [i \in 1 .. Len(ls) |-> <<n, Unpadded(ls[i])>>]
<1>1. Len(ls) \in Nat /\ \A i \in 1 .. Len(ls) : <<n, Unpadded(ls[i])>> \in Text \X Text
  BY UnpaddedType
<1>2. F \in Seq(Text \X Text) /\ Len(F) = Len(ls)
  BY <1>1
<1>3. Named(n, ls) = F
  BY DEF Named
<1> QED BY <1>2, <1>3 DEF Fields

LEMMA OneType ==
  ASSUME NEW n \in Text, NEW o \in SUBSET Text
  PROVE  Opt(o, <<n, Unpadded(Farm(Of(o)))>>) \in Fields
<1>1. CASE o = {}
  BY <1>1 DEF Opt, Fields
<1>2. CASE o # {}
  <2>1. Unpadded(Farm(Of(o))) \in Text
    BY <1>2, OfType, FarmType, UnpaddedType
  <2>2. <<n, Unpadded(Farm(Of(o)))>> \in Text \X Text
    BY <2>1
  <2> DEFINE x == <<n, Unpadded(Farm(Of(o)))>>
  <2>3. x \in Text \X Text
    BY <2>2
  <2> HIDE DEF x
  <2>4. <<x>> \in Seq(Text \X Text)
    BY <2>3
  <2>5. Opt(o, x) = <<x>>
    BY <1>2 DEF Opt
  <2> QED BY <2>4, <2>5 DEF x, Fields
<1> QED BY <1>1, <1>2

LEMMA NamesAreTexts ==
  /\ <<"r", "e">> \in Text /\ <<"i", "d">> \in Text /\ <<"e", "v">> \in Text
  /\ <<"d", "a">> \in Text /\ <<>> \in Text
BY CharsAssumption DEF Text

LEMMA ConcatFields ==
  ASSUME NEW x \in Fields, NEW y \in Fields
  PROVE  x \o y \in Fields
BY DEF Fields

LEMMA MeaningType ==
  ASSUME NEW e \in AnEvent
  PROVE  /\ ToRetry(e) \in Fields /\ ToId(e) \in Fields /\ ToEvent(e) \in Fields
         /\ Meaning(e) \in Fields
<1>1. e.retry \in SUBSET Text /\ e.id \in SUBSET Text /\ e.event \in SUBSET Text
      /\ e.data \in SUBSET Text
  BY DEF AnEvent
<1>2. ToRetry(e) \in Fields
  BY <1>1, NamesAreTexts, OneType DEF ToRetry
<1>3. Opt(e.id, <<<<"i", "d">>, Unpadded(Farm(Of(e.id)))>>) \in Fields
  BY <1>1, NamesAreTexts, OneType
<1>4. ToId(e) \in Fields
  BY <1>2, <1>3, ConcatFields DEF ToId
<1>5. Opt(e.event, <<<<"e", "v">>, Unpadded(Farm(Of(e.event)))>>) \in Fields
  BY <1>1, NamesAreTexts, OneType
<1>6. ToEvent(e) \in Fields
  BY <1>4, <1>5, ConcatFields DEF ToEvent
<1>7. CASE e.data = {}
  <2>1. <<>> \in Fields
    BY DEF Fields
  <2> QED BY <1>2, <1>4, <1>6, <1>7, <2>1, ConcatFields DEF Meaning
<1>8. CASE e.data # {}
  <2>1. Of(e.data) \in Text
    BY <1>1, <1>8, OfType
  <2>2. Lines(Of(e.data)) \in Seq(Text)
    BY <2>1, LinesType
  <2>3. Named(<<"d", "a">>, Lines(Of(e.data))) \in Fields
    BY <2>2, NamesAreTexts, NamedType
  <2> QED BY <1>2, <1>4, <1>6, <1>8, <2>3, ConcatFields DEF Meaning
<1> QED BY <1>7, <1>8

LEMMA TellType ==
  ASSUME NEW e \in AnEvent, NEW told \in Seq(Fields)
  PROVE  Tell(e, told) \in Seq(Fields)
<1>1. Meaning(e) \in Fields
  BY MeaningType
<1> QED BY <1>1 DEF Tell

LEMMA ToldAre ==
  ASSUME NEW s \in Seq(AnEvent)
  PROVE  /\ Told(s) \in [0 .. Len(s) -> Seq(Fields)]
         /\ Told(s)[0] = <<>>
         /\ \A i \in 1 .. Len(s) : Told(s)[i] = Tell(s[i], Told(s)[i - 1])
<1> DEFINE n == Len(s)
           Is(f) == f = [i \in 0 .. Len(s) |-> IF i = 0 THEN <<>> ELSE Tell(s[i], f[i - 1])]
           f == CHOOSE f : Is(f)
           G == [i \in 1 .. n |-> [y \in Seq(Fields) |-> Tell(s[i], y)]]
<1>1. n \in Nat
  OBVIOUS
<1>2. <<>> \in Seq(Fields)
  OBVIOUS
<1>3. G \in [1 .. n -> [Seq(Fields) -> Seq(Fields)]]
  <2>1. \A i \in 1 .. n : s[i] \in AnEvent
    OBVIOUS
  <2> QED BY <2>1, TellType
<1>4. PICK g \in [0 .. n -> Seq(Fields)] : Follows(g, n, <<>>, G)
  <2> HIDE DEF n, G
  <2> QED BY <1>1, <1>2, <1>3, Recursion
<1>5. \A i \in 1 .. n : g[i] = Tell(s[i], g[i - 1])
  <2> TAKE i \in 1 .. n
  <2>1. i - 1 \in 0 .. n
    BY <1>1
  <2>2. g[i - 1] \in Seq(Fields)
    BY <1>4, <2>1
  <2>3. G[i][g[i - 1]] = Tell(s[i], g[i - 1])
    BY <2>2
  <2> QED BY <1>4, <2>3 DEF Follows
<1>6. \A i \in 0 .. n : g[i] = IF i = 0 THEN <<>> ELSE Tell(s[i], g[i - 1])
  <2> TAKE i \in 0 .. n
  <2>1. CASE i = 0
    BY <2>1, <1>4 DEF Follows
  <2>2. CASE i # 0
    <3>1. i \in 1 .. n
      BY <1>1, <2>2
    <3> QED BY <1>5, <2>2, <3>1
  <2> QED BY <2>1, <2>2
<1>7. g = [i \in 0 .. n |-> g[i]]
  BY <1>4
<1>8. Is(g)
  BY <1>6, <1>7
<1> HIDE DEF Is
<1>9. Is(f)
  BY <1>8, Zenon
<1>10. Told(s) = f
  BY Zenon DEF Told, Is
<1> HIDE DEF f
<1>11. f = [i \in 0 .. n |-> IF i = 0 THEN <<>> ELSE Tell(s[i], f[i - 1])]
  BY <1>9 DEF Is
<1>a. \A i \in 1 .. n : s[i] \in AnEvent
  OBVIOUS
<1> HIDE DEF n, G
<1>12. f[0] = <<>>
  BY <1>1, <1>11
<1>13. \A i \in 1 .. n : f[i] = Tell(s[i], f[i - 1])
  <2> TAKE i \in 1 .. n
  <2>1. i \in 0 .. n /\ i # 0
    BY <1>1
  <2> QED BY <1>11, <2>1, Zenon
<1>14. \A i \in 0 .. n : f[i] \in Seq(Fields)
  <2> DEFINE P == {i \in Nat : f[i] \in Seq(Fields)}
  <2>1. 0 \in P
    BY <1>2, <1>12
  <2>2. ASSUME NEW i \in 1 .. n, i - 1 \in P PROVE i \in P
    <3>1. f[i] = Tell(s[i], f[i - 1]) /\ f[i - 1] \in Seq(Fields) /\ i \in Nat
      BY <1>13, <2>2
    <3> QED BY <3>1, <1>a, TellType
  <2> HIDE DEF P
  <2>3. \A i \in 0 .. n : i \in P
    BY <1>1, <2>1, <2>2, CountUp
  <2> QED BY <2>3 DEF P
<1>15. f \in [0 .. n -> Seq(Fields)]
  <2>1. DOMAIN f = 0 .. n /\ f = [i \in DOMAIN f |-> f[i]]
    BY <1>11
  <2> QED BY <1>14, <2>1
<1> QED BY <1>10, <1>12, <1>13, <1>15 DEF n

\* What is told only grows.
Begins(x, y) == \E k \in 0 .. Len(y) : x = SubSeq(y, 1, k)

LEMMA BeginsItself ==
  ASSUME NEW S, NEW x \in Seq(S)
  PROVE  Begins(x, x)
<1>1. x = SubSeq(x, 1, Len(x)) /\ Len(x) \in 0 .. Len(x)
  OBVIOUS
<1> QED BY <1>1 DEF Begins

LEMMA BeginsMore ==
  ASSUME NEW S, NEW y \in Seq(S), NEW z \in S, NEW x, Begins(x, y)
  PROVE  Begins(x, Append(y, z))
<1>1. PICK k \in 0 .. Len(y) : x = SubSeq(y, 1, k)
  BY DEF Begins
<1>2. SubSeq(y, 1, k) = SubSeq(Append(y, z), 1, k) /\ k \in 0 .. Len(Append(y, z))
  OBVIOUS
<1> QED BY <1>1, <1>2 DEF Begins

LEMMA ToldGrows ==
  ASSUME NEW s \in Seq(AnEvent), NEW i \in 0 .. Len(s)
  PROVE  Begins(Told(s)[i], Told(s)[Len(s)])
<1> DEFINE f == Told(s)
           n == Len(s) - i
           P == {j \in Nat : Begins(f[i], f[i + j])}
<1>1. n \in Nat /\ i \in Nat /\ i + n = Len(s)
  OBVIOUS
<1>2. /\ f \in [0 .. Len(s) -> Seq(Fields)]
      /\ \A j \in 1 .. Len(s) : f[j] = Tell(s[j], f[j - 1])
      /\ \A j \in 1 .. Len(s) : Meaning(s[j]) \in Fields
  <2>1. \A j \in 1 .. Len(s) : s[j] \in AnEvent
    OBVIOUS
  <2> QED BY <2>1, ToldAre, MeaningType
<1> HIDE DEF f
<1>3. 0 \in P
  <2>1. i + 0 = i /\ f[i] \in Seq(Fields)
    BY <1>1, <1>2
  <2> QED BY <2>1, BeginsItself
<1>4. ASSUME NEW j \in 1 .. n, j - 1 \in P PROVE j \in P
  <2>1. i + j \in 1 .. Len(s) /\ (i + j) - 1 \in 0 .. Len(s) /\ j \in Nat
        /\ i + (j - 1) = (i + j) - 1
    BY <1>1
  <2> DEFINE y == f[(i + j) - 1]
             z == Meaning(s[i + j])
  <2>2. y \in Seq(Fields) /\ z \in Fields /\ Begins(f[i], y)
    BY <1>2, <1>4, <2>1
  <2>3. f[i + j] = IF z = <<>> THEN y ELSE Append(y, z)
    BY <1>2, <2>1 DEF Tell
  <2> HIDE DEF y, z
  <2>4. Begins(f[i], Append(y, z))
    BY <2>2, BeginsMore
  <2> QED BY <2>1, <2>2, <2>3, <2>4
<1> HIDE DEF n, P
<1>5. \A j \in 0 .. n : j \in P
  BY <1>1, <1>3, <1>4, CountUp
<1>6. n \in P
  BY <1>1, <1>5
<1> QED BY <1>1, <1>6 DEF P, f

-----------------------------------------------------------------------------
(* The lines of an event, one after the other                              *)

\* A line of a field that nothing has been read of
IsFresh(l) ==
    l \in ALine /\ l.npos = 0 /\ l.pos = 0 /\ l.st = "Name" /\ TakesALine(l)

LEMMA PrefarmedIs ==
  ASSUME NEW n \in Names, NEW v \in Text
  PROVE  IsFresh(Prefarmed(n, v)) /\ Prefarmed(n, v).name = n /\ Prefarmed(n, v).value = v
<1> DEFINE l == Prefarmed(n, v)
<1>1. Len(v) \in Nat /\ 0 \in 0 .. Len(v)
  BY DEF Text
<1>2. /\ Advance(v, 0) \in Nat /\ 0 + Advance(v, 0) <= Len(v)
      /\ \A i \in 0 + 1 .. 0 + Advance(v, 0) : v[i] \notin Newline
      /\ 0 + Advance(v, 0) < Len(v) => v[0 + Advance(v, 0) + 1] \in Newline
  BY <1>1, AdvanceIs
<1>3. /\ l.name = n /\ l.npos = 0 /\ l.value = v /\ l.pos = 0 /\ l.limit = Advance(v, 0)
      /\ l.st = "Name" /\ l \in ALine
  BY <1>2 DEF Prefarmed, ALine
<1> HIDE DEF l
<1>4. TakesALine(l)
  BY <1>2, <1>3 DEF TakesALine
<1> QED BY <1>3, <1>4 DEF IsFresh, l

LEMMA RawIs ==
  ASSUME NEW v \in Text
  PROVE  /\ Raw(v) \in ALine /\ Raw(v).value = v /\ Raw(v).pos = 0 /\ Raw(v).limit = Len(v)
         /\ Raw(v).st = "Value"
<1>1. Len(v) \in Nat
  BY DEF Text
<1> QED BY <1>1 DEF Raw, ALine, Names

\* The field with name n that is next, if it is there: its line and its meaning.
ComesNext(rest, fields, l, rest2, fields2) ==
    /\ IsFresh(l) /\ Head(rest) = l /\ Tail(rest) = rest2
    /\ fields2 = fields \o Stated(l.name, Lines(l.value))

LEMMA HeadOfLines ==
  ASSUME NEW r \in Seq(ALine), NEW l \in ALine
  PROVE  Head(<<l>> \o r) = l /\ Tail(<<l>> \o r) = r
OBVIOUS

LEMMA ManyIsNext ==
  ASSUME NEW n \in Names, NEW o \in SUBSET Text, o # {}, NEW r \in Seq(ALine), NEW fields
  PROVE  LET rest == Opt(o, Many(n, Of(o))) \o r
         IN ComesNext(rest, fields, Many(n, Of(o)), r, fields \o Stated(n, Lines(Of(o))))
<1> DEFINE l == Many(n, Of(o))
<1>1. IsFresh(l) /\ l.name = n /\ l.value = Of(o)
  BY OfType, PrefarmedIs DEF Many
<1> HIDE DEF l
<1>2. l \in ALine
  BY <1>1 DEF IsFresh
<1>3. Opt(o, l) = <<l>>
  BY DEF Opt
<1>4. Head(<<l>> \o r) = l /\ Tail(<<l>> \o r) = r
  BY <1>2, HeadOfLines
<1> QED BY <1>1, <1>3, <1>4 DEF ComesNext, l

LEMMA OneIsNext ==
  ASSUME NEW n \in Names \ {<<>>}, NEW o \in SUBSET Text, o # {}, NEW r \in Seq(ALine), NEW fields
  PROVE  LET rest == Opt(o, One(n, Of(o))) \o r
         IN ComesNext(rest, fields, One(n, Of(o)), r, fields \o Opt(o, <<n, Unpadded(Farm(Of(o)))>>))
<1> DEFINE l == One(n, Of(o))
           w == Farm(Of(o))
<1>0. Of(o) \in Text
  BY OfType
<1>1. w \in Text
  BY <1>0, FarmType
<1>2. IsFresh(l) /\ l.name = n /\ l.value = w
  BY <1>1, PrefarmedIs DEF One
<1>3. Lines(w) = <<w>>
  <2>1. \A i \in 1 .. Len(w) : w[i] \notin Newline
    BY <1>0, FarmType, FarmHasNoBreak
  <2> QED BY <1>1, <2>1, OneLine
<1> HIDE DEF l, w
<1>4. Stated(n, Lines(w)) = <<<<n, Unpadded(w)>>>>
  <2>1. Named(n, <<w>>) = <<<<n, Unpadded(w)>>>>
    BY DEF Named
  <2> QED BY <1>3, <2>1 DEF Stated
<1>5. l \in ALine
  BY <1>2 DEF IsFresh
<1>6. Opt(o, l) = <<l>> /\ Opt(o, <<n, Unpadded(w)>>) = <<<<n, Unpadded(w)>>>>
  BY DEF Opt
<1>7. Head(<<l>> \o r) = l /\ Tail(<<l>> \o r) = r
  BY <1>5, HeadOfLines
<1> QED BY <1>2, <1>4, <1>6, <1>7 DEF ComesNext, l, w

LEMMA NoneIsNext ==
  ASSUME NEW o, o = {}, NEW r \in Seq(ALine), NEW x
  PROVE  Opt(o, x) \o r = r
BY DEF Opt

LEMMA NothingStated ==
  ASSUME NEW o, o = {}, NEW fields \in Fields, NEW x
  PROVE  fields \o Opt(o, x) = fields
BY DEF Opt, Fields

LEMMA RestTypes ==
  ASSUME NEW e \in AnEvent
  PROVE  /\ <<Raw(<<>>)>> \in Seq(ALine) /\ FromData(e) \in Seq(ALine)
         /\ FromEvent(e) \in Seq(ALine) /\ FromId(e) \in Seq(ALine)
         /\ FromRetry(e) \in Seq(ALine) /\ IntoStream(e) \in Seq(ALine)
<1>1. /\ e.comment \in SUBSET Text /\ e.retry \in SUBSET Text /\ e.id \in SUBSET Text
      /\ e.event \in SUBSET Text /\ e.data \in SUBSET Text
  BY DEF AnEvent
<1>2. <<Raw(<<>>)>> \in Seq(ALine)
  <2>1. Raw(<<>>) \in ALine
    BY RawIs, NamesAreTexts
  <2> QED BY <2>1
<1>3. \A n \in Names, o \in SUBSET Text, r \in Seq(ALine) :
         Opt(o, Many(n, Of(o))) \o r \in Seq(ALine)
  <2> TAKE n \in Names, o \in SUBSET Text, r \in Seq(ALine)
  <2>2. CASE o = {}
    <3>1. <<>> \o r = r
      OBVIOUS
    <3> QED BY <2>2, <3>1 DEF Opt
  <2>3. CASE o # {}
    <3> DEFINE l == Many(n, Of(o))
    <3>1. l \in ALine
      BY <2>3, OfType, PrefarmedIs DEF Many, IsFresh
    <3> HIDE DEF l
    <3>2. <<l>> \o r \in Seq(ALine)
      BY <3>1
    <3> QED BY <2>3, <3>2 DEF Opt, l
  <2> QED BY <2>2, <2>3
<1>4. \A n \in Names \ {<<>>}, o \in SUBSET Text, r \in Seq(ALine) :
         Opt(o, One(n, Of(o))) \o r \in Seq(ALine)
  <2> TAKE n \in Names \ {<<>>}, o \in SUBSET Text, r \in Seq(ALine)
  <2>2. CASE o = {}
    <3>1. <<>> \o r = r
      OBVIOUS
    <3> QED BY <2>2, <3>1 DEF Opt
  <2>3. CASE o # {}
    <3> DEFINE l == One(n, Of(o))
    <3>1. l \in ALine
      BY <2>3, OfType, FarmType, PrefarmedIs DEF One, IsFresh
    <3> HIDE DEF l
    <3>2. <<l>> \o r \in Seq(ALine)
      BY <3>1
    <3> QED BY <2>3, <3>2 DEF Opt, l
  <2> QED BY <2>2, <2>3
<1>5. <<>> \in Names /\ <<"d", "a">> \in Names
  BY DEF Names
<1>6. /\ <<"r", "e">> \in Names \ {<<>>} /\ <<"i", "d">> \in Names \ {<<>>}
      /\ <<"e", "v">> \in Names \ {<<>>}
  BY DEF Names
<1>7. FromData(e) \in Seq(ALine)
  BY <1>1, <1>2, <1>3, <1>5 DEF FromData
<1>8. FromEvent(e) \in Seq(ALine)
  BY <1>1, <1>4, <1>6, <1>7 DEF FromEvent
<1>9. FromId(e) \in Seq(ALine)
  BY <1>1, <1>4, <1>6, <1>8 DEF FromId
<1>10. FromRetry(e) \in Seq(ALine)
  BY <1>1, <1>4, <1>6, <1>9 DEF FromRetry
<1>11. IntoStream(e) \in Seq(ALine)
  BY <1>1, <1>3, <1>5, <1>10 DEF IntoStream
<1> QED BY <1>2, <1>7, <1>8, <1>9, <1>10, <1>11

\* What comes next of an event: the blank line, or a field.
GoesOn(e, rest, fields) ==
    \/ rest = <<Raw(<<>>)>> /\ fields = Meaning(e)
    \/ /\ fields \in {<<>>, ToRetry(e), ToId(e), ToEvent(e)}
       /\ \E l, rest2, fields2 :
             ComesNext(rest, fields, l, rest2, fields2) /\ AtStage(e, rest2, fields2)

LEMMA StageGoesOn ==
  ASSUME NEW e \in AnEvent, NEW rest, NEW fields, AtStage(e, rest, fields)
  PROVE  GoesOn(e, rest, fields) /\ rest \in Seq(ALine) /\ rest # <<>> /\ fields \in Fields
<1>1. /\ e.comment \in SUBSET Text /\ e.retry \in SUBSET Text /\ e.id \in SUBSET Text
      /\ e.event \in SUBSET Text /\ e.data \in SUBSET Text
  BY DEF AnEvent
<1>2. /\ <<Raw(<<>>)>> \in Seq(ALine) /\ FromData(e) \in Seq(ALine)
      /\ FromEvent(e) \in Seq(ALine) /\ FromId(e) \in Seq(ALine)
      /\ FromRetry(e) \in Seq(ALine) /\ IntoStream(e) \in Seq(ALine)
  BY RestTypes
<1>3. /\ ToRetry(e) \in Fields /\ ToId(e) \in Fields /\ ToEvent(e) \in Fields
      /\ Meaning(e) \in Fields /\ <<>> \in Fields
  <2>1. <<>> \in Fields
    BY DEF Fields
  <2> QED BY <2>1, MeaningType
<1>4. /\ <<>> \in Names /\ <<"d", "a">> \in Names
      /\ <<"r", "e">> \in Names \ {<<>>} /\ <<"i", "d">> \in Names \ {<<>>}
      /\ <<"e", "v">> \in Names \ {<<>>}
  BY DEF Names
<1>5. GoesOn(e, <<Raw(<<>>)>>, Meaning(e))
  BY DEF GoesOn
<1>6. GoesOn(e, FromData(e), ToEvent(e))
  <2>1. CASE e.data = {}
    <3>1. FromData(e) = <<Raw(<<>>)>>
      BY <1>2, <1>3, <2>1, NoneIsNext DEF FromData
    <3>2. Meaning(e) = ToEvent(e) \o <<>>
      BY <2>1 DEF Meaning
    <3>3. ToEvent(e) \o <<>> = ToEvent(e)
      BY <1>3 DEF Fields
    <3> QED BY <1>5, <3>1, <3>2, <3>3
  <2>2. CASE e.data # {}
    <3> DEFINE l == Many(<<"d", "a">>, Of(e.data))
               f2 == ToEvent(e) \o Stated(<<"d", "a">>, Lines(Of(e.data)))
    <3>1. ComesNext(FromData(e), ToEvent(e), l, <<Raw(<<>>)>>, f2)
      BY <1>1, <1>2, <1>4, <2>2, ManyIsNext DEF FromData
    <3>2. f2 = Meaning(e)
      <4>1. <<"d", "a">> # <<>>
        OBVIOUS
      <4> QED BY <2>2, <4>1 DEF Meaning, Stated
    <3>3. AtStage(e, <<Raw(<<>>)>>, f2)
      BY <3>2 DEF AtStage
    <3> HIDE DEF l, f2
    <3> QED BY <3>1, <3>3 DEF GoesOn
  <2> QED BY <2>1, <2>2
<1>7. GoesOn(e, FromEvent(e), ToId(e))
  <2>1. CASE e.event = {}
    <3>1. FromEvent(e) = FromData(e) /\ ToEvent(e) = ToId(e)
      BY <1>2, <1>3, <2>1, NoneIsNext, NothingStated DEF FromEvent, ToEvent
    <3> QED BY <1>6, <3>1
  <2>2. CASE e.event # {}
    <3> DEFINE l == One(<<"e", "v">>, Of(e.event))
    <3>1. ComesNext(FromEvent(e), ToId(e), l, FromData(e), ToEvent(e))
      BY <1>1, <1>2, <1>4, <2>2, OneIsNext DEF FromEvent, ToEvent
    <3>2. AtStage(e, FromData(e), ToEvent(e))
      BY DEF AtStage
    <3> HIDE DEF l
    <3> QED BY <3>1, <3>2 DEF GoesOn
  <2> QED BY <2>1, <2>2
<1>8. GoesOn(e, FromId(e), ToRetry(e))
  <2>1. CASE e.id = {}
    <3>1. FromId(e) = FromEvent(e) /\ ToId(e) = ToRetry(e)
      BY <1>2, <1>3, <2>1, NoneIsNext, NothingStated DEF FromId, ToId
    <3> QED BY <1>7, <3>1
  <2>2. CASE e.id # {}
    <3> DEFINE l == One(<<"i", "d">>, Of(e.id))
    <3>1. ComesNext(FromId(e), ToRetry(e), l, FromEvent(e), ToId(e))
      BY <1>1, <1>2, <1>4, <2>2, OneIsNext DEF FromId, ToId
    <3>2. AtStage(e, FromEvent(e), ToId(e))
      BY DEF AtStage
    <3> HIDE DEF l
    <3> QED BY <3>1, <3>2 DEF GoesOn
  <2> QED BY <2>1, <2>2
<1>9. GoesOn(e, FromRetry(e), <<>>)
  <2>0. ToRetry(e) = <<>> \o ToRetry(e)
    BY <1>3 DEF Fields
  <2>1. CASE e.retry = {}
    <3>1. FromRetry(e) = FromId(e) /\ ToRetry(e) = <<>>
      BY <1>2, <1>3, <2>1, NoneIsNext DEF FromRetry, ToRetry, Opt
    <3> QED BY <1>8, <3>1
  <2>2. CASE e.retry # {}
    <3> DEFINE l == One(<<"r", "e">>, Of(e.retry))
    <3>1. ComesNext(FromRetry(e), <<>>, l, FromId(e), <<>> \o ToRetry(e))
      BY <1>1, <1>2, <1>4, <2>2, OneIsNext DEF FromRetry, ToRetry
    <3>2. AtStage(e, FromId(e), ToRetry(e))
      BY DEF AtStage
    <3> HIDE DEF l
    <3> QED BY <2>0, <3>1, <3>2 DEF GoesOn
  <2> QED BY <2>1, <2>2
<1>10. GoesOn(e, IntoStream(e), <<>>)
  <2>1. CASE e.comment = {}
    <3>1. IntoStream(e) = FromRetry(e)
      BY <1>2, <1>3, <2>1, NoneIsNext DEF IntoStream
    <3> QED BY <1>9, <3>1
  <2>2. CASE e.comment # {}
    <3> DEFINE l == Many(<<>>, Of(e.comment))
               f2 == <<>> \o Stated(<<>>, Lines(Of(e.comment)))
    <3>1. ComesNext(IntoStream(e), <<>>, l, FromRetry(e), f2)
      BY <1>1, <1>2, <1>4, <2>2, ManyIsNext DEF IntoStream
    <3>2. f2 = <<>>
      BY DEF Stated
    <3>3. AtStage(e, FromRetry(e), f2)
      BY <3>2 DEF AtStage
    <3> HIDE DEF l, f2
    <3> QED BY <3>1, <3>3 DEF GoesOn
  <2> QED BY <2>1, <2>2
<1>11. GoesOn(e, rest, fields) /\ rest \in Seq(ALine) /\ fields \in Fields
  BY <1>2, <1>3, <1>5, <1>6, <1>7, <1>8, <1>9, <1>10 DEF AtStage
<1>12. rest # <<>>
  <2>1. \A o, x, r : r \in Seq(ALine) /\ Opt(o, x) \o r = <<>> => r = <<>>
    <3> TAKE o, x, r
    <3> HAVE r \in Seq(ALine) /\ Opt(o, x) \o r = <<>>
    <3>1. CASE o = {}
      BY <3>1 DEF Opt
    <3>2. CASE o # {}
      <4>1. Opt(o, x) = <<x>>
        BY <3>2 DEF Opt
      <4>2. <<x>> \o r # <<>>
        <5>1. <<x>> \in Seq(ALine \cup {x}) /\ r \in Seq(ALine \cup {x}) /\ Len(<<x>>) = 1
          OBVIOUS
        <5>2. Len(<<x>> \o r) = 1 + Len(r) /\ Len(r) \in Nat
          BY <5>1
        <5> QED BY <5>2
      <4> QED BY <4>1, <4>2
    <3> QED BY <3>1, <3>2
  <2>2. <<Raw(<<>>)>> # <<>>
    OBVIOUS
  <2>3. FromData(e) # <<>>
    BY <1>2, <2>1, <2>2 DEF FromData
  <2>4. FromEvent(e) # <<>>
    BY <1>2, <2>1, <2>3 DEF FromEvent
  <2>5. FromId(e) # <<>>
    BY <1>2, <2>1, <2>4 DEF FromId
  <2>6. FromRetry(e) # <<>>
    BY <1>2, <2>1, <2>5 DEF FromRetry
  <2>7. IntoStream(e) # <<>>
    BY <1>2, <2>1, <2>6 DEF IntoStream
  <2> QED BY <2>2, <2>3, <2>4, <2>5, <2>6, <2>7 DEF AtStage
<1> QED BY <1>11, <1>12

-----------------------------------------------------------------------------
(* The client                                                              *)

LEMMA NameIs ==
  ASSUME NEW n \in Names
  PROVE  /\ n \in Text
         /\ \A i \in 1 .. Len(n) : n[i] \in Chars /\ n[i] # ":" /\ n[i] \notin Newline
<1>1. n \in Text
  BY NamesAreTexts DEF Names
<1>2. \A i \in 1 .. Len(n) : n[i] # ":" /\ n[i] \notin Newline
  BY DEF Names, Newline
<1> QED BY <1>1, <1>2 DEF Text

LEMMA StatedNothing ==
  ASSUME NEW n
  PROVE  Stated(n, <<>>) = <<>>
BY DEF Stated, Named

LEMMA StatedType ==
  ASSUME NEW n \in Names, NEW ls \in Seq(Text)
  PROVE  Stated(n, ls) \in Fields
<1>1. n \in Text
  BY NameIs
<1>2. Named(n, ls) \in Fields /\ <<>> \in Fields
  BY <1>1, NamedType DEF Fields
<1> QED BY <1>2 DEF Stated

LEMMA StatedMore ==
  ASSUME NEW n \in Names \ {<<>>}, NEW ls \in Seq(Text), NEW x \in Text, NEW before \in Fields
  PROVE  before \o Stated(n, Append(ls, x)) = Append(before \o Stated(n, ls), <<n, Unpadded(x)>>)
<1> DEFINE f == <<n, Unpadded(x)>>
           F == Text \X Text
<1>1. n \in Text
  BY NameIs
<1>2. f \in F
  BY <1>1, UnpaddedType
<1>3. Named(n, ls) \in Seq(F) /\ Len(Named(n, ls)) = Len(ls) /\ before \in Seq(F)
  BY <1>1, NamedType DEF Fields
<1>4. Named(n, Append(ls, x)) = Append(Named(n, ls), f)
  <2> DEFINE p == Named(n, Append(ls, x))
             q == Append(Named(n, ls), f)
  <2>1. Append(ls, x) \in Seq(Text) /\ Len(Append(ls, x)) = Len(ls) + 1 /\ Len(ls) \in Nat
    OBVIOUS
  <2>2. p \in Seq(F) /\ Len(p) = Len(ls) + 1
    BY <1>1, <2>1, NamedType DEF Fields
  <2>3. q \in Seq(F) /\ Len(q) = Len(ls) + 1
    <3> HIDE DEF f, F
    <3> QED BY <1>2, <1>3, <2>1
  <2>4. \A i \in 1 .. Len(ls) + 1 : p[i] = q[i]
    <3> TAKE i \in 1 .. Len(ls) + 1
    <3>1. p[i] = <<n, Unpadded(Append(ls, x)[i])>>
      BY <2>1 DEF Named
    <3>2. CASE i = Len(ls) + 1
      <4>1. Append(ls, x)[i] = x
        BY <3>2
      <4>2. q[i] = f
        <5> HIDE DEF f, F
        <5> QED BY <1>2, <1>3, <3>2
      <4> QED BY <3>1, <4>1, <4>2
    <3>3. CASE i # Len(ls) + 1
      <4>1. i \in 1 .. Len(ls) /\ Append(ls, x)[i] = ls[i]
        BY <2>1, <3>3
      <4>2. q[i] = Named(n, ls)[i]
        <5> HIDE DEF f, F
        <5> QED BY <1>2, <1>3, <4>1
      <4>3. Named(n, ls)[i] = <<n, Unpadded(ls[i])>>
        BY <4>1 DEF Named
      <4> QED BY <3>1, <4>1, <4>2, <4>3
    <3> QED BY <3>2, <3>3
  <2> HIDE DEF p, q, F, f
  <2>5. p = q
    BY <2>1, <2>2, <2>3, <2>4, SeqEqual
  <2> QED BY <2>5 DEF p, q
<1> HIDE DEF F, f
<1>5. before \o Append(Named(n, ls), f) = Append(before \o Named(n, ls), f)
  <2> DEFINE y == Named(n, ls)
  <2>1. y \in Seq(F)
    BY <1>3
  <2> HIDE DEF y
  <2>2. before \o Append(y, f) = Append(before \o y, f)
    BY <1>2, <1>3, <2>1
  <2> QED BY <2>2 DEF y
<1> QED BY <1>4, <1>5 DEF Stated, f

\* The text of a line is its name, a colon and the rest.
IsText(u, n, t) ==
    /\ u \in Text /\ Len(u) = Len(n) + 1 + Len(t)
    /\ \A i \in 1 .. Len(n) : u[i] = n[i]
    /\ u[Len(n) + 1] = ":"
    /\ \A i \in 1 .. Len(t) : u[Len(n) + 1 + i] = t[i]

LEMMA TextIs ==
  ASSUME NEW n \in Text, NEW t \in Text
  PROVE  IsText(Append(n, ":") \o t, n, t)
<1>0. ":" \in Chars /\ n \in Seq(Chars) /\ t \in Seq(Chars)
  BY CharsAssumption DEF Text
<1> DEFINE m == Append(n, ":")
<1>1. /\ m \in Seq(Chars) /\ Len(m) = Len(n) + 1 /\ m[Len(n) + 1] = ":"
      /\ \A i \in 1 .. Len(n) : m[i] = n[i]
  BY <1>0
<1> HIDE DEF m
<1>2. /\ m \o t \in Seq(Chars) /\ Len(m \o t) = Len(m) + Len(t)
      /\ \A i \in 1 .. Len(m) : (m \o t)[i] = m[i]
      /\ \A i \in 1 .. Len(t) : (m \o t)[Len(m) + i] = t[i]
  BY <1>0, <1>1
<1>3. Len(n) \in Nat /\ Len(n) + 1 \in 1 .. Len(m)
  BY <1>0, <1>1
<1>4. \A i \in 1 .. Len(n) : i \in 1 .. Len(m)
  BY <1>1, <1>3
<1> QED BY <1>1, <1>2, <1>3, <1>4 DEF IsText, Text, m

LEMMA FieldIs ==
  ASSUME NEW n \in Names, NEW t \in Text, NEW u, IsText(u, n, t)
  PROVE  Field(u) = <<n, Unpadded(t)>>
<1> DEFINE Is(i) == (i = Len(u) + 1 \/ u[i] = ":") /\ \A j \in 1 .. i - 1 : u[j] # ":"
           k == CHOOSE i \in 1 .. Len(u) + 1 : Is(i)
           a == Len(n)
<1>1. /\ u \in Seq(Chars) /\ n \in Seq(Chars) /\ t \in Seq(Chars)
      /\ a \in Nat /\ Len(t) \in Nat /\ Len(u) \in Nat
      /\ \A i \in 1 .. a : n[i] # ":"
  BY NameIs DEF IsText, Text
<1>2. /\ Len(u) = a + 1 + Len(t) /\ u[a + 1] = ":"
      /\ \A i \in 1 .. a : u[i] = n[i]
      /\ \A i \in 1 .. Len(t) : u[a + 1 + i] = t[i]
  BY DEF IsText
<1> HIDE DEF a
<1>3. Is(a + 1) /\ a + 1 \in 1 .. Len(u) + 1
  BY <1>1, <1>2
<1>4. ASSUME NEW i \in 1 .. Len(u) + 1, Is(i) PROVE i = a + 1
  <2>1. CASE i < a + 1
    <3>1. i \in 1 .. a /\ i # Len(u) + 1
      BY <1>1, <1>2, <2>1
    <3> QED BY <1>1, <1>2, <1>4, <3>1
  <2>2. CASE i > a + 1
    <3>1. a + 1 \in 1 .. i - 1
      BY <1>1, <2>2
    <3> QED BY <1>2, <1>4, <3>1
  <2> QED BY <1>1, <2>1, <2>2
<1> HIDE DEF Is
<1>5. k \in 1 .. Len(u) + 1 /\ Is(k)
  BY <1>3
<1>6. k = a + 1
  BY <1>4, <1>5
<1>7. Field(u) = <<SubSeq(u, 1, k - 1), Unpadded(SubSeq(u, k + 1, Len(u)))>>
  BY DEF Field, Is
<1> HIDE DEF k
<1>8. SubSeq(u, 1, a) = n
  <2>1. /\ SubSeq(u, 1, a) \in Seq(Chars) /\ Len(SubSeq(u, 1, a)) = a
        /\ \A i \in 1 .. a : SubSeq(u, 1, a)[i] = u[i]
    BY <1>1, <1>2
  <2>2. \A i \in 1 .. a : SubSeq(u, 1, a)[i] = n[i]
    BY <1>2, <2>1
  <2> QED BY <1>1, <2>1, <2>2, SeqEqual DEF a
<1>9. SubSeq(u, a + 2, Len(u)) = t
  <2> DEFINE w == SubSeq(u, a + 2, Len(u))
  <2>1. /\ w \in Seq(Chars) /\ Len(w) = Len(t)
        /\ \A i \in 1 .. Len(t) : w[i] = u[(a + 2) + i - 1]
    BY <1>1, <1>2
  <2>2. \A i \in 1 .. Len(t) : (a + 2) + i - 1 = a + 1 + i
    BY <1>1
  <2>3. \A i \in 1 .. Len(t) : w[i] = t[i]
    BY <1>2, <2>1, <2>2
  <2> HIDE DEF w
  <2>4. w = t
    BY <1>1, <2>1, <2>3, SeqEqual
  <2> QED BY <2>4 DEF w
<1>10. k - 1 = a /\ k + 1 = a + 2
  BY <1>1, <1>6
<1> QED BY <1>7, <1>8, <1>9, <1>10

LEMMA ReceivesChar ==
  ASSUME NEW c \in AClient, NEW x \in Chars, x \notin Newline
  PROVE  /\ Receive(c, x) \in AClient /\ Receive(c, x).text = Append(c.text, x)
         /\ Receive(c, x).fields = c.fields /\ Receive(c, x).events = c.events
<1>1. x # "lf"
  BY DEF Newline
<1>2. Receive(c, x) = [c EXCEPT !.text = Append(c.text, x), !.cr = FALSE]
  BY <1>1 DEF Receive
<1>3. Append(c.text, x) \in Text
  BY DEF AClient, Text
<1> QED BY <1>2, <1>3 DEF AClient

LEMMA ReceivesNewline ==
  ASSUME NEW c \in AClient
  PROVE  Receive(c, "lf") = [EndOfLine(c) EXCEPT !.cr = FALSE]
<1>1. c.cr = FALSE
  BY DEF AClient
<1> QED BY <1>1 DEF Receive, Newline

LEMMA ReceivesLine ==
  ASSUME NEW c \in AClient, NEW n \in Names, NEW t \in Text, IsText(c.text, n, t)
  PROVE  /\ Receive(c, "lf") \in AClient /\ Receive(c, "lf").text = <<>>
         /\ Receive(c, "lf").fields = IF n = <<>> THEN c.fields ELSE Append(c.fields, <<n, Unpadded(t)>>)
         /\ Receive(c, "lf").events = c.events
<1>1. n \in Text /\ Len(n) \in Nat /\ Len(t) \in Nat
  BY NameIs DEF Text
<1>2. c.text # <<>>
  BY <1>1 DEF IsText
<1>3. n = <<>> => c.text[1] = ":"
  BY DEF IsText
<1>4. n # <<>> => c.text[1] # ":"
  <2>1. n # <<>> => 1 \in 1 .. Len(n)
    BY <1>1 DEF Text
  <2> QED BY <2>1, NameIs DEF IsText
<1>5. Field(c.text) = <<n, Unpadded(t)>>
  BY FieldIs
<1> DEFINE g == IF n = <<>> THEN c.fields ELSE Append(c.fields, <<n, Unpadded(t)>>)
<1>6. g \in Fields
  <2>1. <<n, Unpadded(t)>> \in Text \X Text /\ c.fields \in Seq(Text \X Text)
    BY <1>1, UnpaddedType DEF AClient, Fields
  <2> QED BY <2>1 DEF Fields
<1>7. EndOfLine(c) = [c EXCEPT !.fields = g, !.text = <<>>]
  BY <1>2, <1>3, <1>4, <1>5 DEF EndOfLine
<1> HIDE DEF g
<1>8. Receive(c, "lf") = [[c EXCEPT !.fields = g, !.text = <<>>] EXCEPT !.cr = FALSE]
  BY <1>7, ReceivesNewline
<1>9. <<>> \in Text
  BY NamesAreTexts
<1>10. /\ Receive(c, "lf") \in AClient /\ Receive(c, "lf").text = <<>>
       /\ Receive(c, "lf").fields = g /\ Receive(c, "lf").events = c.events
  BY <1>6, <1>8, <1>9 DEF AClient
<1> QED BY <1>10 DEF g

LEMMA ReceivesBlank ==
  ASSUME NEW c \in AClient, c.text = <<>>
  PROVE  /\ Receive(c, "lf") \in AClient /\ Receive(c, "lf").text = <<>>
         /\ Receive(c, "lf").fields = <<>>
         /\ Receive(c, "lf").events = IF c.fields = <<>> THEN c.events
                                      ELSE Append(c.events, c.fields)
<1> DEFINE g == IF c.fields = <<>> THEN c.events ELSE Append(c.events, c.fields)
<1>1. g \in Seq(Fields) /\ <<>> \in Fields
  BY DEF AClient, Fields
<1>2. EndOfLine(c) = [c EXCEPT !.events = g, !.fields = <<>>]
  BY DEF EndOfLine
<1> HIDE DEF g
<1>3. Receive(c, "lf") = [[c EXCEPT !.events = g, !.fields = <<>>] EXCEPT !.cr = FALSE]
  BY <1>2, ReceivesNewline
<1>4. /\ Receive(c, "lf") \in AClient /\ Receive(c, "lf").text = <<>>
      /\ Receive(c, "lf").fields = <<>> /\ Receive(c, "lf").events = g
  BY <1>1, <1>3 DEF AClient
<1> QED BY <1>4 DEF g

-----------------------------------------------------------------------------
(* The steps of the stream                                                 *)

LEMMA StreamStarts == StreamInit => StreamInv
<1> SUFFICES ASSUME StreamInit PROVE StreamInv
  OBVIOUS
<1>1. script \in Seq(AnEvent) /\ Len(script) \in Nat
  BY ScriptsAssumption DEF StreamInit
<1>2. line \in ALine
  <2>1. Raw(<<>>) \in ALine
    BY NamesAreTexts, RawIs
  <2> QED BY <2>1 DEF StreamInit, NoLine
<1>3. client = NewClient /\ NewClient \in AClient
  <2>1. <<>> \in Text /\ <<>> \in Fields
    BY NamesAreTexts DEF Fields
  <2> QED BY <2>1 DEF StreamInit, NewClient, AClient
<1>a. sent \in 0 .. Len(script) /\ taken \in 0 .. sent /\ room \in Nat
  BY <1>1 DEF StreamInit
<1>b. b \in {"ticks", "empty", "None"} /\ waits \subseteq {"a", "b"}
  BY DEF StreamInit
<1>c. closed \in BOOLEAN /\ due \in BOOLEAN /\ done \in BOOLEAN /\ read \in BOOLEAN
  BY DEF StreamInit
<1>d. task \in {"ready", "polling", "asleep", "ended"} /\ reader \in {"Pending", "Reading", "Done"}
  BY DEF StreamInit
<1>4. StreamTypeOK
  BY <1>1, <1>2, <1>3, <1>a, <1>b, <1>c, <1>d DEF StreamTypeOK
<1>5. PollsAreSound
  BY DEF StreamInit, PollsAreSound
<1>6. Told(script)[0] = <<>>
  BY <1>1, ToldAre
<1>7. ClientFollows
  BY <1>3, <1>6 DEF StreamInit, ClientFollows, BetweenLines, NewClient
<1> QED BY <1>4, <1>5, <1>7 DEF StreamInv

\* What does not touch the lines leaves the client where it is.
LEMMA ClientStays ==
  ASSUME ClientFollows, UNCHANGED <<script, taken, inner, line, client>>,
         (reader' = "Reading" /\ line.st # "Done") <=> (reader = "Reading" /\ line.st # "Done")
  PROVE  ClientFollows'
<1>1. InField => InField'
  BY DEF InField, HasFields
<1>2. InBlank => InBlank'
  BY DEF InBlank
<1>3. InHeartbeat => InHeartbeat'
  BY DEF InHeartbeat
<1>4. BetweenLines => BetweenLines'
  BY DEF BetweenLines
<1> QED BY <1>1, <1>2, <1>3, <1>4 DEF ClientFollows

LEMMA YieldKeeps ==
  ASSUME StreamInv, Yield PROVE StreamInv'
<1>0. sent' \in 0 .. Len(script) /\ taken \in 0 .. sent'
  <2>1. sent \in 0 .. Len(script) /\ taken \in 0 .. sent /\ Len(script) \in Nat
    BY DEF StreamInv, StreamTypeOK
  <2>2. sent' = sent + 1 /\ sent < Len(script)
    BY DEF Yield
  <2> QED BY <2>1, <2>2
<1>1. StreamTypeOK'
  BY <1>0 DEF StreamInv, Yield, Wake, StreamTypeOK, join
<1>2. PollsAreSound'
  BY DEF StreamInv, Yield, Wake, StreamTypeOK, PollsAreSound, join
<1>3. ClientFollows'
  BY ClientStays DEF StreamInv, Yield, join
<1> QED BY <1>1, <1>2, <1>3 DEF StreamInv

LEMMA CloseKeeps ==
  ASSUME StreamInv, Close PROVE StreamInv'
<1>1. StreamTypeOK'
  BY DEF StreamInv, Close, Wake, StreamTypeOK, join
<1>2. PollsAreSound'
  BY DEF StreamInv, Close, Wake, StreamTypeOK, PollsAreSound, join
<1>3. ClientFollows'
  BY ClientStays DEF StreamInv, Close, join
<1> QED BY <1>1, <1>2, <1>3 DEF StreamInv

LEMMA TickKeeps ==
  ASSUME StreamInv, Tick PROVE StreamInv'
<1>1. StreamTypeOK'
  BY DEF StreamInv, Tick, Wake, StreamTypeOK, join, app
<1>2. PollsAreSound'
  BY DEF StreamInv, Tick, Wake, StreamTypeOK, PollsAreSound, join, app
<1>3. ClientFollows'
  BY ClientStays DEF StreamInv, Tick, join, app
<1> QED BY <1>1, <1>2, <1>3 DEF StreamInv

LEMMA PollKeeps ==
  ASSUME StreamInv, NEW n \in 1 .. MaxRead, Poll(n) PROVE StreamInv'
<1>0. n \in Nat /\ n > 0
  BY MaxReadAssumption
<1>1. StreamTypeOK'
  BY <1>0 DEF StreamInv, Poll, StreamTypeOK, join, app
<1>2. PollsAreSound'
  BY <1>0 DEF StreamInv, Poll, StreamTypeOK, PollsAreSound, join, app
<1>3. ClientFollows'
  BY ClientStays DEF StreamInv, Poll, join, app
<1> QED BY <1>1, <1>2, <1>3 DEF StreamInv

LEMMA AEndsKeeps ==
  ASSUME StreamInv, AEnds PROVE StreamInv'
<1>1. StreamTypeOK'
  BY DEF StreamInv, AEnds, StreamTypeOK, app, poll
<1>2. PollsAreSound'
  BY DEF StreamInv, AEnds, Polling, StreamTypeOK, PollsAreSound, app, poll
<1>3. ClientFollows'
  BY ClientStays DEF StreamInv, AEnds, Polling, app
<1> QED BY <1>1, <1>2, <1>3 DEF StreamInv

LEMMA BothPendingKeeps ==
  ASSUME StreamInv, BothPending PROVE StreamInv'
<1>1. StreamTypeOK'
  BY DEF StreamInv, BothPending, Sleep, StreamTypeOK, app
<1>2. PollsAreSound'
  BY DEF StreamInv, BothPending, Sleep, StreamTypeOK, PollsAreSound, app
<1>3. ClientFollows'
  BY ClientStays DEF StreamInv, BothPending, app
<1> QED BY <1>1, <1>2, <1>3 DEF StreamInv

LEMMA EndsKeeps ==
  ASSUME StreamInv, Ends PROVE StreamInv'
<1>1. StreamTypeOK'
  BY DEF StreamInv, Ends, StreamTypeOK, app, join
<1>2. PollsAreSound'
  BY DEF StreamInv, Ends, Polling, StreamTypeOK, PollsAreSound, app, join
<1>3. ClientFollows'
  BY ClientStays DEF StreamInv, Ends, app, join
<1> QED BY <1>1, <1>2, <1>3 DEF StreamInv

\* A reader is dropped only when it is at its end.
LEMMA PollReturnsKeeps ==
  ASSUME StreamInv, PollReturns PROVE StreamInv'
<1>1. StreamTypeOK'
  BY DEF StreamInv, PollReturns, StreamTypeOK, app, join
<1>2. PollsAreSound'
  BY DEF StreamInv, PollReturns, Polling, StreamTypeOK, PollsAreSound, app, join
<1>3. reader' # reader => line.st = "Done"
  BY DEF StreamInv, PollReturns, Polling, StreamTypeOK, PollsAreSound
<1>4. ClientFollows'
  BY <1>3, ClientStays DEF StreamInv, PollReturns, Polling, app, join
<1> QED BY <1>1, <1>2, <1>4 DEF StreamInv

\* The next line of an event
LEMMA LineStarts ==
  ASSUME NEW e \in AnEvent, NEW rest, AtStage(e, rest, client.fields), client \in AClient,
         client.text = <<>>, taken' > 0, script'[taken'] = e,
         client.events = Told(script')[taken' - 1],
         line' = Head(rest), inner' = Tail(rest), UNCHANGED client
  PROVE  line' \in ALine /\ line'.st # "Done" /\ (InField' \/ InBlank')
<1> DEFINE fields == client.fields
<1>1. GoesOn(e, rest, fields) /\ rest \in Seq(ALine) /\ rest # <<>>
  BY StageGoesOn
<1>2. CASE rest = <<Raw(<<>>)>> /\ fields = Meaning(e)
  <2> DEFINE r == Raw(<<>>)
  <2>1. /\ r \in ALine /\ r.value = <<>> /\ r.pos = 0 /\ r.limit = 0 /\ r.st = "Value"
    BY NamesAreTexts, RawIs
  <2> HIDE DEF r
  <2>2. Head(<<r>>) = r /\ Tail(<<r>>) = <<>>
    OBVIOUS
  <2>3. line' = r /\ inner' = <<>>
    BY <1>2, <2>2 DEF r
  <2> QED BY <1>2, <2>1, <2>3 DEF InBlank
<1>3. CASE ~(rest = <<Raw(<<>>)>> /\ fields = Meaning(e))
  <2>1. fields \in {<<>>, ToRetry(e), ToId(e), ToEvent(e)}
    BY <1>1, <1>3 DEF GoesOn
  <2>2. PICK l, rest2, fields2 : ComesNext(rest, fields, l, rest2, fields2) /\ AtStage(e, rest2, fields2)
    BY <1>1, <1>3 DEF GoesOn
  <2>3. /\ IsFresh(l) /\ line' = l /\ inner' = rest2
        /\ fields2 = fields \o Stated(l.name, Lines(l.value))
    BY <2>2 DEF ComesNext
  <2>4. l \in ALine /\ l.npos = 0 /\ l.pos = 0 /\ l.st = "Name" /\ TakesALine(l)
    BY <2>3 DEF IsFresh
  <2>5. Breaks(l.value)[l.pos] = NoBreak
    <3>1. l.value \in Text
      BY <2>4 DEF ALine
    <3> QED BY <2>4, <3>1, BreaksAre
  <2>6. NoBreak.ended = <<>> /\ NoBreak.last = <<>>
    BY DEF NoBreak
  <2>7. fields = fields \o Stated(l.name, <<>>)
    <3>1. fields \o <<>> = fields
      BY DEF AClient, Fields
    <3> QED BY <3>1, StatedNothing
  <2>8. HasFields(<<>>)'
    BY <2>1, <2>2, <2>3, <2>7 DEF HasFields
  <2>9. TextAt(l, <<>>) = <<>>
    <3>1. SubSeq(l.name, 1, 0) = <<>>
      <4>1. l.name \in Seq(Chars)
        BY <2>4, NameIs DEF ALine, Text
      <4> QED BY <4>1
    <3> QED BY <2>4, <3>1 DEF TextAt
  <2>10. InField'
    BY <2>3, <2>4, <2>5, <2>6, <2>8, <2>9 DEF InField
  <2> QED BY <2>3, <2>4, <2>10
<1> QED BY <1>2, <1>3

LEMMA NextOfAKeeps ==
  ASSUME StreamInv, NextOfA PROVE StreamInv'
<1>1. /\ script \in Seq(AnEvent) /\ Len(script) \in Nat /\ sent \in 0 .. Len(script)
      /\ taken \in 0 .. sent /\ client \in AClient
  BY DEF StreamInv, StreamTypeOK
<1>2. task = "polling" /\ reader = "Pending" /\ ~done /\ ~read /\ room > 0 /\ BetweenLines
  BY DEF StreamInv, NextOfA, Polling, PollsAreSound, ClientFollows
<1>3. client.text = <<>>
  BY <1>2 DEF BetweenLines
<1> DEFINE rest == IF inner # <<>> THEN inner ELSE IntoStream(script[taken + 1])
           e == script[taken']
<1>4. /\ line' = Head(rest) /\ inner' = Tail(rest) /\ UNCHANGED <<script, sent, closed, client>>
      /\ reader' = "Reading" /\ read' = FALSE
      /\ UNCHANGED <<due, b, done, room, task, waits>>
  BY DEF NextOfA, ReadFrom, app
<1>5. /\ taken' \in 1 .. sent /\ e \in AnEvent
      /\ AtStage(e, rest, client.fields) /\ client.events = Told(script)[taken' - 1]
  <2>1. CASE inner # <<>>
    <3>1. taken > 0 /\ AtStage(script[taken], inner, client.fields)
          /\ client.events = Told(script)[taken - 1]
      BY <1>2, <2>1 DEF BetweenLines
    <3>2. taken' = taken
      BY <2>1 DEF NextOfA
    <3>3. taken \in 1 .. sent /\ taken \in 1 .. Len(script)
      BY <1>1, <3>1
    <3>4. script[taken] \in AnEvent
      BY <1>1, <3>3
    <3> QED BY <2>1, <3>1, <3>2, <3>3, <3>4
  <2>2. CASE inner = <<>>
    <3>1. taken' = taken + 1 /\ taken < sent
      BY <2>2 DEF NextOfA
    <3>2. taken' \in 1 .. sent /\ taken' \in 1 .. Len(script) /\ taken' - 1 = taken
      BY <1>1, <3>1
    <3>3. script[taken'] \in AnEvent
      BY <1>1, <3>2
    <3>4. client.fields = <<>> /\ client.events = Told(script)[taken]
      <4> SUFFICES ASSUME taken > 0, AtStage(script[taken], inner, client.fields) PROVE FALSE
        BY <1>2 DEF BetweenLines
      <4>1. taken \in 1 .. Len(script)
        BY <1>1
      <4>2. script[taken] \in AnEvent
        BY <1>1, <4>1
      <4> QED BY <2>2, <4>2, StageGoesOn
    <3>5. AtStage(e, IntoStream(e), <<>>)
      BY DEF AtStage
    <3> QED BY <2>2, <3>1, <3>2, <3>3, <3>4, <3>5
  <2> QED BY <2>1, <2>2
<1>6. taken' > 0 /\ taken' \in 0 .. sent
  BY <1>1, <1>5
<1>7. script'[taken'] = e /\ client.events = Told(script')[taken' - 1]
  BY <1>4, <1>5
<1> HIDE DEF rest, e
<1>8. line' \in ALine /\ line'.st # "Done" /\ (InField' \/ InBlank')
  BY <1>1, <1>3, <1>4, <1>5, <1>6, <1>7, LineStarts
<1>9. StreamTypeOK'
  BY <1>4, <1>6, <1>8 DEF StreamInv, StreamTypeOK
<1>10. PollsAreSound'
  BY <1>2, <1>4 DEF StreamInv, PollsAreSound
<1>11. ClientFollows'
  BY <1>4, <1>8 DEF ClientFollows
<1> QED BY <1>9, <1>10, <1>11 DEF StreamInv

\* A heartbeat is sent between events only.
LEMMA HeartbeatKeeps ==
  ASSUME StreamInv, Heartbeat PROVE StreamInv'
<1>1. /\ script \in Seq(AnEvent) /\ Len(script) \in Nat /\ sent \in 0 .. Len(script)
      /\ taken \in 0 .. sent
  BY DEF StreamInv, StreamTypeOK
<1>2. task = "polling" /\ reader = "Pending" /\ ~done /\ ~read /\ room > 0 /\ BetweenLines
  BY DEF StreamInv, Heartbeat, Polling, PollsAreSound, ClientFollows
<1>3. inner = <<>>
  BY DEF Heartbeat, AReady
<1>4. client.text = <<>> /\ client.fields = <<>> /\ client.events = Told(script)[taken]
  <2> SUFFICES ASSUME taken > 0, AtStage(script[taken], inner, client.fields) PROVE FALSE
    BY <1>2 DEF BetweenLines
  <2>1. taken \in 1 .. Len(script)
    BY <1>1
  <2>2. script[taken] \in AnEvent
    BY <1>1, <2>1
  <2> QED BY <1>3, <2>2, StageGoesOn
<1> DEFINE r == Raw(<<":">>)
<1>5. /\ r \in ALine /\ r.value = <<":">> /\ r.pos = 0 /\ r.limit = 1 /\ r.st = "Value"
  <2>1. <<":">> \in Text /\ Len(<<":">>) = 1
    BY CharsAssumption DEF Text
  <2> QED BY <2>1, RawIs
<1>6. /\ line' = r /\ reader' = "Reading" /\ read' = FALSE /\ due' = FALSE
      /\ UNCHANGED <<script, sent, closed, inner, taken, b, done, room, task, waits, client>>
  BY DEF Heartbeat, ReadFrom, app, join
<1> HIDE DEF r
<1>7. SubSeq(<<":">>, 1, 0) = <<>>
  OBVIOUS
<1>8. StreamTypeOK'
  BY <1>5, <1>6 DEF StreamInv, StreamTypeOK
<1>9. PollsAreSound'
  BY <1>2, <1>6 DEF StreamInv, PollsAreSound
<1>10. InHeartbeat'
  <2>1. line'.value = <<":">> /\ line'.pos = 0 /\ line'.limit = 1 /\ line'.st = "Value"
    BY <1>5, <1>6
  <2>2. line'.pos + line'.limit = 1
    BY <2>1
  <2>3. client'.text = SubSeq(line'.value, 1, line'.pos)
    BY <1>4, <1>6, <1>7, <2>1
  <2>4. /\ inner' = <<>> /\ client'.fields = <<>> /\ client'.events = Told(script')[taken']
    BY <1>3, <1>4, <1>6
  <2> QED BY <2>1, <2>2, <2>3, <2>4 DEF InHeartbeat
<1>11. ClientFollows'
  BY <1>5, <1>6, <1>10 DEF ClientFollows
<1> QED BY <1>8, <1>9, <1>11 DEF StreamInv

\* What is left of the invariant when a line is read
LEMMA ReadKeeps ==
  ASSUME StreamInv, Keep, Polling("Reading"), line' \in ALine, client' \in AClient,
         \/ room > 0 /\ room' = room - 1 /\ read' = TRUE
         \/ UNCHANGED <<room, read>>
  PROVE  StreamTypeOK' /\ PollsAreSound'
<1>1. room' \in Nat /\ read' \in BOOLEAN
  <2>1. room \in Nat /\ read \in BOOLEAN
    BY DEF StreamInv, StreamTypeOK
  <2>2. CASE room > 0 /\ room' = room - 1 /\ read' = TRUE
    BY <2>1, <2>2
  <2>3. CASE UNCHANGED <<room, read>>
    BY <2>1, <2>3
  <2> QED BY <2>2, <2>3
<1>2. UNCHANGED <<script, sent, closed, due, inner, taken, b, done, reader, task, waits>>
  BY DEF Keep, app, join
<1>3. StreamTypeOK'
  BY <1>1, <1>2 DEF StreamInv, StreamTypeOK
<1>4. PollsAreSound'
  BY <1>2 DEF StreamInv, PollsAreSound, Polling
<1> QED BY <1>3, <1>4

LEMMA ReadNameKeeps ==
  ASSUME StreamInv, ReadName PROVE StreamInv'
<1>1. line \in ALine /\ client \in AClient /\ room \in Nat
  BY DEF StreamInv, StreamTypeOK
<1>2. Polling("Reading") /\ room > 0 /\ line.st = "Name" /\ Keep /\ reader = "Reading"
  BY DEF ReadName, In, Polling
<1>3. InField
  BY <1>2 DEF StreamInv, ClientFollows, InBlank, InHeartbeat
<1> DEFINE n == line.name
           k == line.npos
           here == Breaks(line.value)[line.pos]
<1>4. /\ n \in Names /\ k \in Nat /\ n \in Text /\ Len(n) \in Nat
      /\ \A i \in 1 .. Len(n) : n[i] \in Chars /\ n[i] \notin Newline
  <2>1. n \in Names /\ k \in Nat
    BY <1>1 DEF ALine
  <2>2. n \in Text /\ \A i \in 1 .. Len(n) : n[i] \in Chars /\ n[i] \notin Newline
    BY <2>1, NameIs
  <2> QED BY <2>1, <2>2 DEF Text
<1>5. /\ HasFields(here.ended) /\ client.text = SubSeq(n, 1, k) /\ TakesALine(line)
      /\ k = 0 \/ k < Len(n)
      /\ here.last = <<>>
  BY <1>2, <1>3 DEF InField, TextAt
<1>6. /\ line' \in ALine /\ line'.name = n /\ line'.value = line.value
      /\ line'.pos = line.pos /\ line'.limit = line.limit
      /\ IF k + 1 >= Len(n) THEN line'.npos = 0 /\ line'.st = "Colon"
         ELSE line'.npos = k + 1 /\ line'.st = "Name"
  <2>1. CASE k + 1 >= Len(n)
    <3>1. line' = [line EXCEPT !.npos = 0, !.st = "Colon"]
      BY <2>1 DEF ReadName
    <3> QED BY <1>1, <2>1, <3>1 DEF ALine
  <2>2. CASE ~(k + 1 >= Len(n))
    <3>1. line' = [line EXCEPT !.npos = k + 1]
      BY <2>2 DEF ReadName
    <3>2. k + 1 \in Nat
      BY <1>4
    <3> QED BY <1>1, <1>2, <2>2, <3>1, <3>2 DEF ALine
  <2> QED BY <2>1, <2>2
<1>7. /\ client' \in AClient /\ client'.fields = client.fields /\ client'.events = client.events
      /\ client'.text = IF k < Len(n) THEN Append(client.text, n[k + 1]) ELSE client.text
      /\ \/ room > 0 /\ room' = room - 1 /\ read' = TRUE
         \/ UNCHANGED <<room, read>>
  <2>1. CASE k < Len(n)
    <3>1. Put(n[k + 1])
      BY <2>1 DEF ReadName
    <3>2. n[k + 1] \in Chars /\ n[k + 1] \notin Newline
      BY <1>4, <2>1
    <3>3. client' = Receive(client, n[k + 1]) /\ room > 0 /\ room' = room - 1 /\ read' = TRUE
      BY <3>1 DEF Put
    <3> QED BY <1>1, <2>1, <3>2, <3>3, ReceivesChar
  <2>2. CASE ~(k < Len(n))
    <3>1. UNCHANGED <<room, read, client>>
      BY <2>2 DEF ReadName
    <3> QED BY <1>1, <2>2, <3>1
  <2> QED BY <2>1, <2>2
<1>8. client'.text = IF k + 1 >= Len(n) THEN n ELSE SubSeq(n, 1, k + 1)
  <2>0. n \in Seq(Chars)
    BY <1>4 DEF Text
  <2>1. CASE k < Len(n)
    <3>1. Append(SubSeq(n, 1, k), n[k + 1]) = SubSeq(n, 1, k + 1)
      BY <1>4, <2>0, <2>1
    <3>2. k + 1 >= Len(n) => SubSeq(n, 1, k + 1) = n
      BY <1>4, <2>0, <2>1
    <3> QED BY <1>5, <1>7, <2>1, <3>1, <3>2
  <2>2. CASE ~(k < Len(n))
    <3>1. k = 0 /\ Len(n) = 0
      BY <1>4, <1>5, <2>2
    <3>2. SubSeq(n, 1, 0) = n
      BY <2>0, <3>1
    <3> QED BY <1>4, <1>5, <1>7, <2>2, <3>1, <3>2
  <2> QED BY <2>1, <2>2
<1>9. HasFields(here.ended)'
  <2>1. UNCHANGED <<script, taken, inner>>
    BY <1>2 DEF Keep, app, join
  <2>2. here' = here
    BY <1>6
  <2> DEFINE ended == here.ended
  <2>3. ended' = ended
    BY <2>2
  <2> QED BY <1>5, <1>6, <1>7, <2>1, <2>3 DEF HasFields
<1>10. InField'
  <2>1. TakesALine(line')
    BY <1>5, <1>6 DEF TakesALine
  <2>2. here' = here
    BY <1>6
  <2>3. TextAt(line', here.last) = client'.text
    BY <1>6, <1>8 DEF TextAt
  <2>4. line'.npos = 0 \/ (line'.st = "Name" /\ line'.npos < Len(line'.name))
    BY <1>4, <1>6
  <2>5. line'.st # "NewLine"
    BY <1>6
  <2> QED BY <1>5, <1>9, <2>1, <2>2, <2>3, <2>4, <2>5 DEF InField
<1>11. ClientFollows'
  BY <1>2, <1>6, <1>10 DEF ClientFollows, Keep
<1>12. StreamTypeOK' /\ PollsAreSound'
  BY <1>2, <1>6, <1>7, ReadKeeps
<1> QED BY <1>11, <1>12 DEF StreamInv

LEMMA ReadColonKeeps ==
  ASSUME StreamInv, ReadColon PROVE StreamInv'
<1>1. line \in ALine /\ client \in AClient
  BY DEF StreamInv, StreamTypeOK
<1>2. Polling("Reading") /\ line.st = "Colon" /\ Keep /\ reader = "Reading" /\ Put(":")
  BY DEF ReadColon, In, Polling
<1>3. InField
  BY <1>2 DEF StreamInv, ClientFollows, InBlank, InHeartbeat
<1> DEFINE n == line.name
           here == Breaks(line.value)[line.pos]
<1>4. /\ HasFields(here.ended) /\ client.text = n /\ TakesALine(line) /\ line.npos = 0
      /\ here.last = <<>>
  BY <1>2, <1>3 DEF InField, TextAt
<1>5. /\ line' \in ALine /\ line'.name = n /\ line'.value = line.value /\ line'.npos = 0
      /\ line'.pos = line.pos /\ line'.limit = line.limit /\ line'.st = "Value"
  <2>1. line' = [line EXCEPT !.st = "Value"]
    BY DEF ReadColon
  <2> QED BY <1>1, <1>4, <2>1 DEF ALine
<1>6. /\ client' \in AClient /\ client'.fields = client.fields /\ client'.events = client.events
      /\ client'.text = Append(n, ":")
  <2>1. client' = Receive(client, ":")
    BY <1>2 DEF Put
  <2>2. ":" \in Chars /\ ":" \notin Newline
    BY CharsAssumption DEF Newline
  <2> QED BY <1>1, <1>4, <2>1, <2>2, ReceivesChar
<1>7. room > 0 /\ room' = room - 1 /\ read' = TRUE
  BY <1>2 DEF Put
<1>8. here' = here
  BY <1>5
<1>9. HasFields(here.ended)'
  <2>1. UNCHANGED <<script, taken, inner>>
    BY <1>2 DEF Keep, app, join
  <2> DEFINE ended == here.ended
  <2>2. ended' = ended
    BY <1>8
  <2> QED BY <1>4, <1>5, <1>6, <2>1, <2>2 DEF HasFields
<1>10. InField'
  <2>1. TakesALine(line')
    BY <1>4, <1>5 DEF TakesALine
  <2>2. TextAt(line', here.last) = client'.text
    <3>1. n \in Seq(Chars) /\ ":" \in Chars
      BY <1>1, NameIs, CharsAssumption DEF ALine, Text
    <3>2. Append(n, ":") \o <<>> = Append(n, ":")
      BY <3>1
    <3> QED BY <1>4, <1>5, <1>6, <3>2 DEF TextAt
  <2> QED BY <1>5, <1>8, <1>9, <2>1, <2>2 DEF InField
<1>11. ClientFollows'
  BY <1>2, <1>5, <1>10 DEF ClientFollows, Keep
<1>12. StreamTypeOK' /\ PollsAreSound'
  BY <1>2, <1>5, <1>6, <1>7, ReadKeeps
<1> QED BY <1>11, <1>12 DEF StreamInv

\* A character of a field
LEMMA ReadFieldKeeps ==
  ASSUME StreamInv, ReadValue, InField, line.limit > 0 PROVE StreamInv'
<1>1. line \in ALine /\ client \in AClient
  BY DEF StreamInv, StreamTypeOK
<1>2. Polling("Reading") /\ line.st = "Value" /\ Keep /\ reader = "Reading"
  BY DEF ReadValue, In, Polling
<1> DEFINE n == line.name
           v == line.value
           p == line.pos
           k == line.limit
           here == Breaks(v)[p]
           x == v[p + 1]
<1>3. /\ HasFields(here.ended) /\ client.text = Append(n, ":") \o here.last /\ TakesALine(line)
      /\ line.npos = 0
  BY <1>2 DEF InField, TextAt
<1>4. /\ p \in Nat /\ k \in Nat /\ v \in Text /\ v \in Seq(Chars) /\ Len(v) \in Nat
      /\ n \in Seq(Chars) /\ k > 0
  BY <1>1, NameIs DEF ALine, Text
<1>5. /\ p + k <= Len(v)
      /\ \A i \in p + 1 .. p + k : v[i] \notin Newline
      /\ p + k < Len(v) => v[p + k + 1] \in Newline
  BY <1>3 DEF TakesALine
<1>6. p + 1 \in 1 .. Len(v) /\ p \in 0 .. Len(v) /\ p + 1 \in p + 1 .. p + k /\ (p + 1) - 1 = p
  BY <1>4, <1>5
<1>7. x \in Chars /\ x \notin Newline
  BY <1>4, <1>5, <1>6
<1>8. here \in Scan /\ Breaks(v)[p + 1] = [ended |-> here.ended, last |-> Append(here.last, x)]
  <2>1. here \in Scan
    BY <1>4, <1>6, BreaksAre
  <2>2. Breaks(v)[p + 1] = BreakAt(v, p + 1, here)
    BY <1>4, <1>6, BreaksAre
  <2> QED BY <1>7, <2>1, <2>2 DEF BreakAt
<1>9. /\ line' \in ALine /\ line'.name = n /\ line'.value = v /\ line'.npos = 0
      /\ line'.pos = p + 1 /\ line'.limit = k - 1
      /\ line'.st = IF k = 1 THEN "NewLine" ELSE "Value"
  <2>1. line' = [line EXCEPT !.pos = p + 1, !.limit = k - 1, !.st = IF k = 1 THEN "NewLine" ELSE "Value"]
    BY <1>2 DEF ReadValue
  <2>2. p + 1 \in Nat /\ k - 1 \in Nat
    BY <1>4
  <2> QED BY <1>1, <1>3, <2>1, <2>2 DEF ALine
<1>10. Put(x)
  BY DEF ReadValue
<1>11. /\ client' \in AClient /\ client'.fields = client.fields /\ client'.events = client.events
       /\ client'.text = Append(client.text, x)
  <2>1. client' = Receive(client, x)
    BY <1>10 DEF Put
  <2> QED BY <1>1, <1>7, <2>1, ReceivesChar
<1>12. room > 0 /\ room' = room - 1 /\ read' = TRUE
  BY <1>10 DEF Put
<1>13. here' = [ended |-> here.ended, last |-> Append(here.last, x)]
  BY <1>8, <1>9
<1>14. HasFields(here.ended)'
  <2>1. UNCHANGED <<script, taken, inner>>
    BY <1>2 DEF Keep, app, join
  <2> DEFINE ended == here.ended
  <2>2. ended' = ended
    BY <1>13
  <2> QED BY <1>3, <1>9, <1>11, <2>1, <2>2 DEF HasFields
<1>15. InField'
  <2>1. TakesALine(line')
    <3>1. (p + 1) + (k - 1) = p + k /\ k - 1 \in Nat
      BY <1>4
    <3>2. \A i \in (p + 1) + 1 .. p + k : v[i] \notin Newline
      BY <1>4, <1>5
    <3>3. v[p + 1] # "cr"
      BY <1>7 DEF Newline
    <3> HIDE DEF p, k, v
    <3> QED BY <1>5, <1>9, <3>1, <3>2, <3>3 DEF TakesALine
  <2>2. TextAt(line', Append(here.last, x)) = client'.text
    <3> DEFINE m == Append(n, ":")
               y == here.last
    <3>1. m \in Seq(Chars) /\ y \in Seq(Chars)
      BY <1>4, <1>8, CharsAssumption DEF Scan, Text
    <3>2. line'.st # "Name" /\ line'.st # "Colon"
      BY <1>9
    <3>3. TextAt(line', Append(here.last, x)) = m \o Append(y, x)
      BY <1>9, <3>2 DEF TextAt
    <3>4. client'.text = Append(m \o y, x)
      BY <1>3, <1>11
    <3> HIDE DEF m, y, x
    <3>5. Append(m \o y, x) = m \o Append(y, x)
      BY <1>7, <3>1
    <3> QED BY <3>3, <3>4, <3>5
  <2>3. line'.st = "NewLine" => line'.limit = 0
    BY <1>4, <1>9
  <2>4. line'.st \notin {"Name", "Colon"}
    BY <1>9
  <2>5. here'.last = Append(here.last, x)
    BY <1>13
  <2> HIDE DEF x
  <2> QED BY <1>9, <1>14, <2>1, <2>2, <2>3, <2>4, <2>5 DEF InField
<1>16. ClientFollows'
  BY <1>2, <1>9, <1>15 DEF ClientFollows, Keep
<1>17. StreamTypeOK' /\ PollsAreSound'
  BY <1>2, <1>9, <1>11, <1>12, ReadKeeps
<1> QED BY <1>16, <1>17 DEF StreamInv

LEMMA ReadValueKeeps ==
  ASSUME StreamInv, ReadValue PROVE StreamInv'
<1>1. line \in ALine /\ client \in AClient
  BY DEF StreamInv, StreamTypeOK
<1>2. Polling("Reading") /\ line.st = "Value" /\ Keep /\ reader = "Reading"
  BY DEF ReadValue, In, Polling
<1>3. InField \/ InBlank \/ InHeartbeat
  BY <1>2 DEF StreamInv, ClientFollows
<1>4. line.limit \in Nat /\ line.pos \in Nat
  BY <1>1 DEF ALine
<1>5. CASE line.limit = 0
  <2>1. line' = [line EXCEPT !.st = "NewLine"] /\ UNCHANGED <<room, read, client>>
    BY <1>5 DEF ReadValue
  <2>2. /\ line' \in ALine /\ line'.name = line.name /\ line'.value = line.value
        /\ line'.npos = line.npos /\ line'.pos = line.pos /\ line'.limit = line.limit
        /\ line'.st = "NewLine"
    BY <1>1, <2>1 DEF ALine
  <2>3. UNCHANGED <<script, taken, inner, reader>>
    BY <1>2 DEF Keep, app, join
  <2>4. InField => InField'
    <3> SUFFICES ASSUME InField PROVE InField'
      OBVIOUS
    <3> DEFINE here == Breaks(line.value)[line.pos]
    <3>1. here' = here
      BY <2>2
    <3>2. /\ HasFields(here.ended) /\ client.text = Append(line.name, ":") \o here.last
          /\ TakesALine(line) /\ line.npos = 0
      BY <1>2 DEF InField, TextAt
    <3>3. HasFields(here.ended)'
      <4> DEFINE ended == here.ended
      <4>1. ended' = ended
        BY <3>1
      <4> QED BY <2>1, <2>2, <2>3, <3>2, <4>1 DEF HasFields
    <3>4. TakesALine(line')
      BY <2>2, <3>2 DEF TakesALine
    <3>5. client'.text = TextAt(line', here.last)
      BY <2>1, <2>2, <3>2 DEF TextAt
    <3> QED BY <1>5, <2>2, <3>1, <3>2, <3>3, <3>4, <3>5 DEF InField
  <2>5. InBlank => InBlank'
    BY <2>1, <2>2, <2>3 DEF InBlank
  <2>6. InHeartbeat => InHeartbeat'
    <3> SUFFICES ASSUME InHeartbeat PROVE InHeartbeat'
      OBVIOUS
    <3>1. line.pos = 1
      BY <1>4, <1>5 DEF InHeartbeat
    <3> QED BY <2>1, <2>2, <2>3, <3>1 DEF InHeartbeat
  <2>7. ClientFollows'
    BY <1>2, <1>3, <2>2, <2>3, <2>4, <2>5, <2>6 DEF ClientFollows
  <2>8. StreamTypeOK' /\ PollsAreSound'
    BY <1>1, <1>2, <2>1, <2>2, ReadKeeps
  <2> QED BY <2>7, <2>8 DEF StreamInv
<1>6. CASE line.limit > 0 /\ InField
  BY <1>6, ReadFieldKeeps
<1>7. CASE line.limit > 0 /\ InHeartbeat
  <2>1. /\ line.pos = 0 /\ line.limit = 1 /\ line.value = <<":">> /\ inner = <<>>
        /\ client.fields = <<>> /\ client.events = Told(script)[taken]
    BY <1>4, <1>7 DEF InHeartbeat
  <2>2. client.text = <<>>
    <3>1. SubSeq(<<":">>, 1, 0) = <<>>
      OBVIOUS
    <3> QED BY <1>7, <2>1, <3>1 DEF InHeartbeat
  <2>3. Put(":") /\ line' = [line EXCEPT !.pos = 1, !.limit = 0, !.st = "NewLine"]
    <3>1. 0 + 1 = 1 /\ 1 - 1 = 0 /\ 1 > 0 /\ <<":">>[1] = ":"
      OBVIOUS
    <3> QED BY <2>1, <3>1 DEF ReadValue
  <2>4. /\ line' \in ALine /\ line'.value = <<":">> /\ line'.pos = 1 /\ line'.limit = 0
        /\ line'.st = "NewLine"
    BY <1>1, <2>1, <2>3 DEF ALine
  <2>5. /\ client' \in AClient /\ client'.fields = <<>> /\ client'.events = client.events
        /\ client'.text = Append(<<>>, ":")
    <3>1. client' = Receive(client, ":")
      BY <2>3 DEF Put
    <3>2. ":" \in Chars /\ ":" \notin Newline
      BY CharsAssumption DEF Newline
    <3> QED BY <1>1, <2>1, <2>2, <3>1, <3>2, ReceivesChar
  <2>6. Append(<<>>, ":") = SubSeq(<<":">>, 1, 1)
    OBVIOUS
  <2>7. UNCHANGED <<script, taken, inner, reader>>
    BY <1>2 DEF Keep, app, join
  <2>8. InHeartbeat'
    <3>1. line'.pos + line'.limit = 1
      BY <2>4
    <3>2. client'.text = SubSeq(line'.value, 1, line'.pos)
      BY <2>4, <2>5, <2>6
    <3> QED BY <2>1, <2>4, <2>5, <2>7, <3>1, <3>2 DEF InHeartbeat
  <2>9. ClientFollows'
    BY <1>2, <2>4, <2>7, <2>8 DEF ClientFollows
  <2>10. StreamTypeOK' /\ PollsAreSound'
    <3>1. room > 0 /\ room' = room - 1 /\ read' = TRUE
      BY <2>3 DEF Put
    <3> QED BY <1>2, <2>4, <2>5, <3>1, ReadKeeps
  <2> QED BY <2>9, <2>10 DEF StreamInv
<1>8. CASE InBlank
  BY <1>5, <1>8 DEF InBlank
<1>9. line.limit = 0 \/ line.limit > 0
  BY <1>4
<1> QED BY <1>3, <1>5, <1>6, <1>7, <1>8, <1>9

\* The end of a line of a field
LEMMA EndFieldKeeps ==
  ASSUME StreamInv, ReadNewLine, InField PROVE StreamInv'
<1>1. line \in ALine /\ client \in AClient /\ script \in Seq(AnEvent)
      /\ Len(script) \in Nat /\ sent \in 0 .. Len(script) /\ taken \in 0 .. sent
  BY DEF StreamInv, StreamTypeOK
<1>2. Polling("Reading") /\ line.st = "NewLine" /\ Keep /\ reader = "Reading" /\ Put("lf")
  BY DEF ReadNewLine, In, Polling
<1> DEFINE n == line.name
           v == line.value
           p == line.pos
           here == Breaks(v)[p]
           e == script[taken]
           all == Stated(n, Lines(v))
           ls == Append(here.ended, here.last)
<1>3. /\ HasFields(here.ended) /\ client.text = Append(n, ":") \o here.last /\ TakesALine(line)
      /\ line.npos = 0 /\ line.limit = 0
  BY <1>2 DEF InField, TextAt
<1>4. p \in Nat /\ v \in Text /\ Len(v) \in Nat /\ n \in Names /\ n \in Text
  BY <1>1, NameIs DEF ALine, Text
<1>5. /\ p <= Len(v) /\ (p < Len(v) => v[p + 1] \in Newline)
      /\ p < Len(v) /\ v[p + 1] = "lf" => p = 0 \/ v[p] # "cr"
  <2>1. p + 0 = p
    BY <1>4
  <2> QED BY <1>3, <2>1 DEF TakesALine
<1>6. p \in 0 .. Len(v) /\ here \in Scan
  <2>1. p \in 0 .. Len(v)
    BY <1>4, <1>5
  <2> QED BY <1>4, <2>1, BreaksAre
<1>7. here.ended \in Seq(Text) /\ here.last \in Text
  BY <1>6 DEF Scan
<1>8. /\ taken > 0 /\ client.events = Told(script)[taken - 1]
  BY <1>3 DEF HasFields
<1>9. PICK before \in {<<>>, ToRetry(e), ToId(e), ToEvent(e)} :
         AtStage(e, inner, before \o all) /\ client.fields = before \o Stated(n, here.ended)
  BY <1>3 DEF HasFields
<1>10. before \in Fields
  <2>1. taken \in 1 .. Len(script)
    BY <1>1, <1>8
  <2>2. e \in AnEvent
    BY <1>1, <2>1
  <2>3. <<>> \in Fields
    BY DEF Fields
  <2> QED BY <2>2, <2>3, MeaningType
<1>11. /\ client' \in AClient /\ client'.text = <<>> /\ client'.events = client.events
       /\ client'.fields = before \o Stated(n, ls)
  <2>1. client' = Receive(client, "lf")
    BY <1>2 DEF Put
  <2>2. IsText(client.text, n, here.last)
    BY <1>3, <1>4, <1>7, TextIs
  <2> DEFINE g == IF n = <<>> THEN client.fields ELSE Append(client.fields, <<n, Unpadded(here.last)>>)
  <2>3. /\ client' \in AClient /\ client'.text = <<>> /\ client'.events = client.events
        /\ client'.fields = g
    BY <1>1, <1>4, <1>7, <2>1, <2>2, ReceivesLine
  <2>4. CASE n = <<>>
    <3>1. Stated(n, ls) = <<>> /\ Stated(n, here.ended) = <<>>
      BY <2>4 DEF Stated
    <3> QED BY <1>9, <2>3, <2>4, <3>1
  <2>5. CASE n # <<>>
    <3>1. before \o Stated(n, ls) = Append(before \o Stated(n, here.ended), <<n, Unpadded(here.last)>>)
      BY <1>4, <1>7, <1>10, <2>5, StatedMore
    <3> QED BY <1>9, <2>3, <2>5, <3>1
  <2> QED BY <2>4, <2>5
<1>12. UNCHANGED <<script, taken, inner, reader>>
  BY <1>2 DEF Keep, app, join
<1>13. room > 0 /\ room' = room - 1 /\ read' = TRUE
  BY <1>2 DEF Put
<1>14. CASE p < Len(v)
  <2> DEFINE q == Skip(v, p)
             k == Advance(v, q)
  <2>1. /\ q \in 0 .. Len(v)
        /\ Breaks(v)[q] = [ended |-> ls, last |-> <<>>]
        /\ q < Len(v) /\ v[q + 1] = "lf" => q = 0 \/ v[q] # "cr"
    BY <1>4, <1>5, <1>6, <1>14, SkipIs
  <2>2. line' = [line EXCEPT !.pos = q, !.limit = k, !.st = "Name"]
    BY <1>14 DEF ReadNewLine
  <2> HIDE DEF q, k
  <2>3. /\ k \in Nat /\ q + k <= Len(v)
        /\ \A i \in q + 1 .. q + k : v[i] \notin Newline
        /\ q + k < Len(v) => v[q + k + 1] \in Newline
    BY <1>4, <2>1, AdvanceIs DEF k
  <2>4. q \in Nat
    BY <1>4, <2>1
  <2>5. /\ line' \in ALine /\ line'.name = n /\ line'.value = v /\ line'.npos = 0
        /\ line'.pos = q /\ line'.limit = k /\ line'.st = "Name"
    BY <1>1, <1>3, <2>2, <2>3, <2>4 DEF ALine
  <2>6. TakesALine(line')
    BY <2>1, <2>3, <2>5 DEF TakesALine
  <2>7. here' = [ended |-> ls, last |-> <<>>]
    BY <2>1, <2>5
  <2>8. here'.last = <<>> /\ here'.ended = ls
    <3> HIDE DEF ls
    <3> QED BY <2>7
  <2>9. HasFields(here.ended)'
    <3> DEFINE ended == here.ended
    <3>1. ended' = ls
      BY <2>8
    <3>2. AtStage(e, inner', before \o Stated(line'.name, Lines(line'.value)))
      BY <1>9, <1>12, <2>5
    <3>3. client'.fields = before \o Stated(line'.name, ended')
      BY <1>11, <2>5, <3>1
    <3>4. taken' > 0 /\ client'.events = Told(script')[taken' - 1] /\ script'[taken'] = e
      BY <1>8, <1>11, <1>12
    <3> HIDE DEF all, ls, e, here, ended
    <3> QED BY <1>9, <3>2, <3>3, <3>4 DEF HasFields, ended
  <2>10. TextAt(line', <<>>) = <<>>
    <3>1. SubSeq(n, 1, 0) = <<>>
      BY <1>4 DEF Text
    <3> QED BY <2>5, <3>1 DEF TextAt
  <2>11. InField'
    BY <1>11, <2>5, <2>6, <2>8, <2>9, <2>10 DEF InField
  <2>12. ClientFollows'
    BY <1>2, <1>12, <2>5, <2>11 DEF ClientFollows
  <2>13. StreamTypeOK' /\ PollsAreSound'
    BY <1>2, <1>11, <1>13, <2>5, ReadKeeps
  <2> QED BY <2>12, <2>13 DEF StreamInv
<1>15. CASE p = Len(v)
  <2>1. line' = [line EXCEPT !.st = "Done"]
    BY <1>4, <1>15 DEF ReadNewLine
  <2>2. line' \in ALine /\ line'.st = "Done"
    BY <1>1, <2>1 DEF ALine
  <2>3. Lines(v) = ls
    BY <1>15 DEF Lines
  <2>4. AtStage(e, inner, client'.fields)
    BY <1>9, <1>11, <2>3
  <2>5. BetweenLines'
    BY <1>8, <1>11, <1>12, <2>4 DEF BetweenLines
  <2>6. ClientFollows'
    BY <2>2, <2>5 DEF ClientFollows
  <2>7. StreamTypeOK' /\ PollsAreSound'
    BY <1>2, <1>11, <1>13, <2>2, ReadKeeps
  <2> QED BY <2>6, <2>7 DEF StreamInv
<1>16. p < Len(v) \/ p = Len(v)
  BY <1>4, <1>5
<1> QED BY <1>14, <1>15, <1>16

\* The end of a blank line, and with it of an event; and that of a heartbeat
LEMMA ReadNewLineKeeps ==
  ASSUME StreamInv, ReadNewLine PROVE StreamInv'
<1>1. line \in ALine /\ client \in AClient /\ script \in Seq(AnEvent)
      /\ Len(script) \in Nat /\ sent \in 0 .. Len(script) /\ taken \in 0 .. sent
  BY DEF StreamInv, StreamTypeOK
<1>2. Polling("Reading") /\ line.st = "NewLine" /\ Keep /\ reader = "Reading" /\ Put("lf")
  BY DEF ReadNewLine, In, Polling
<1>3. InField \/ InBlank \/ InHeartbeat
  BY <1>2 DEF StreamInv, ClientFollows
<1>4. client' = Receive(client, "lf") /\ room > 0 /\ room' = room - 1 /\ read' = TRUE
  BY <1>2 DEF Put
<1>5. UNCHANGED <<script, taken, inner, reader>>
  BY <1>2 DEF Keep, app, join
<1>6. CASE InBlank
  <2>1. /\ inner = <<>> /\ taken > 0 /\ line.value = <<>> /\ line.pos = 0 /\ client.text = <<>>
        /\ client.fields = Meaning(script[taken]) /\ client.events = Told(script)[taken - 1]
    BY <1>6 DEF InBlank
  <2>2. line' = [line EXCEPT !.st = "Done"]
    <3>1. ~(0 < Len(<<>>))
      OBVIOUS
    <3> QED BY <2>1, <3>1 DEF ReadNewLine
  <2>3. line' \in ALine /\ line'.st = "Done"
    BY <1>1, <2>2 DEF ALine
  <2>4. /\ client' \in AClient /\ client'.text = <<>> /\ client'.fields = <<>>
        /\ client'.events = IF client.fields = <<>> THEN client.events
                            ELSE Append(client.events, client.fields)
    BY <1>1, <1>4, <2>1, ReceivesBlank
  <2>5. client'.events = Told(script)[taken]
    <3>1. taken \in 1 .. Len(script)
      BY <1>1, <2>1
    <3>2. Told(script)[taken] = Tell(script[taken], Told(script)[taken - 1])
      BY <1>1, <3>1, ToldAre
    <3> QED BY <2>1, <2>4, <3>2 DEF Tell
  <2>6. BetweenLines'
    BY <1>5, <2>1, <2>4, <2>5 DEF BetweenLines
  <2>7. ClientFollows'
    BY <2>3, <2>6 DEF ClientFollows
  <2>8. StreamTypeOK' /\ PollsAreSound'
    BY <1>2, <1>4, <2>3, <2>4, ReadKeeps
  <2> QED BY <2>7, <2>8 DEF StreamInv
<1>7. CASE InHeartbeat
  <2>1. /\ inner = <<>> /\ line.value = <<":">> /\ line.pos = 1
        /\ client.fields = <<>> /\ client.events = Told(script)[taken]
        /\ client.text = SubSeq(<<":">>, 1, 1)
    BY <1>2, <1>7 DEF InHeartbeat
  <2>2. line' = [line EXCEPT !.st = "Done"]
    <3>1. ~(1 < Len(<<":">>))
      OBVIOUS
    <3> QED BY <2>1, <3>1 DEF ReadNewLine
  <2>3. line' \in ALine /\ line'.st = "Done"
    BY <1>1, <2>2 DEF ALine
  <2>4. IsText(client.text, <<>>, <<>>)
    <3>1. IsText(Append(<<>>, ":") \o <<>>, <<>>, <<>>)
      BY NamesAreTexts, TextIs
    <3>2. Append(<<>>, ":") \o <<>> = <<":">>
      OBVIOUS
    <3> DEFINE w == <<":">>
    <3>3. w \in Seq(Chars) /\ Len(w) = 1
      BY CharsAssumption
    <3> HIDE DEF w
    <3>4. SubSeq(w, 1, 1) = w
      BY <3>3
    <3> QED BY <2>1, <3>1, <3>2, <3>4 DEF w
  <2>5. client' \in AClient /\ client'.text = <<>> /\ client'.fields = client.fields
        /\ client'.events = client.events
    <3>1. <<>> \in Names /\ <<>> \in Text
      BY NamesAreTexts DEF Names
    <3> DEFINE r == Receive(client, "lf")
    <3>2. /\ r \in AClient /\ r.text = <<>> /\ r.events = client.events
          /\ r.fields = IF <<>> = <<>> THEN client.fields ELSE Append(client.fields, << <<>>, <<>> >>)
      BY <1>1, <2>4, <3>1, ReceivesLine
    <3> QED BY <1>4, <3>2
  <2>6. BetweenLines'
    BY <1>5, <2>1, <2>5 DEF BetweenLines
  <2>7. ClientFollows'
    BY <2>3, <2>6 DEF ClientFollows
  <2>8. StreamTypeOK' /\ PollsAreSound'
    BY <1>2, <1>4, <2>3, <2>5, ReadKeeps
  <2> QED BY <2>7, <2>8 DEF StreamInv
<1>8. CASE InField
  BY <1>8, EndFieldKeeps
<1> QED BY <1>3, <1>6, <1>7, <1>8

LEMMA StreamStep == StreamInv /\ [StreamNext]_streams => StreamInv'
<1> SUFFICES ASSUME StreamInv, [StreamNext]_streams PROVE StreamInv'
  OBVIOUS
<1>1. CASE UNCHANGED streams
  <2>1. UNCHANGED <<script, sent, closed, due, inner, taken, b, done, reader, line, room, read,
                    task, waits, client>>
    BY <1>1 DEF streams, app, join, poll
  <2>2. StreamTypeOK'
    BY <2>1 DEF StreamInv, StreamTypeOK
  <2>3. PollsAreSound'
    BY <2>1 DEF StreamInv, PollsAreSound
  <2>4. ClientFollows'
    BY <2>1, ClientStays DEF StreamInv
  <2> QED BY <2>2, <2>3, <2>4 DEF StreamInv
<1> QED
  BY <1>1, YieldKeeps, CloseKeeps, TickKeeps, PollKeeps, NextOfAKeeps, AEndsKeeps, HeartbeatKeeps,
     BothPendingKeeps, ReadNameKeeps, ReadColonKeeps, ReadValueKeeps, ReadNewLineKeeps,
     PollReturnsKeeps, EndsKeeps DEF StreamNext, StreamServer

\* The invariant of the streams: between lines the client has nothing half read, and
\* within one what the reader has given it so far.
THEOREM StreamInductive == StreamSpec => []StreamInv
<1>1. StreamInit => StreamInv
  BY StreamStarts
<1>2. StreamInv /\ [StreamNext]_streams => StreamInv'
  BY StreamStep
<1> QED BY <1>1, <1>2, PTL DEF StreamSpec

LEMMA EventsAreUnderstood == StreamInv => ClientUnderstands
<1> SUFFICES ASSUME StreamInv PROVE ClientUnderstands
  OBVIOUS
<1>1. /\ script \in Seq(AnEvent) /\ Len(script) \in Nat /\ sent \in 0 .. Len(script)
      /\ taken \in 0 .. sent /\ client \in AClient
  BY DEF StreamInv, StreamTypeOK
<1>2. \/ client.events = Told(script)[taken]
      \/ taken > 0 /\ client.events = Told(script)[taken - 1]
  BY DEF StreamInv, ClientFollows, InField, HasFields, InBlank, InHeartbeat, BetweenLines
<1>3. \E i \in 0 .. Len(script) : client.events = Told(script)[i]
  <2>1. taken \in 0 .. Len(script) /\ (taken > 0 => taken - 1 \in 0 .. Len(script))
    BY <1>1
  <2> QED BY <1>2, <2>1
<1>4. Begins(client.events, Expected)
  BY <1>1, <1>3, ToldGrows DEF Expected
<1>5. ASSUME task = "ended"
      PROVE  client.events = Expected /\ client.fields = <<>> /\ client.text = <<>>
  <2>1. reader = "Done" /\ done /\ inner = <<>> /\ taken = Len(script)
    BY <1>5 DEF StreamInv, PollsAreSound
  <2>2. BetweenLines
    BY <2>1 DEF StreamInv, ClientFollows
  <2>3. ~(taken > 0 /\ AtStage(script[taken], inner, client.fields))
    <3> SUFFICES ASSUME taken > 0, AtStage(script[taken], inner, client.fields) PROVE FALSE
      OBVIOUS
    <3>1. taken \in 1 .. Len(script)
      BY <1>1
    <3>2. script[taken] \in AnEvent
      BY <1>1, <3>1
    <3> QED BY <2>1, <3>2, StageGoesOn
  <2> QED BY <2>1, <2>2, <2>3 DEF BetweenLines, Expected
<1> QED BY <1>4, <1>5 DEF ClientUnderstands, Begins

\* However the events, their texts and the buffers are, and wherever a heartbeat comes,
\* a client makes of the bytes of the stream the events of the application, in order.
THEOREM EventsAreUnderstoodAlways == StreamSpec => []ClientUnderstands
BY StreamInductive, EventsAreUnderstood, PTL
=============================================================================
