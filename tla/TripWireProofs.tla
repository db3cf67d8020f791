--------------------------- MODULE TripWireProofs ---------------------------
(***************************************************************************)
(* Proofs about TripWire for any number of handles and of calls of trip(). *)
(***************************************************************************)
EXTENDS TripWire, TLAPS

\* TripWire::new() establishes the inductive invariant.
LEMMA InitIInv == Init => IInv
<1> SUFFICES ASSUME Init PROVE IInv
  OBVIOUS
<1>1. TypeOK
  BY DEF Init, TypeOK, PCs, PollSteps
<1>2. \A w \in Wires : pc[w] \in {"absent", "held"}
  BY DEF Init
<1>3. PollState /\ SleepersHaveATripper
  BY <1>2 DEF Init, PollState, SleepersHaveATripper
<1>4. FlagBeforeCalls /\ ListIsUnnotified /\ PassedState
  BY DEF Init, FlagBeforeCalls, ListIsUnnotified, PassedState
<1> QED
  BY <1>1, <1>3, <1>4 DEF IInv

\* A handle's event, when there is one, is a count; a ready one is behind.
LEMMA NotifiedMeansTripped ==
    ASSUME IInv, NEW w \in Wires, Notified(w)
    PROVE  tripped
<1>1. event[w] \in 0..calls
  BY NoEventAssumption DEF IInv, TypeOK, Notified
<1>2. calls # 0
  BY <1>1 DEF Notified, IInv, TypeOK
<1> QED
  BY <1>2 DEF IInv, FlagBeforeCalls

\* Every access of a poll, of clone(), drop() and trip() keeps the invariant.
LEMMA NextIInv == IInv /\ [Next]_vars => IInv'
<1> SUFFICES ASSUME IInv, [Next]_vars PROVE IInv'
  OBVIOUS
<1> USE NoEventAssumption
<1>1. ASSUME NEW w \in Wires, Clone(w) PROVE IInv'
  BY <1>1 DEF Clone, IInv, TypeOK, FlagBeforeCalls, ListIsUnnotified, PollState,
     SleepersHaveATripper, PassedState, PCs, PollSteps
<1>2. ASSUME NEW w \in Wires, BeginPoll(w) PROVE IInv'
  BY <1>2 DEF BeginPoll, IInv, TypeOK, FlagBeforeCalls, ListIsUnnotified, PollState,
     SleepersHaveATripper, PassedState, PCs, PollSteps
<1>3. ASSUME NEW w \in Wires, Check(w) PROVE IInv'
  <2>1. CASE tripped
    BY <1>3, <2>1 DEF Check, ReturnReady, IInv, TypeOK, FlagBeforeCalls, ListIsUnnotified,
       PollState, SleepersHaveATripper, PassedState, PCs, PollSteps
  <2>2. CASE ~tripped
    BY <1>3, <2>2 DEF Check, IInv, TypeOK, FlagBeforeCalls, ListIsUnnotified,
       PollState, SleepersHaveATripper, PassedState, PCs, PollSteps
  <2> QED BY <2>1, <2>2
<1>4. ASSUME NEW w \in Wires, Subscribe(w) PROVE IInv'
  BY <1>4 DEF Subscribe, IInv, TypeOK, FlagBeforeCalls, ListIsUnnotified, PollState,
     SleepersHaveATripper, PassedState, PCs, PollSteps
<1>5. ASSUME NEW w \in Wires, PollEvent(w) PROVE IInv'
  <2>1. CASE Notified(w)
    <3>1. tripped
      BY <2>1, NotifiedMeansTripped
    <3> QED
      BY <1>5, <2>1, <3>1 DEF PollEvent, ReturnReady, IInv, TypeOK, FlagBeforeCalls,
         ListIsUnnotified, PollState, SleepersHaveATripper, PassedState, PCs, PollSteps
  <2>2. CASE ~Notified(w)
    <3>1. event[w] = calls
      BY <1>5, <2>2 DEF PollEvent, Notified, IInv, PollState
    <3> QED
      BY <1>5, <2>2, <3>1 DEF PollEvent, IInv, TypeOK, FlagBeforeCalls,
         ListIsUnnotified, PollState, SleepersHaveATripper, PassedState, PCs, PollSteps
  <2> QED BY <2>1, <2>2
<1>6. ASSUME NEW w \in Wires, Recheck(w) PROVE IInv'
  <2>1. CASE tripped
    BY <1>6, <2>1 DEF Recheck, ReturnReady, IInv, TypeOK, FlagBeforeCalls, ListIsUnnotified,
       PollState, SleepersHaveATripper, PassedState, PCs, PollSteps
  <2>2. CASE ~tripped
    BY <1>6, <2>2 DEF Recheck, IInv, TypeOK, FlagBeforeCalls, ListIsUnnotified,
       PollState, SleepersHaveATripper, PassedState, PCs, PollSteps
  <2> QED BY <2>1, <2>2
<1>7. ASSUME NEW w \in Wires, Drop(w) PROVE IInv'
  BY <1>7 DEF Drop, IInv, TypeOK, FlagBeforeCalls, ListIsUnnotified, PollState,
     SleepersHaveATripper, PassedState, PCs, PollSteps
<1>8. ASSUME NEW t \in Trippers, Store(t) PROVE IInv'
  BY <1>8 DEF Store, IInv, TypeOK, FlagBeforeCalls, ListIsUnnotified, PollState,
     SleepersHaveATripper, PassedState, PCs, PollSteps
<1>9. ASSUME NEW t \in Trippers, NotifyWaiters(t) PROVE IInv'
  <2>1. TypeOK' /\ FlagBeforeCalls' /\ ListIsUnnotified' /\ PassedState'
    BY <1>9 DEF NotifyWaiters, IInv, TypeOK, FlagBeforeCalls, ListIsUnnotified, PassedState,
       PCs, PollSteps
  <2>2. PollState'
    BY <1>9 DEF NotifyWaiters, IInv, TypeOK, ListIsUnnotified, PollState
  \* Everybody asleep was in the list, and the whole list is woken.
  <2>3. SleepersHaveATripper'
    BY <1>9 DEF NotifyWaiters, IInv, TypeOK, PollState, SleepersHaveATripper
  <2> QED
    BY <2>1, <2>2, <2>3 DEF IInv
<1>10. CASE UNCHANGED vars
  BY <1>10 DEF vars, IInv, TypeOK, FlagBeforeCalls, ListIsUnnotified, PollState,
     SleepersHaveATripper, PassedState
<1> QED
  BY <1>1, <1>2, <1>3, <1>4, <1>5, <1>6, <1>7, <1>8, <1>9, <1>10 DEF Next, Poll

\* The inductive invariant holds in every reachable state.
THEOREM Inductive == Spec => []IInv
BY InitIInv, NextIInv, PTL DEF Spec

\* Type correctness.
THEOREM TypeCorrect == Spec => []TypeOK
<1>1. IInv => TypeOK
  BY DEF IInv
<1> QED
  BY <1>1, Inductive, PTL

\* poll() may return Ready on the strength of the notification alone.
THEOREM NotifiedTripped == Spec => []NotifiedImpliesTripped
<1>1. IInv => NotifiedImpliesTripped
  BY NotifiedMeansTripped DEF NotifiedImpliesTripped
<1> QED
  BY <1>1, Inductive, PTL

\* No interleaving of poll() with trip() leaves a task asleep on a tripped wire
\* with nobody about to wake it.
THEOREM WakeupsAreNotLost == Spec => []NoLostWakeup
<1>1. IInv => NoLostWakeup
  BY DEF IInv, NoLostWakeup, PollState, SleepersHaveATripper
<1> QED
  BY <1>1, Inductive, PTL

\* A handle that has been Ready is Ready whenever it is polled again.
THEOREM ReadyForEver == Spec => []ReadyStaysReady
<1>1. IInv => ReadyStaysReady
  BY DEF IInv, ReadyStaysReady, PassedState
<1> QED
  BY <1>1, Inductive, PTL

\* The list of waiters never refers to a handle that is gone.
THEOREM ListIsSound == Spec => []ListPointsToLiveEvents
<1>1. IInv => ListPointsToLiveEvents
  BY NoEventAssumption DEF IInv, TypeOK, ListPointsToLiveEvents, ListIsUnnotified, PollState
<1> QED
  BY <1>1, Inductive, PTL

-----------------------------------------------------------------------------
\* The case distinction of the refinement mapping, one handle at a time.
LEMMA WhereCases ==
    ASSUME TypeOK, NEW w \in Wires
    PROVE  /\ pc[w] = "absent" => WhereIs(w) = "absent"
           /\ pc[w] = "dropped" => WhereIs(w) = "dropped"
           /\ pc[w] = "held" => WhereIs(w) = "held"
           /\ pc[w] \notin {"absent", "dropped", "held"} =>
                WhereIs(w) = IF w \in passed THEN "passed" ELSE "waiting"
BY DEF TypeOK, WhereIs, PCs, PollSteps

\* Every step of the wire is a step of the latch, or none of its business.
LEMMA StepsRefine ==
    ASSUME IInv, IInv', [Next]_vars
    PROVE  [TheLatch!Next]_(TheLatch!vars)
<1> DEFINE where == [w \in Wires |-> WhereIs(w)]
<1> USE DEF TheLatch!Next, TheLatch!vars
<1>t. TypeOK /\ TypeOK'
  BY DEF IInv
<1>w. ASSUME NEW w \in Wires
      PROVE  /\ pc'[w] = "absent" => WhereIs(w)' = "absent"
             /\ pc'[w] = "dropped" => WhereIs(w)' = "dropped"
             /\ pc'[w] = "held" => WhereIs(w)' = "held"
             /\ pc'[w] \notin {"absent", "dropped", "held"} =>
                  WhereIs(w)' = IF w \in passed' THEN "passed" ELSE "waiting"
  BY <1>t DEF TypeOK, WhereIs, PCs, PollSteps
\* A step that changes pc and passed at w alone changes the mapping at w alone.
<1>o. ASSUME NEW w \in Wires, NEW v \in Wires, v # w, pc'[v] = pc[v],
             v \in passed' <=> v \in passed
      PROVE  WhereIs(v)' = WhereIs(v)
  BY <1>o DEF WhereIs
<1>1. ASSUME NEW w \in Wires, Clone(w) PROVE TheLatch!Join(w)
  <2>1. WhereIs(w) = "absent" /\ WhereIs(w)' = "held"
    BY <1>1, <1>t, <1>w, WhereCases DEF Clone, TypeOK
  <2>2. \A v \in Wires : v # w => WhereIs(v)' = WhereIs(v)
    BY <1>1, <1>t, <1>o DEF Clone, TypeOK
  <2> QED
    BY <1>1, <2>1, <2>2 DEF Clone, TheLatch!Join
<1>2. ASSUME NEW w \in Wires, BeginPoll(w)
      PROVE  TheLatch!Wait(w) \/ (where' = where /\ tripped' = tripped)
  <2>2. \A v \in Wires : v # w => WhereIs(v)' = WhereIs(v)
    BY <1>2, <1>t, <1>o DEF BeginPoll, TypeOK
  <2>3. CASE pc[w] = "held"
    <3>1. WhereIs(w) = "held" /\ WhereIs(w)' = "waiting"
      BY <1>2, <2>3, <1>t, <1>w, WhereCases DEF BeginPoll, TypeOK, IInv, PassedState
    <3> QED
      BY <1>2, <2>2, <3>1 DEF BeginPoll, TheLatch!Wait
  <2>4. CASE pc[w] \in {"pending", "ready"}
    <3>1. WhereIs(w)' = WhereIs(w)
      BY <1>2, <2>4, <1>t, <1>w, WhereCases DEF BeginPoll, TypeOK
    <3> QED
      BY <1>2, <2>2, <3>1 DEF BeginPoll
  <2> QED
    BY <1>2, <2>3, <2>4 DEF BeginPoll
\* A poll returns Ready on a tripped wire only.
<1>3. ASSUME NEW w \in Wires, Poll(w)
      PROVE  TheLatch!Pass(w) \/ (where' = where /\ tripped' = tripped)
  <2>1. /\ pc[w] \in PollSteps
        /\ pc' = [pc EXCEPT ![w] = pc'[w]]
        /\ pc'[w] \in {"subscribe", "event", "recheck", "pending", "ready"}
        /\ tripped' = tripped
        /\ \/ passed' = passed
           \/ tripped /\ passed' = passed \cup {w}
    BY <1>3, <1>t, NotifiedMeansTripped
       DEF Poll, Check, Subscribe, PollEvent, Recheck, ReturnReady, PollSteps, TypeOK
  <2>2. \A v \in Wires : v # w => WhereIs(v)' = WhereIs(v)
    BY <2>1, <1>t, <1>o DEF TypeOK
  <2>3. CASE passed' = passed \/ w \in passed
    <3>1. WhereIs(w)' = WhereIs(w)
      BY <2>1, <2>3, <1>t, <1>w, WhereCases DEF PollSteps
    <3> QED
      BY <2>1, <2>2, <3>1
  <2>4. CASE passed' # passed /\ w \notin passed
    <3>1. WhereIs(w) = "waiting" /\ WhereIs(w)' = "passed"
      BY <2>1, <2>4, <1>t, <1>w, WhereCases DEF PollSteps
    <3> QED
      BY <2>1, <2>2, <2>4, <3>1 DEF TheLatch!Pass
  <2> QED
    BY <2>3, <2>4
<1>4. ASSUME NEW w \in Wires, Drop(w) PROVE TheLatch!Leave(w)
  <2>1. WhereIs(w) \in {"held", "waiting", "passed"} /\ WhereIs(w)' = "dropped"
    BY <1>4, <1>t, <1>w, WhereCases DEF Drop, TypeOK
  <2>2. \A v \in Wires : v # w => WhereIs(v)' = WhereIs(v)
    BY <1>4, <1>t, <1>o DEF Drop, TypeOK
  <2> QED
    BY <1>4, <2>1, <2>2 DEF Drop, TheLatch!Leave
<1>5. ASSUME NEW t \in Trippers, Store(t) PROVE TheLatch!Set
  BY <1>5 DEF Store, TheLatch!Set, WhereIs
<1>6. ASSUME NEW t \in Trippers, NotifyWaiters(t)
      PROVE  where' = where /\ tripped' = tripped
  BY <1>6 DEF NotifyWaiters, WhereIs
<1>7. CASE UNCHANGED vars
  BY <1>7 DEF vars, WhereIs
<1> QED
  BY <1>1, <1>2, <1>3, <1>4, <1>5, <1>6, <1>7 DEF Next

\* The wire implements the latch's safety: whoever gets through gets through
\* after trip(), and a wire once tripped stays tripped.
THEOREM WireIsLatch == Spec => ImplementsLatchSafety
<1>1. Init => TheLatch!Init
  BY DEF Init, TheLatch!Init, WhereIs
<1> QED
  BY <1>1, StepsRefine, Inductive, PTL DEF Spec, ImplementsLatchSafety
=============================================================================
