------------------------------ MODULE TripWire ------------------------------
(***************************************************************************)
(* core/lib/src/shutdown/tripwire.rs: the future every part of the server  *)
(* waits on to learn that a stage of the shutdown has begun.  Handles of   *)
(* one wire share a State {tripped, notify}; each has its own `event`.     *)
(*                                                                         *)
(* A handle is polled by one task at a time.  Each atomic access a poll    *)
(* makes is a step of its own, so that polls of different handles and      *)
(* calls of trip() interleave between any two of them.                     *)
(*                                                                         *)
(* tokio's Notify is external.  notify_waiters() takes the list's lock, so *)
(* it is one step, which counts the call and wakes every registered        *)
(* waiter; a Notified remembers the count at its creation and is ready     *)
(* once the count has changed.                                             *)
(***************************************************************************)
EXTENDS Naturals

CONSTANTS
    Wires,      \* handles of the one wire
    Trippers,   \* calls of trip(), by any thread
    NoEvent     \* the None of `event`

ASSUME NoEventAssumption == NoEvent \notin Nat

VARIABLES
    tripped,    \* State.tripped
    calls,      \* State.notify: completed calls of notify_waiters()
    event,      \* event[w]: NoEvent, or the count its Notified has captured
    registered, \* handles whose Notified is in the list of waiters
    pc,         \* pc[w]: where the poll of w stands
    woken,      \* handles whose task has been scheduled to poll them
    tpc,        \* tpc[t]: where the call t of trip() stands
    passed      \* history: handles some poll has returned Ready for

vars == <<tripped, calls, event, registered, pc, woken, tpc, passed>>

\* absent: not cloned yet; held: never polled; the next four: inside poll(),
\* before the named step; pending, ready: what the last poll returned.
PollSteps == {"check", "subscribe", "event", "recheck"}
PCs == {"absent", "held", "pending", "ready", "dropped"} \cup PollSteps

TypeOK ==
    /\ tripped \in BOOLEAN
    /\ calls \in Nat
    /\ event \in [Wires -> 0..calls \cup {NoEvent}]
    /\ registered \in SUBSET Wires
    /\ pc \in [Wires -> PCs]
    /\ woken \in SUBSET Wires
    /\ tpc \in [Trippers -> {"call", "stored", "returned"}]
    /\ passed \in SUBSET Wires

-----------------------------------------------------------------------------
\* TripWire::new, with some of its clones already made.
Init ==
    /\ tripped = FALSE
    /\ calls = 0
    /\ event = [w \in Wires |-> NoEvent]
    /\ registered = {}
    /\ pc \in [Wires -> {"absent", "held"}]
    /\ woken = {}
    /\ tpc = [t \in Trippers |-> "call"]
    /\ passed = {}

\* Clone::clone: the state is shared, the event is not.
Clone(w) ==
    /\ pc[w] = "absent"
    /\ \E v \in Wires : pc[v] \notin {"absent", "dropped"}
    /\ pc' = [pc EXCEPT ![w] = "held"]
    /\ UNCHANGED <<tripped, calls, event, registered, woken, tpc, passed>>

\* The task that owns w polls it: because it was woken, or because something
\* else it waits on (the other side of a select) was.  A handle that has been
\* ready may be polled again.
BeginPoll(w) ==
    /\ pc[w] \in {"held", "pending", "ready"}
    /\ pc' = [pc EXCEPT ![w] = "check"]
    /\ woken' = woken \ {w}
    /\ UNCHANGED <<tripped, calls, event, registered, tpc, passed>>

\* Dropping (or having taken) a Notified removes it from the list.
ReturnReady(w) ==
    /\ event' = [event EXCEPT ![w] = NoEvent]
    /\ registered' = registered \ {w}
    /\ pc' = [pc EXCEPT ![w] = "ready"]
    /\ passed' = passed \cup {w}

\* `if self.tripped() { self.event = None; return Ready }`
Check(w) ==
    /\ pc[w] = "check"
    /\ IF tripped THEN ReturnReady(w)
       ELSE /\ pc' = [pc EXCEPT ![w] = IF event[w] = NoEvent THEN "subscribe"
                                                             ELSE "event"]
            /\ UNCHANGED <<event, registered, passed>>
    /\ UNCHANGED <<tripped, calls, woken, tpc>>

\* `self.state.notify.notified()`: captures the number of calls.
Subscribe(w) ==
    /\ pc[w] = "subscribe"
    /\ event' = [event EXCEPT ![w] = calls]
    /\ pc' = [pc EXCEPT ![w] = "event"]
    /\ UNCHANGED <<tripped, calls, registered, woken, tpc, passed>>

\* A Notified is ready once notify_waiters() was called after its creation.
Notified(w) == event[w] # NoEvent /\ event[w] # calls

\* `event.as_mut().poll(cx).is_ready()`: ready, or registers the task's waker.
PollEvent(w) ==
    /\ pc[w] = "event"
    /\ IF Notified(w) THEN ReturnReady(w)
       ELSE /\ registered' = registered \cup {w}
            /\ pc' = [pc EXCEPT ![w] = "recheck"]
            /\ UNCHANGED <<event, passed>>
    /\ UNCHANGED <<tripped, calls, woken, tpc>>

\* Mistake: no second look at the flag.
RecheckForgotten(w) ==
    /\ pc[w] = "recheck"
    /\ pc' = [pc EXCEPT ![w] = "pending"]
    /\ UNCHANGED <<tripped, calls, event, registered, woken, tpc, passed>>

\* `|| self.tripped()`
Recheck(w) ==
    /\ pc[w] = "recheck"
    /\ IF tripped THEN ReturnReady(w)
       ELSE /\ pc' = [pc EXCEPT ![w] = "pending"]
            /\ UNCHANGED <<event, registered, passed>>
    /\ UNCHANGED <<tripped, calls, woken, tpc>>

\* Mistake: the handle goes away with its event still in the list.
DropKeepsEvent(w) ==
    /\ pc[w] \in {"held", "pending", "ready"}
    /\ pc' = [pc EXCEPT ![w] = "dropped"]
    /\ woken' = woken \ {w}
    /\ UNCHANGED <<tripped, calls, event, registered, tpc, passed>>

\* Drop::drop
Drop(w) ==
    /\ pc[w] \in {"held", "pending", "ready"}
    /\ event' = [event EXCEPT ![w] = NoEvent]
    /\ registered' = registered \ {w}
    /\ pc' = [pc EXCEPT ![w] = "dropped"]
    /\ woken' = woken \ {w}
    /\ UNCHANGED <<tripped, calls, tpc, passed>>

\* trip(): `self.tripped.store(true)`, by a holder of a handle ...
Store(t) ==
    /\ tpc[t] = "call"
    /\ tripped' = TRUE
    /\ tpc' = [tpc EXCEPT ![t] = "stored"]
    /\ UNCHANGED <<calls, event, registered, pc, woken, passed>>

\* Mistake: notify_one() in the place of notify_waiters().
NotifyOne(t) ==
    /\ tpc[t] = "stored"
    /\ \/ /\ registered = {}
          /\ UNCHANGED <<registered, woken>>
       \/ \E w \in registered : /\ woken' = woken \cup {w}
                               /\ registered' = registered \ {w}
    /\ tpc' = [tpc EXCEPT ![t] = "returned"]
    /\ UNCHANGED <<tripped, calls, event, pc, passed>>

\* ... then `self.notify.notify_waiters()`.
NotifyWaiters(t) ==
    /\ tpc[t] = "stored"
    /\ calls' = calls + 1
    /\ woken' = woken \cup registered
    /\ registered' = {}
    /\ tpc' = [tpc EXCEPT ![t] = "returned"]
    /\ UNCHANGED <<tripped, event, pc, passed>>

Poll(w) == Check(w) \/ Subscribe(w) \/ PollEvent(w) \/ Recheck(w)

Next ==
    \/ \E w \in Wires : Clone(w) \/ BeginPoll(w) \/ Poll(w) \/ Drop(w)
    \/ \E t \in Trippers : Store(t) \/ NotifyWaiters(t)

\* A poll and a call of trip() that have begun run to their end; the runtime
\* polls a task it was asked to wake.  Nothing else is fair: a handle may never
\* be polled, and trip() may never be called.
Fairness ==
    /\ \A w \in Wires : WF_vars(Poll(w)) /\ WF_vars(w \in woken /\ BeginPoll(w))
    /\ \A t \in Trippers : WF_vars(NotifyWaiters(t))

Spec == Init /\ [][Next]_vars /\ Fairness

-----------------------------------------------------------------------------
\* The comment in poll(), "notified => self.tripped()": a Notified that is ready
\* belongs to a wire that is tripped, so poll() may return Ready without a look
\* at the flag.
NotifiedImpliesTripped ==
    \A w \in Wires : Notified(w) => tripped

\* A task that poll() has sent to sleep on a tripped wire is going to be woken:
\* it has been already, or its waker is in the list and a trip() that has
\* stored the flag has not yet notified the list.
NoLostWakeup ==
    \A w \in Wires :
        pc[w] = "pending" /\ tripped /\ w \notin woken =>
            /\ w \in registered
            /\ \E t \in Trippers : tpc[t] = "stored"

\* "Ensure we drop the self-reference before `self`": what the list of waiters
\* points to is the event of a handle that still exists, and a dropped handle's
\* task is never woken on its behalf.
ListPointsToLiveEvents ==
    /\ \A w \in registered : event[w] # NoEvent /\ pc[w] # "dropped"
    /\ \A w \in woken : pc[w] # "dropped"

\* A handle that has once been Ready never goes back to Pending, however often
\* a select polls it again.
ReadyStaysReady ==
    \A w \in passed : pc[w] # "pending"

\* Refinement: the wire implements the latch, its liveness included.  A handle
\* waits from its first poll on.
WhereIs(w) ==
    CASE pc[w] \in {"absent", "dropped"}            -> pc[w]
      [] pc[w] = "held"                             -> "held"
      [] pc[w] \notin {"absent", "dropped", "held"} ->
            IF w \in passed THEN "passed" ELSE "waiting"

TheLatch == INSTANCE Latch WITH set <- tripped,
                                where <- [w \in Wires |-> WhereIs(w)]

\* The safety half of the refinement: nobody gets through before trip().
ImplementsLatchSafety == TheLatch!Init /\ [][TheLatch!Next]_(TheLatch!vars)

\* Every behaviour of the wire is one of the latch: nobody gets through before
\* trip(), and everybody who waits is let through after it.
ImplementsLatch == TheLatch!Spec

-----------------------------------------------------------------------------
\* The inductive invariant behind the three safety invariants above.

\* The flag is stored before anybody is notified.
FlagBeforeCalls ==
    /\ calls # 0 => tripped
    /\ \A t \in Trippers : tpc[t] # "call" => tripped

\* What is in the list of waiters has been notified of nothing yet.
ListIsUnnotified ==
    \A w \in registered :
        /\ event[w] = calls
        /\ pc[w] \in {"check", "event", "recheck", "pending"}

\* A handle has an event from `subscribe` on, and is in the list or woken from
\* `event` on.
PollState ==
    \A w \in Wires :
        /\ pc[w] \in {"event", "recheck", "pending"} => event[w] # NoEvent
        /\ pc[w] \in {"recheck", "pending"} => w \in registered \cup woken
        /\ pc[w] = "dropped" => w \notin woken

\* Whoever is asleep on a tripped wire waits for a trip() between its two steps.
SleepersHaveATripper ==
    \A w \in Wires :
        pc[w] = "pending" /\ tripped /\ w \notin woken =>
            \E t \in Trippers : tpc[t] = "stored"

\* A handle that has been let through stays on the short path of poll().
PassedState ==
    \A w \in passed : tripped /\ pc[w] \in {"ready", "check", "dropped"}

IInv ==
    /\ TypeOK
    /\ FlagBeforeCalls
    /\ ListIsUnnotified
    /\ PollState
    /\ SleepersHaveATripper
    /\ PassedState
=============================================================================
