----------------------------- MODULE LocalCache -----------------------------
(***************************************************************************)
(* core/lib/src/request/request.rs: the request-local cache.               *)
(*                                                                         *)
(* Callers on behalf of one request (guards, fairings, a responder) may    *)
(* overlap, be it as futures that are joined or as threads: `&Request` can *)
(* be shared.  A caller looks for the value of a type, makes one if there  *)
(* is none, which may suspend it, fail by a panic or be cancelled, stores  *)
(* it and reads the cell again.  The cell is a Container of crate `state`, *)
(* which keeps the first value that is stored.                             *)
(***************************************************************************)
EXTENDS Naturals

CONSTANTS
    Callers,
    None,
    MaxCalls    \* bound: calls of one caller

ASSUME MaxCallsAssumption == MaxCalls \in Nat
ASSUME NoneAssumption == None \notin Callers \X (1 .. MaxCalls)

VARIABLES
    cell,       \* the value stored for the type
    pc,
    calls,      \* caller -> calls made
    made,       \* caller -> the value its closure or future has produced
    got,        \* all references that were returned
    runs        \* history: the calls whose closure or future was run to its end

vars == <<cell, pc, calls, made, got, runs>>

Call(c) == <<c, calls[c]>>

Init ==
    /\ cell = None /\ got = {} /\ runs = {}
    /\ pc = [c \in Callers |-> "idle"]
    /\ calls = [c \in Callers |-> 0]
    /\ made = [c \in Callers |-> None]

Enter(c) ==
    /\ pc[c] = "idle" /\ calls[c] < MaxCalls
    /\ pc' = [pc EXCEPT ![c] = "look"]
    /\ calls' = [calls EXCEPT ![c] = @ + 1]
    /\ made' = [made EXCEPT ![c] = None]
    /\ UNCHANGED <<cell, got, runs>>

\* try_get(): the value that is there is returned, or one is made.
Look(c) ==
    /\ pc[c] = "look"
    /\ IF cell # None
       THEN pc' = [pc EXCEPT ![c] = "idle"] /\ got' = got \cup {[by |-> Call(c), value |-> cell]}
       ELSE pc' = [pc EXCEPT ![c] = "make"] /\ UNCHANGED got
    /\ UNCHANGED <<cell, calls, made, runs>>

\* f(), or fut.await; each makes a value of its own.
Make(c) ==
    /\ pc[c] = "make"
    /\ pc' = [pc EXCEPT ![c] = "set"]
    /\ made' = [made EXCEPT ![c] = Call(c)]
    /\ runs' = runs \cup {Call(c)}
    /\ UNCHANGED <<cell, calls, got>>

\* The future is dropped, or f() panics.
Abandon(c) ==
    /\ pc[c] = "make"
    /\ pc' = [pc EXCEPT ![c] = "idle"]
    /\ UNCHANGED <<cell, calls, made, got, runs>>

Set(c) ==
    /\ pc[c] = "set"
    /\ cell' = IF cell = None THEN made[c] ELSE cell
    /\ pc' = [pc EXCEPT ![c] = "get"]
    /\ UNCHANGED <<calls, made, got, runs>>

\* Mutant: what was made is returned, not what is in the cell.
GetOwn(c) ==
    /\ pc[c] = "get"
    /\ got' = got \cup {[by |-> Call(c), value |-> made[c]]}
    /\ pc' = [pc EXCEPT ![c] = "idle"]
    /\ UNCHANGED <<cell, calls, made, runs>>

Get(c) ==
    /\ pc[c] = "get"
    /\ got' = got \cup {[by |-> Call(c), value |-> cell]}
    /\ pc' = [pc EXCEPT ![c] = "idle"]
    /\ UNCHANGED <<cell, calls, made, runs>>

Next == \E c \in Callers : Enter(c) \/ Look(c) \/ Make(c) \/ Abandon(c) \/ Set(c) \/ Get(c)

Spec == Init /\ [][Next]_vars

-----------------------------------------------------------------------------
(* Properties                                                              *)

States == {"idle", "look", "make", "set", "get"}

TypeOK ==
    /\ pc \in [Callers -> States]
    /\ calls \in [Callers -> 0 .. MaxCalls]
    /\ \A c \in Callers : pc[c] # "idle" => calls[c] > 0
    /\ made \in [Callers -> (Callers \X (1 .. MaxCalls)) \cup {None}]

\* Inductive, and why the first store wins: whoever is about to read the cell finds it full, whoever
\* is about to fill it has a value, and what was returned is still in it.
CellIsKept ==
    /\ cell # None => cell \in runs
    /\ \A c \in Callers : pc[c] = "set" => made[c] \in runs /\ made[c] # None
    /\ \A c \in Callers : pc[c] = "get" => cell # None
    /\ \A x \in got : cell # None /\ x.value = cell

IInv == TypeOK /\ CellIsKept

\* request.rs:862: "The first store into local cache for a given type wins": all
\* callers of one request get the same value, and one that was made for the request.
FirstStoreWins ==
    /\ \A x, y \in got : x.value = y.value
    /\ \A x \in got : x.value \in runs

=============================================================================
