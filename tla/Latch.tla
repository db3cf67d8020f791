------------------------------- MODULE Latch -------------------------------
(***************************************************************************)
(* What a trip wire promises the rest of the server: a one-way latch.      *)
(* Handles wait for it; once it is set it stays set, no handle is let      *)
(* through before, and every handle that is waiting is let through.        *)
(***************************************************************************)
CONSTANT Wires

VARIABLES
    set,        \* TRUE once the latch has been set
    where       \* where[w]: what has become of handle w

vars == <<set, where>>

Places == {"absent", "held", "waiting", "passed", "dropped"}

TypeOK ==
    /\ set \in BOOLEAN
    /\ where \in [Wires -> Places]

Init ==
    /\ set = FALSE
    /\ where \in [Wires -> {"absent", "held"}]

\* The latch is set; setting it again changes nothing.
Set ==
    /\ set' = TRUE
    /\ UNCHANGED where

\* A new handle is made from an existing one.
Join(w) ==
    /\ where[w] = "absent"
    /\ where' = [where EXCEPT ![w] = "held"]
    /\ UNCHANGED set

\* The owner of a handle starts to wait.
Wait(w) ==
    /\ where[w] = "held"
    /\ where' = [where EXCEPT ![w] = "waiting"]
    /\ UNCHANGED set

\* A waiting handle is let through, which happens only when the latch is set.
Pass(w) ==
    /\ set
    /\ where[w] = "waiting"
    /\ where' = [where EXCEPT ![w] = "passed"]
    /\ UNCHANGED set

\* The owner gives the handle up.
Leave(w) ==
    /\ where[w] \in {"held", "waiting", "passed"}
    /\ where' = [where EXCEPT ![w] = "dropped"]
    /\ UNCHANGED set

Next ==
    \/ Set
    \/ \E w \in Wires : Join(w) \/ Wait(w) \/ Pass(w) \/ Leave(w)

Spec == Init /\ [][Next]_vars /\ \A w \in Wires : WF_vars(Pass(w))
=============================================================================
