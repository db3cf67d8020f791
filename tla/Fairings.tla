------------------------------ MODULE Fairings ------------------------------
(***************************************************************************)
(* core/lib/src/fairing/fairings.rs: the fairings attached to an           *)
(* application.  `all_fairings` only grows; one vector of indices per kind *)
(* of callback says which fairings are active.  Attaching a singleton      *)
(* deactivates the fairings of its type.  Ignition runs the ignite         *)
(* fairings in batches: a fairing may attach others while it runs; these   *)
(* collect in a fresh Fairings, which is appended when the batch is over.  *)
(*                                                                         *)
(* What an ignite fairing does is external: it attaches any fairings and   *)
(* returns Ok or Err.                                                      *)
(***************************************************************************)
EXTENDS Naturals, Sequences

CONSTANTS
    Fairing,    \* fairings an application may attach: [type, kinds, singleton]
    Kinds,      \* kinds of callbacks; "ignite" is one
    MaxAttached \* bound: calls of attach()

ASSUME FairingAssumption ==
    /\ "ignite" \in Kinds
    /\ \A f \in Fairing : f = [type |-> f.type, kinds |-> f.kinds, singleton |-> f.singleton]
                          /\ f.kinds \subseteq Kinds /\ f.singleton \in BOOLEAN
ASSUME MaxAttachedAssumption == MaxAttached \in Nat

VARIABLES
    fs,         \* the Fairings of the application
    fresh,      \* rocket.fairings while a batch runs
    attached,   \* number of calls of attach() so far
    phase,      \* what the application is doing
    ran,        \* history: the indices whose on_ignite has returned, in order
    errors      \* history: on_ignite has returned Err

vars == <<fs, fresh, attached, phase, ran, errors>>

\* A value of the struct: all_fairings, failures (how many), num_ignited, and
\* the index vectors, by kind.
NoFairings ==
    [all |-> <<>>, failures |-> 0, num_ignited |-> 0, active |-> [k \in Kinds |-> <<>>]]

Phases == {"build", "between", "running", "appending", "done", "ignited", "failed"}

Elems(s) == {s[n] : n \in DOMAIN s}

\* Fairings::unique_active
Active(f) == UNION {Elems(f.active[k]) : k \in Kinds}

WellFormed(f) ==
    /\ f \in [all : Seq(Fairing), failures : Nat, num_ignited : Nat, active : [Kinds -> Seq(Nat)]]
    /\ f.num_ignited <= Len(f.active["ignite"])
    /\ \A k \in Kinds : \A n \in DOMAIN f.active[k] : f.active[k][n] \in 1 .. Len(f.all)

TypeOK ==
    /\ WellFormed(fs)
    /\ WellFormed(fresh)
    /\ phase \in Phases
    /\ ran \in Seq(Nat)
    /\ errors \in BOOLEAN

-----------------------------------------------------------------------------
\* `remove(i, &mut vector)` for every i in S.
Without(s, S) ==
    LET kept[n \in 0 .. Len(s)] ==
            IF n = 0 THEN <<>>
            ELSE IF s[n] \in S THEN kept[n - 1] ELSE Append(kept[n - 1], s[n])
    IN kept[Len(s)]

\* The active fairings of the type of x.
Dups(f, x) == {i \in Active(f) : f.all[i].type = x.type}

\* A duplicate has run on ignite already: the first one listed is enough, since
\* the vector is in the order in which its fairings run.
DupIgnited(f, x) ==
    \E n \in 1..f.num_ignited : f.all[f.active["ignite"][n]].type = x.type

\* The fairing is pushed and listed under each of its kinds.
Push(f, x) ==
    [f EXCEPT !.all = Append(f.all, x),
              !.active = [k \in Kinds |->
                  IF k \in x.kinds THEN Append(f.active[k], Len(f.all) + 1) ELSE f.active[k]]]

\* Mistake: a duplicate that has run is replaced like any other.
AddAlwaysReplaces(f, x) ==
    IF x.singleton
    THEN Push([f EXCEPT !.active = [k \in Kinds |-> Without(f.active[k], Dups(f, x))]], x)
    ELSE Push(f, x)

\* Fairings::add
Add(f, x) ==
    IF x.singleton /\ DupIgnited(f, x) THEN [f EXCEPT !.failures = @ + 1]
    ELSE IF x.singleton
    THEN Push([f EXCEPT !.active = [k \in Kinds |-> Without(f.active[k], Dups(f, x))]], x)
    ELSE Push(f, x)

-----------------------------------------------------------------------------
Init ==
    /\ fs = NoFairings
    /\ fresh = NoFairings
    /\ attached = 0
    /\ phase = "build"
    /\ ran = <<>>
    /\ errors = FALSE

\* Rocket::attach, by the application ...
Attach(x) ==
    /\ phase = "build"
    /\ attached < MaxAttached
    /\ fs' = Add(fs, x)
    /\ attached' = attached + 1
    /\ UNCHANGED <<fresh, phase, ran, errors>>

\* ... or by an ignite fairing while it runs.
AttachWhileRunning(x) ==
    /\ phase = "running"
    /\ attached < MaxAttached
    /\ fresh' = Add(fresh, x)
    /\ attached' = attached + 1
    /\ UNCHANGED <<fs, phase, ran, errors>>

\* Rocket::ignite calls handle_ignite.
Ignite ==
    /\ phase = "build"
    /\ phase' = "between"
    /\ UNCHANGED <<fs, fresh, attached, ran, errors>>

\* `while num_ignited < ignite.len()`: take the fairings away and run a batch.
BeginBatch ==
    /\ phase = "between"
    /\ fs.num_ignited < Len(fs.active["ignite"])
    /\ fresh' = NoFairings
    /\ phase' = "running"
    /\ UNCHANGED <<fs, attached, ran, errors>>

\* Mistake: an Err is not recorded.
ReturnIgnoresErr(ok) ==
    /\ phase = "running"
    /\ fs' = [fs EXCEPT !.num_ignited = @ + 1]
    /\ ran' = Append(ran, fs.active["ignite"][fs.num_ignited + 1])
    /\ errors' = (errors \/ ~ok)
    /\ phase' = IF fs.num_ignited + 1 < Len(fs.active["ignite"]) THEN "running" ELSE "appending"
    /\ UNCHANGED <<fresh, attached>>

\* on_ignite of the fairing that runs returns; after the last one of the batch
\* what has been attached meanwhile is moved to the end.
Return(ok) ==
    /\ phase = "running"
    /\ fs' = [fs EXCEPT !.num_ignited = @ + 1,
                        !.failures = IF ok THEN @ ELSE @ + 1]
    /\ ran' = Append(ran, fs.active["ignite"][fs.num_ignited + 1])
    /\ errors' = (errors \/ ~ok)
    /\ phase' = IF fs.num_ignited + 1 < Len(fs.active["ignite"]) THEN "running" ELSE "appending"
    /\ UNCHANGED <<fresh, attached>>

\* Fairings::append, one element of all_fairings.drain(..) at a time: the ones
\* that a later singleton had replaced are in there too.
AppendOne ==
    /\ phase = "appending"
    /\ fresh.all # <<>>
    /\ fs' = Add(fs, Head(fresh.all))
    /\ fresh' = [NoFairings EXCEPT !.all = Tail(fresh.all)]
    /\ UNCHANGED <<attached, phase, ran, errors>>

\* `rocket.fairings = fairings`
EndBatch ==
    /\ phase = "appending"
    /\ fresh.all = <<>>
    /\ fresh' = NoFairings
    /\ phase' = "between"
    /\ UNCHANGED <<fs, attached, ran, errors>>

\* The condition of the loop no longer holds.
EndIgnite ==
    /\ phase = "between"
    /\ fs.num_ignited >= Len(fs.active["ignite"])
    /\ phase' = "done"
    /\ UNCHANGED <<fs, fresh, attached, ran, errors>>

\* `self.fairings.audit()`
Audit ==
    /\ phase = "done"
    /\ phase' = IF fs.failures = 0 THEN "ignited" ELSE "failed"
    /\ UNCHANGED <<fs, fresh, attached, ran, errors>>

Next ==
    \/ \E x \in Fairing : Attach(x) \/ AttachWhileRunning(x)
    \/ Ignite
    \/ BeginBatch
    \/ \E ok \in BOOLEAN : Return(ok)
    \/ AppendOne
    \/ EndBatch
    \/ EndIgnite
    \/ Audit

-----------------------------------------------------------------------------
Increasing(s) == \A m, n \in DOMAIN s : m < n => s[m] < s[n]

\* The fairings that have run are the first num_ignited of the ignite vector:
\* nothing that has run is removed or moved by what is attached later, so that
\* the count says where to resume and every fairing runs once.  And every vector
\* of indices is sorted, in the fairings that are collected during ignition too:
\* `remove` finds an index with a binary search.
RanIsPrefix ==
    /\ ran = SubSeq(fs.active["ignite"], 1, fs.num_ignited)
    /\ \A k \in Kinds : Increasing(fs.active[k]) /\ Increasing(fresh.active[k])

-----------------------------------------------------------------------------
(* The inductive invariant behind it                                       *)

Sound(f) == WellFormed(f) /\ \A k \in Kinds : Increasing(f.active[k])

FairingsInv ==
    /\ phase \in Phases
    /\ Sound(fs) /\ Sound(fresh)
    /\ ran \in Seq(Nat) /\ Len(ran) = fs.num_ignited
    /\ \A n \in 1 .. Len(ran) : ran[n] = fs.active["ignite"][n]
    /\ phase = "running" => fs.num_ignited < Len(fs.active["ignite"])
    /\ phase \in {"done", "ignited", "failed"} => fs.num_ignited = Len(fs.active["ignite"])
    /\ errors => fs.failures > 0
    /\ phase = "ignited" => fs.failures = 0
=============================================================================
