------------------------------ MODULE Ignition ------------------------------
(***************************************************************************)
(* Rocket::ignite in core/lib/src/rocket.rs, with managed state and        *)
(* sentinels (core/lib/src/sentinel.rs), on top of Fairings: the           *)
(* application, and its ignite fairings while they run, attach fairings,   *)
(* mount routes and manage state; ignition then audits the fairings, reads *)
(* the configuration, finalizes the router, freezes the state and queries  *)
(* the sentinels of every route.                                           *)
(*                                                                         *)
(* A sentinel type stands for a type in the signature of a handler; some   *)
(* (&State<T>, a database connection, a template) refuse to launch without *)
(* their managed state.  Type parameters are children of the type they     *)
(* appear in.  Which routes collide is the subject of module Router and a  *)
(* parameter here; what the figment holds is external.                     *)
(***************************************************************************)
EXTENDS Fairings, FiniteSets, SequencesExt

CONSTANTS
    Routes,         \* routes that may be mounted
    Colliding,      \* pairs of routes that collide
    Sentries,       \* the sentinels of the routes: [route, type, parent]
    NoParent,       \* the parent of a sentinel for a whole argument
    Specialized,    \* types that implement Sentinel
    Needs,          \* the state a specialized type needs, or None
    None,
    StateTypes      \* types of managed state

ASSUME IgnitionAssumption ==
    /\ IsFiniteSet(Sentries)
    /\ \A s \in Sentries : s.route \in Routes
    /\ Colliding \subseteq SUBSET Routes
    /\ None \notin StateTypes /\ Needs \in [Specialized -> StateTypes \cup {None}]

VARIABLES
    stage,      \* how far ignite() has come, or the kind of its error
    mounted,    \* Building::routes
    state,      \* the managed types: the TypeMap
    key,        \* the secret key of the configuration
    remaining,  \* sentinel::query: the queue
    map,        \* types whose children are still in the map
    visited,    \* types that have been asked, and their answers
    aborted     \* the sentinels that asked to abort

query == <<remaining, map, visited, aborted>>
app == <<mounted, state>>
ivars == <<vars, stage, app, key, query>>

\* SecretKey: from the figment, made up, or all zero
Keys == {"provided", "generated", "zero"}

Parents == {s.parent : s \in Sentries} \ {NoParent}

IgnitionTypeOK ==
    /\ TypeOK
    /\ stage \in {"fairings", "config", "router", "sentinels", "ready", "panicked",
                  "FailedFairings", "Config", "InsecureSecretKey", "Collisions", "SentinelAborts"}
    /\ mounted \subseteq Routes /\ state \subseteq StateTypes
    /\ key \in Keys \cup {"unknown"}
    /\ remaining \in Seq(Sentries)
    /\ map \subseteq Parents /\ visited \in SUBSET (Specialized \X BOOLEAN) /\ aborted \subseteq Sentries

IgnitionInit ==
    /\ Init
    /\ stage = "fairings" /\ mounted = {} /\ state = {} /\ key = "unknown"
    /\ remaining = <<>> /\ map = {} /\ visited = {} /\ aborted = {}

-----------------------------------------------------------------------------
\* The application may be changed until it ignites, and by ignite fairings.
Building == stage = "fairings" /\ phase \in {"build", "running"}

\* Rocket::mount
Mount(r) ==
    /\ Building /\ r \notin mounted
    /\ mounted' = mounted \cup {r}
    /\ UNCHANGED <<vars, stage, state, key, query>>

\* Rocket::manage: a second value of one type panics.
Manage(t) ==
    /\ Building
    /\ IF t \in state THEN stage' = "panicked" ELSE UNCHANGED stage
    /\ state' = state \cup {t}
    /\ UNCHANGED <<vars, mounted, key, query>>

\* Rocket::attach, Fairings::handle_ignite and the audit are steps of Fairings.
RunFairings ==
    /\ stage = "fairings" /\ Next
    /\ stage' = CASE phase' = "ignited" -> "config"
                  [] phase' = "failed" -> "FailedFairings"
                  [] OTHER -> stage
    /\ UNCHANGED <<app, key, query>>

\* The configuration is extracted, and checked for a secret key: one must be
\* provided outside of the debug profile; there a zero one is made up, if the
\* system has randomness.
Configure(valid, debug, found, random) ==
    /\ stage = "config"
    /\ stage' = IF ~valid THEN "Config"
                ELSE IF found # "provided" /\ ~debug THEN "InsecureSecretKey"
                ELSE "router"
    /\ key' = IF stage' # "router" THEN key
              ELSE IF found = "zero" /\ random THEN "generated" ELSE found
    /\ UNCHANGED <<vars, app, query>>

\* The sentinels of the mounted routes
Sentinels == {s \in Sentries : s.route \in mounted}

\* Router::finalize, and the graph of the sentinels
FinalizeRouter ==
    /\ stage = "router"
    /\ stage' = IF \E pair \in Colliding : pair \subseteq mounted THEN "Collisions" ELSE "sentinels"
    /\ remaining' = SetToSeq({s \in Sentinels : s.parent = NoParent})
    /\ map' = {s.parent : s \in Sentinels} \ {NoParent}
    /\ UNCHANGED <<vars, app, key, visited, aborted>>

-----------------------------------------------------------------------------
(* sentinel::query, after the graph has been built: the roots are in the   *)
(* queue, the other sentinels in the map, under the type of their parent.  *)

Children(type) == {s \in Sentinels : s.parent = type}

\* Sentinel::abort of State, of a database connection, of a template
Abort(type) == Needs[type] # None /\ Needs[type] \notin state

\* Children that were found through another argument are not visited.
QueryForgetsChildren ==
    /\ stage = "sentinels" /\ remaining # <<>>
    /\ LET s == Head(remaining) IN
       IF s.type \in Specialized
       THEN /\ visited' = visited \cup {<<s.type, Abort(s.type)>>}
            /\ aborted' = aborted \cup (IF Abort(s.type) THEN {s} ELSE {})
            /\ remaining' = Tail(remaining)
       ELSE /\ remaining' = Tail(remaining)
            /\ UNCHANGED <<visited, aborted>>
    /\ UNCHANGED <<vars, stage, app, key, map>>

\* One turn of the loop: a specialized type is asked, once; any other type is
\* replaced by its children, which leave the map.
QueryOne ==
    /\ stage = "sentinels" /\ remaining # <<>>
    /\ LET s == Head(remaining) IN
       IF s.type \in Specialized
       THEN /\ visited' = visited \cup {<<s.type, Abort(s.type)>>}
            /\ aborted' = aborted \cup (IF Abort(s.type) THEN {s} ELSE {})
            /\ UNCHANGED map
            /\ remaining' = Tail(remaining)
       ELSE /\ remaining' = Tail(remaining) \o
                   (IF s.type \in map THEN SetToSeq(Children(s.type)) ELSE <<>>)
            /\ map' = map \ {s.type}
            /\ UNCHANGED <<visited, aborted>>
    /\ UNCHANGED <<vars, stage, app, key>>

EndQuery ==
    /\ stage = "sentinels" /\ remaining = <<>>
    /\ stage' = IF aborted = {} THEN "ready" ELSE "SentinelAborts"
    /\ UNCHANGED <<vars, app, key, query>>

-----------------------------------------------------------------------------
IgnitionNext ==
    \/ \E r \in Routes : Mount(r)
    \/ \E t \in StateTypes : Manage(t)
    \/ RunFairings
    \/ \E valid, debug, random \in BOOLEAN, found \in Keys : Configure(valid, debug, found, random)
    \/ FinalizeRouter
    \/ QueryOne
    \/ EndQuery

IgnitionSpec == IgnitionInit /\ [][IgnitionNext]_ivars

-----------------------------------------------------------------------------
\* Of the sentinels T, those that have to be asked: the arguments themselves, and
\* what is inside of types that do not decide on their own.
Closed(S, T) ==
    \A s \in T : /\ s.parent = NoParent => s \in S
                 /\ \A p \in S : p.type = s.parent /\ p.type \notin Specialized => s \in S

Asked(T) == {s \in T : \A S \in SUBSET T : Closed(S, T) => s \in S}

\* The types in the handlers of r that a request will have to get past
Guarded(r) == Asked({s \in Sentries : s.route = r})

\* The search finds, and reports, exactly the sentinels that abort among those to
\* be asked in the merged graph of all routes: no edge that it has removed and no
\* answer that it has remembered hides one.  A type that one route hides inside a
\* sentinel is asked if another route leads to it.
QueryIsExact ==
    stage \in {"ready", "SentinelAborts"} =>
        aborted = {s \in Asked(Sentinels) : s.type \in Specialized /\ Abort(s.type)}

\* A rocket that ignited: exactly its active ignite fairings have run, in order,
\* none failed, none of its routes collide, and no handler asks for state that
\* nobody manages, whether the application or one of its fairings was to do it.
ReadyIsSafe ==
    stage = "ready" =>
        /\ ran = fs.active["ignite"] /\ ~errors
        /\ \A pair \in Colliding : ~(pair \subseteq mounted)
        /\ \A r \in mounted : \A s \in Guarded(r) :
              s.type \in Specialized => Needs[s.type] \in state \cup {None}

-----------------------------------------------------------------------------
(* The inductive invariant behind these                                    *)

\* s is still in the queue or, if it decides, its answer is known; if not, what is
\* inside of it is no longer in the map.
Dealt(s) ==
    \/ \E n \in DOMAIN remaining : remaining[n] = s
    \/ s.type \in Specialized /\ (Abort(s.type) => s \in aborted)
    \/ s.type \notin Specialized /\ s.type \notin map

Queried == stage \in {"sentinels", "ready", "SentinelAborts"}

QueryInv ==
    /\ stage \in {"fairings", "config", "router"} => aborted = {}
    /\ stage \in {"ready", "SentinelAborts"} => remaining = <<>>
    /\ NoParent \notin map
    /\ Queried =>
          /\ remaining \in Seq(Asked(Sentinels))
          /\ aborted \subseteq {s \in Asked(Sentinels) : s.type \in Specialized /\ Abort(s.type)}
          /\ \A s \in Sentinels : s.parent \notin map => Dealt(s)

StageInv ==
    /\ stage \notin {"fairings", "panicked", "FailedFairings"} => phase = "ignited"
    /\ Queried => \A pair \in Colliding : ~(pair \subseteq mounted)
    /\ stage = "ready" => aborted = {}

IInv == FairingsInv /\ StageInv /\ QueryInv
=============================================================================
