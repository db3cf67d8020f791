---------------------------- MODULE MCLifecycle ----------------------------
(***************************************************************************)
(* One request against an application with two routes and up to three      *)
(* catchers; or two requests of one client and the cookies they set.  A    *)
(* behaviour is about one of the two, chosen initially.                    *)
(***************************************************************************)
EXTENDS Lifecycle, Cookies

CONSTANTS r1, r2

VARIABLE part

\* r1 may take any method, r2 is a GET route that ranks below it.
MCTables ==
    {[GET |-> g, HEAD |-> h, POST |-> h] : g \in {<<>>, <<r1>>, <<r1, r2>>}, h \in {<<>>, <<r1>>}}

\* one response of each kind that dispatch() treats differently
MCResponses ==
    {[status |-> 200, body |-> "seekable", upgrade |-> FALSE],
     [status |-> 200, body |-> "unsized", upgrade |-> FALSE],
     [status |-> 200, body |-> "empty", upgrade |-> TRUE],
     [status |-> 304, body |-> "seekable", upgrade |-> FALSE]}

-----------------------------------------------------------------------------
\* In a behaviour about cookies the other request stays at one initial state.
LifecycleInit ==
    /\ part \in {"request", "cookies"}
    /\ Init
    /\ part = "cookies" =>
          /\ wire = "GET" /\ ~malformed /\ catchers = {}
          /\ table = [m \in Methods |-> <<>>]
    /\ CookieInit

LifecycleNext ==
    \/ part = "request" /\ Next /\ UNCHANGED <<part, cookieVars>>
    \/ part = "cookies" /\ CookieNext /\ UNCHANGED <<part, vars>>

LifecycleSpec == LifecycleInit /\ [][LifecycleNext]_<<part, vars, cookieVars>>
=============================================================================
