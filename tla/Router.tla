------------------------------- MODULE Router -------------------------------
(***************************************************************************)
(* core/lib/src/router/router.rs with Rocket::mount and Rocket::register:  *)
(* routes and catchers are collected while the application is built,       *)
(* checked for collisions and sorted once when it ignites, and looked up   *)
(* for each request afterwards.                                            *)
(***************************************************************************)
EXTENDS Routing

CONSTANTS
    Unmounted,  \* routes an application may mount (values of NewRoute)
    Bases,      \* mount points, as paths
    Scopes,     \* bases of catchers, as paths
    Codes,      \* status codes of errors
    Requests,   \* requests the properties quantify over
    MaxItems    \* bound: routes mounted and catchers registered

\* The fields of a route, whatever their values.
IsRoute(r) ==
    r = [method |-> r.method, format |-> r.format, rank |-> r.rank, base |-> r.base,
         unmounted |-> r.unmounted, fields |-> r.fields, uri |-> r.uri]

ASSUME UnmountedAssumption ==
    \A r \in Unmounted : /\ IsRoute(r)
                         /\ r.rank \in Int
                         /\ r.base \in Path
                         /\ r.unmounted \in Seq(Segment)
                         /\ r.uri \in Seq(Segment)
ASSUME BasesAssumption == Bases \subseteq Path /\ Scopes \subseteq Path
ASSUME RequestsAssumption ==
    \A req \in Requests : req.uri.path \in Path /\ req.method \in Methods
ASSUME BoundAssumption == MaxItems \in Nat

VARIABLES
    routes,     \* Pending/Finalized.routes
    catchers,   \* Pending/Finalized.catchers
    phase,      \* "pending", "finalized", or "collisions" when finalize() fails
    route_map,  \* Finalized.route_map: method -> indices of routes
    catcher_map \* Finalized.catcher_map: code or NoCode -> indices of catchers

vars == <<routes, catchers, phase, route_map, catcher_map>>

Indices(s) == 1..Len(s)

TypeOK ==
    /\ phase \in {"pending", "finalized", "collisions"}
    /\ \A i \in Indices(routes) :
        /\ routes[i].method \in Methods \cup {NoMethod}
        /\ routes[i].rank \in -12..-1
        /\ routes[i].uri # <<>>
        /\ \A j \in Indices(routes[i].uri) : routes[i].uri[j] \in Segment
    /\ \A i \in Indices(catchers) : catchers[i].code \in Codes \cup {NoCode}
    /\ \A m \in DOMAIN route_map : \A n \in Indices(route_map[m]) :
        route_map[m][n] \in Indices(routes)
    /\ \A c \in DOMAIN catcher_map : \A n \in Indices(catcher_map[c]) :
        catcher_map[c][n] \in Indices(catchers)

Init ==
    /\ routes = <<>>
    /\ catchers = <<>>
    /\ phase = "pending"
    /\ route_map = [m \in Methods |-> <<>>]
    /\ catcher_map = [c \in Codes \cup {NoCode} |-> <<>>]

\* Rocket::mount, one route of the vector at a time.
Mount(r, base) ==
    /\ phase = "pending"
    /\ Len(routes) + Len(catchers) < MaxItems
    /\ routes' = Append(routes, Rebase(r, base))
    /\ UNCHANGED <<catchers, phase, route_map, catcher_map>>

\* The same with a route that is mounted already, as a fairing that walks
\* rocket.routes() may.
Remount(i, base) == Mount(routes[i], base)

\* Rocket::register
Register(code, base) ==
    /\ phase = "pending"
    /\ Len(routes) + Len(catchers) < MaxItems
    /\ catchers' = Append(catchers, RebaseCatcher(NewCatcher(code), base))
    /\ UNCHANGED <<routes, phase, route_map, catcher_map>>

\* collisions(): every pair of items, each with the ones after it.
RouteCollisions == {p \in Indices(routes) \X Indices(routes) :
                        p[1] < p[2] /\ Collide(routes[p[1]], routes[p[2]])}
CatcherCollisions == {p \in Indices(catchers) \X Indices(catchers) :
                        p[1] < p[2] /\ CatchersCollide(catchers[p[1]], catchers[p[2]])}

\* Mistake: indices stay in the order of registration.
Unsorted(items, S) ==
    CHOOSE s \in [1..Cardinality(S) -> S] : \A i, j \in DOMAIN s : i < j => s[i] < s[j]

\* sort_by_key, which is stable: by rank, then by index.
SortedByRank(items, S) ==
    CHOOSE s \in [1..Cardinality(S) -> S] :
        \A i, j \in DOMAIN s : i < j =>
            \/ items[s[i]].rank < items[s[j]].rank
            \/ items[s[i]].rank = items[s[j]].rank /\ s[i] < s[j]

\* The route map: a route without a method is listed under every method.
RoutesFor(m) == {i \in Indices(routes) : routes[i].method \in {m, NoMethod}}

CatchersFor(c) == {i \in Indices(catchers) : catchers[i].code = c}

\* Router::finalize
FinalizeOk ==
    /\ phase = "pending"
    /\ RouteCollisions = {} /\ CatcherCollisions = {}
    /\ phase' = "finalized"
    /\ route_map' = [m \in Methods |-> SortedByRank(routes, RoutesFor(m))]
    /\ catcher_map' = [c \in Codes \cup {NoCode} |-> SortedByRank(catchers, CatchersFor(c))]
    /\ UNCHANGED <<routes, catchers>>

FinalizeErr ==
    /\ phase = "pending"
    /\ RouteCollisions # {} \/ CatcherCollisions # {}
    /\ phase' = "collisions"
    /\ UNCHANGED <<routes, catchers, route_map, catcher_map>>

Next ==
    \/ \E r \in Unmounted, base \in Bases : Mount(r, base)
    \/ \E i \in Indices(routes), base \in Bases : Remount(i, base)
    \/ \E code \in Codes \cup {NoCode}, base \in Scopes : Register(code, base)
    \/ FinalizeOk
    \/ FinalizeErr

Spec == Init /\ [][Next]_vars

-----------------------------------------------------------------------------
\* Router::route: the routes to try, in order.
Route(req) ==
    LET Hit(i) == Matches(routes[i], req) IN Kept(route_map[req.method], Hit)

\* The first catcher of a list that matches; 0 is None.
FindCatcher(s, code, req) ==
    LET found == {n \in Indices(s) : CatcherMatches(catchers[s[n]], code, req)}
    IN  IF found = {} THEN 0 ELSE s[CHOOSE n \in found : \A k \in found : n <= k]

\* Mistake: a default catcher wins a tie.
CatchDefaultFirst(code, req) ==
    LET explicit == FindCatcher(catcher_map[code], code, req)
        default == FindCatcher(catcher_map[NoCode], code, req)
    IN  IF explicit # 0 /\ default # 0
        THEN IF catchers[explicit].rank < catchers[default].rank THEN explicit ELSE default
        ELSE IF explicit # 0 THEN explicit ELSE default

\* Router::catch
Catch(code, req) ==
    LET explicit == FindCatcher(catcher_map[code], code, req)
        default == FindCatcher(catcher_map[NoCode], code, req)
    IN  IF explicit # 0 /\ default # 0
        THEN IF catchers[explicit].rank <= catchers[default].rank THEN explicit ELSE default
        ELSE IF explicit # 0 THEN explicit ELSE default

-----------------------------------------------------------------------------
\* A router that passed the collision check is unambiguous: no request matches
\* two of its routes with the same rank, so which of them is tried first never
\* depends on the order in which they were mounted.
NoAmbiguity ==
    phase = "finalized" =>
        \A req \in Requests : \A i, j \in Indices(routes) :
            i # j /\ Matches(routes[i], req) /\ Matches(routes[j], req) =>
                routes[i].rank # routes[j].rank

\* What is tried for a request is exactly the routes that match it, each once,
\* in strictly ascending rank.
RouteIsTheRanking ==
    phase = "finalized" =>
        \A req \in Requests :
            LET tried == Route(req)
            IN  /\ {tried[n] : n \in Indices(tried)} =
                        {i \in Indices(routes) : Matches(routes[i], req)}
                /\ \A m, n \in Indices(tried) :
                        m < n => routes[tried[m]].rank < routes[tried[n]].rank

\* The catcher of an error is the only best one among all that match: the one
\* with the most nonempty segments in its base and, of those, the one with a
\* code; none when nothing matches.
BetterCatcher(i, j) ==
    \/ catchers[i].rank < catchers[j].rank
    \/ catchers[i].rank = catchers[j].rank /\ catchers[j].code = NoCode
CatchIsTheBest ==
    phase = "finalized" =>
        \A req \in Requests, code \in Codes :
            LET all == {i \in Indices(catchers) : CatcherMatches(catchers[i], code, req)}
            IN  IF all = {} THEN Catch(code, req) = 0
                ELSE /\ Catch(code, req) \in all
                     /\ \A j \in all \ {Catch(code, req)} : BetterCatcher(Catch(code, req), j)

\* route() and catch(), by the tables that finalize() built and sorted, agree with
\* these two definitions, which know of no tables.
LookupsAreExact == RouteIsTheRanking /\ CatchIsTheBest
=============================================================================
