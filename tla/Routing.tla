------------------------------ MODULE Routing ------------------------------
(***************************************************************************)
(* The decisions of the router (core/lib/src/router/{matcher,collider}.rs, *)
(* route/{route,uri,segment}.rs, catcher/catcher.rs) as operators: what a  *)
(* mounted route looks like, which requests it matches, which routes and   *)
(* catchers collide.                                                       *)
(*                                                                         *)
(*   segment   [value, dynamic, dynamic_trail]; `<a>` is dynamic, `<a..>`  *)
(*             has a dynamic trail too                                     *)
(*   route     [method, rank, format, base, unmounted, fields, uri]: uri   *)
(*             the segments with the base, unmounted those without it,     *)
(*             fields the segments of its query                            *)
(*   catcher   [code, base, rank]                                          *)
(*   request   [method, uri, ctype, accept]                                *)
(***************************************************************************)
EXTENDS Origin, Integers

CONSTANTS
    Methods,        \* HTTP methods
    PayloadMethods, \* the methods that always allow a request body
    NoMethod,       \* a route's method None: any
    NoFormat,       \* no format, no Content-Type, no Accept
    NoCode,         \* a catcher's code None: default
    Wildcard        \* the `*` of a media type

ASSUME MethodAssumption ==
    /\ PayloadMethods \subseteq Methods
    /\ NoMethod \notin Methods

Static(v) == [value |-> v, dynamic |-> FALSE, dynamic_trail |-> FALSE]
Dynamic == [value |-> Empty, dynamic |-> TRUE, dynamic_trail |-> FALSE]
Trailing == [value |-> Empty, dynamic |-> TRUE, dynamic_trail |-> TRUE]

\* Segment::from: only what is written `<...>` has a trail.
Segment == {s \in [value : Texts, dynamic : BOOLEAN, dynamic_trail : BOOLEAN] :
                s.dynamic_trail => s.dynamic}

-----------------------------------------------------------------------------
\* The color of a path or of a query, and the default rank (Metadata::from,
\* RouteUri::default_rank).
Color(segs) ==
    IF \A i \in DOMAIN segs : ~segs[i].dynamic THEN 3
    ELSE IF \A i \in DOMAIN segs : segs[i].dynamic THEN 1
    ELSE 2

QueryColor(fields) == IF fields = <<>> THEN 0 ELSE Color(fields)

DefaultRank(path, fields) == -(4 * Color(path) + QueryColor(fields) - 3)

\* Metadata.static_query_fields
StaticFields(fields) == {fields[i].value : i \in {j \in DOMAIN fields : ~fields[j].dynamic}}

-----------------------------------------------------------------------------
\* Mounting.  A base is the path of a parsed origin URI, its texts as they were
\* written; a route's own URI is written decoded.
BlankSegment(s) == s = Static(Empty)
PresentSegment(s) == ~BlankSegment(s)

\* into_normalized() on a path that has dynamic segments too.
NormalizedSegs(p) ==
    LET body == Kept(p, PresentSegment)
    IN  IF body = <<>> \/ BlankSegment(End(p)) THEN Append(body, Static(Empty)) ELSE body

StaticSegs(base) == [i \in DOMAIN base |-> Static(base[i])]

\* RouteUri::try_new: `/` mounted at a base without a trailing slash is the base.
RouteUri(base, unmounted) ==
    LET mount == PathToNormalized(base, TRUE)
        origin == NormalizedSegs(unmounted)
    IN  IF origin = <<Static(Empty)>> /\ ~HasTrailingSlash([path |-> mount, query |-> NoQuery])
        THEN StaticSegs(mount)
        ELSE NormalizedSegs(StaticSegs(mount) \o origin)

\* Route::ranked with no rank given: the rank is that of the unmounted URI.
NewRoute(method, format, unmounted, fields) ==
    [method    |-> method,
     format    |-> format,
     rank      |-> DefaultRank(NormalizedSegs(unmounted), fields),
     base      |-> <<Empty>>,
     unmounted |-> NormalizedSegs(unmounted),
     fields    |-> fields,
     uri       |-> RouteUri(<<Empty>>, unmounted)]

\* Route::rebase: the base goes before any earlier one; the rank stays.
Rebase(route, base) ==
    LET new == IF route.base = <<Empty>> THEN base ELSE Joined(base, route.base)
    IN  [route EXCEPT !.base = PathToNormalized(new, TRUE),
                      !.uri = RouteUri(new, route.unmounted)]

\* Catcher::rebase and rank(): -(number of nonempty segments in base)
BaseRank(base) == -Cardinality({i \in DOMAIN base : NonEmpty(base[i])})

CatcherBase(path) == IntoNormalizedNontrailing([path |-> path, query |-> NoQuery]).path

NewCatcher(code) == [code |-> code, base |-> <<Empty>>, rank |-> 0]

RebaseCatcher(c, base) ==
    LET new == CatcherBase(IF c.base = <<Empty>> THEN base ELSE Joined(base, c.base))
    IN  [c EXCEPT !.base = new, !.rank = BaseRank(new)]

-----------------------------------------------------------------------------
\* Matching.
MethodsMatch(route, req) == route.method = NoMethod \/ route.method = req.method

SegmentMatches(seg, text) == seg.dynamic \/ seg.value = text

\* The loop over both lists of segments: it is left with success at the first
\* trailing parameter, with failure at the first segment that does not match.
SegsMatch(uri, path) ==
    /\ Len(uri) <= Len(path)
    /\ Len(path) > Len(uri) => uri # <<>> /\ End(uri).dynamic_trail
    /\ \/ \A i \in 1..Len(uri) : SegmentMatches(uri[i], path[i])
       \/ \E i \in 1..Len(uri) :
            /\ uri[i].dynamic_trail
            /\ \A j \in 1..(i - 1) : SegmentMatches(uri[j], path[j])

PathsMatch(route, req) == SegsMatch(route.uri, Segments(req.uri.path))

QueriesMatch(route, req) ==
    LET qs == QuerySegments(req.uri.query)
    IN  \/ QueryColor(route.fields) \in {0, 1}
        \/ StaticFields(route.fields) \subseteq {qs[i] : i \in DOMAIN qs}

\* MediaType::collides_with and MediaType::specificity
TypesCollide(a, b) == a = Wildcard \/ b = Wildcard \/ a = b
MediaCollide(a, b) == TypesCollide(a.top, b.top) /\ TypesCollide(a.sub, b.sub)
FullySpecified(m) == m.top # Wildcard /\ m.sub # Wildcard

AnyMedia == [top |-> Wildcard, sub |-> Wildcard]

\* Request::format: the Content-Type of a request with a body, else what the
\* client prefers to accept.
RequestFormat(req) ==
    IF req.method \in PayloadMethods THEN req.ctype
    ELSE IF req.accept = NoFormat THEN AnyMedia ELSE req.accept

FormatsMatch(route, req) ==
    LET f == RequestFormat(req)
    IN  \/ route.format = NoFormat
        \/ IF route.method \in PayloadMethods
           THEN f # NoFormat /\ FullySpecified(f) /\ MediaCollide(route.format, f)
           ELSE f = NoFormat \/ MediaCollide(route.format, f)

Matches(route, req) ==
    /\ MethodsMatch(route, req)
    /\ PathsMatch(route, req)
    /\ QueriesMatch(route, req)
    /\ FormatsMatch(route, req)

CatcherMatches(c, code, req) ==
    /\ c.code = NoCode \/ c.code = code
    /\ PrefixOf(Segments(c.base), Segments(req.uri.path))

-----------------------------------------------------------------------------
\* Colliding.
MethodsCollide(a, b) == a.method = NoMethod \/ b.method = NoMethod \/ a.method = b.method

SegmentsCollide(s, t) == s.dynamic \/ t.dynamic \/ s.value = t.value

\* Mistake: URIs of different lengths never collide.
UrisCollideSameLength(s, t) ==
    /\ Len(s) = Len(t)
    /\ \A i \in 1..Len(s) : SegmentsCollide(s[i], t[i])

\* The same kind of loop, over the segments of two routes.
UrisCollide(s, t) ==
    \/ /\ Len(s) = Len(t)
       /\ \A i \in 1..Len(s) : SegmentsCollide(s[i], t[i])
    \/ \E i \in 1..Len(s) :
        /\ i <= Len(t)
        /\ s[i].dynamic_trail \/ t[i].dynamic_trail
        /\ \A j \in 1..(i - 1) : SegmentsCollide(s[j], t[j])

FormatsCollide(a, b) ==
    a.method \in PayloadMethods /\ b.method \in PayloadMethods =>
        a.format = NoFormat \/ b.format = NoFormat \/ MediaCollide(a.format, b.format)

Collide(a, b) ==
    /\ MethodsCollide(a, b)
    /\ a.rank = b.rank
    /\ UrisCollide(a.uri, b.uri)
    /\ FormatsCollide(a, b)

CatchersCollide(a, b) == a.code = b.code /\ Segments(a.base) = Segments(b.base)
=============================================================================
