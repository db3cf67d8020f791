----------------------------- MODULE OriginCalls -----------------------------
(***************************************************************************)
(* A program that parses an origin URI and then rewrites it with any       *)
(* sequence of the calls that Rocket makes on mount points, on catcher     *)
(* bases and, in the compatibility fairing AdHoc::uri_normalizer, on the   *)
(* URIs of requests.                                                       *)
(***************************************************************************)
EXTENDS Origin

CONSTANTS
    MaxPath,    \* longest path that is parsed, in segments
    MaxQuery    \* longest query

ASSUME LengthsAssumption == MaxPath \in Nat /\ MaxQuery \in Nat

VARIABLES
    parsed,     \* the URI as it was parsed
    uri         \* the URI now

uris == <<parsed, uri>>

SeqsUpTo(n, least) == UNION {[1..k -> Texts] : k \in least..n}

\* The query "" has no segments; every other text has one more than its `&`s.
PathsUpTo == SeqsUpTo(MaxPath, 1)
QueriesUpTo == (SeqsUpTo(MaxQuery, 0) \ {<<Empty>>}) \cup {NoQuery}

UriTypeOK ==
    /\ uri.path \in PathsUpTo
    /\ uri.query \in QueriesUpTo

\* Origin::parse: every text of the grammar is a path and a query.
UriInit ==
    /\ parsed \in [path : PathsUpTo, query : QueriesUpTo]
    /\ uri = parsed

Rewrite(u) == uri' = u /\ UNCHANGED parsed

Normalize == Rewrite(IntoNormalized(uri))
NormalizeNontrailing == Rewrite(IntoNormalizedNontrailing(uri))
DropQuery == Rewrite(ClearQuery(uri))

UriNext == Normalize \/ NormalizeNontrailing \/ DropQuery

UriSpec == UriInit /\ [][UriNext]_uris

-----------------------------------------------------------------------------
WithoutTrail(s) == IF Len(s) > 1 /\ End(s) = Empty THEN SubSeq(s, 1, Len(s) - 1) ELSE s

\* Rewriting never changes which route a URI is for: whatever was called, the
\* segments that matching looks at are those of the parsed URI, up to the
\* trailing slash, and its query fields are the same until they are cleared.
SegmentsSurvive ==
    /\ WithoutTrail(Segments(uri.path)) = WithoutTrail(Segments(parsed.path))
    /\ uri.query # NoQuery => QuerySegments(uri.query) = QuerySegments(parsed.query)
=============================================================================
