------------------------------- MODULE Origin -------------------------------
(***************************************************************************)
(* Origin URIs (core/http/src/uri/origin.rs, path_query.rs, segments.rs):  *)
(* a path and an optional query, their normal forms, and the segments that *)
(* routing looks at.                                                       *)
(*                                                                         *)
(* A path is the sequence of raw segments between its slashes: "/" is      *)
(* <<Empty>>, "/a//b/" is <<a, Empty, b, Empty>>.  A query is NoQuery or   *)
(* the sequence of its raw segments.  Texts are opaque; Decode gives what  *)
(* percent-decoding makes of each.                                         *)
(***************************************************************************)
EXTENDS Naturals, Sequences, FiniteSets

CONSTANTS
    Texts,      \* raw texts of segments
    Empty,      \* the empty text
    NoQuery,    \* the None of `query`
    Decode(_)   \* percent-decoding of a text

\* Only the empty text decodes to the empty text.
ASSUME EmptyAssumption == Empty \in Texts
ASSUME DecodeAssumption ==
    \A t \in Texts : Decode(t) \in Texts /\ (Decode(t) = Empty <=> t = Empty)

Path == Seq(Texts) \ {<<>>}
Query == Seq(Texts) \cup {NoQuery}
NonEmpty(t) == t # Empty
End(s) == s[Len(s)]

\* The elements of s at the given places, in order.
Picked(s, at) ==
    [n \in 1..Cardinality(at) |-> s[CHOOSE i \in at : Cardinality({j \in at : j <= i}) = n]]

\* The elements that pass the test: what SelectSeq gives, without a recursive
\* definition, about which nothing could be proved.
Kept(s, Test(_)) == Picked(s, {i \in 1..Len(s) : Test(s[i])})

-----------------------------------------------------------------------------
\* Path::is_normalized and Query::is_normalized
PathIsNormalized(p) == \A i \in 1..(Len(p) - 1) : NonEmpty(p[i])
QueryIsNormalized(q) == \A i \in 1..Len(q) : NonEmpty(q[i])

\* Path::to_normalized(true, trail) and Query::to_normalized.
PathToNormalized(p, trail) ==
    LET body == Kept(p, NonEmpty)
    IN  IF body = <<>> \/ (trail /\ End(p) = Empty) THEN Append(body, Empty) ELSE body

QueryToNormalized(q) == Kept(q, NonEmpty)

IsNormalized(u) ==
    /\ PathIsNormalized(u.path)
    /\ u.query # NoQuery => QueryIsNormalized(u.query)

\* Origin::_normalize
Normalized(u, allowTrail) ==
    [path  |-> IF PathIsNormalized(u.path) THEN u.path
                                          ELSE PathToNormalized(u.path, allowTrail),
     query |-> IF u.query = NoQuery THEN NoQuery ELSE QueryToNormalized(u.query)]

\* Origin::into_normalized
IntoNormalized(u) == Normalized(u, TRUE)

\* Origin::has_trailing_slash
HasTrailingSlash(u) == Len(u.path) > 1 /\ End(u.path) = Empty

IsNormalizedNontrailing(u) == IsNormalized(u) /\ ~HasTrailingSlash(u)

\* Mistake: the last segment goes, whether or not it is a slash.
NontrailingUnchecked(u) ==
    IF IsNormalized(u) /\ Len(u.path) > 1
    THEN [u EXCEPT !.path = SubSeq(u.path, 1, Len(u.path) - 1)]
    ELSE Normalized(u, FALSE)

\* Origin::into_normalized_nontrailing: a normal path loses its slash, any other
\* URI is normalized without one.
IntoNormalizedNontrailing(u) ==
    IF IsNormalizedNontrailing(u) THEN u
    ELSE IF IsNormalized(u) THEN [u EXCEPT !.path = SubSeq(u.path, 1, Len(u.path) - 1)]
    ELSE Normalized(u, FALSE)

\* Origin::clear_query
ClearQuery(u) == [u EXCEPT !.query = NoQuery]

-----------------------------------------------------------------------------
\* Path::segments: decoded, an empty segment only in the last place.
Segments(p) ==
    LET kept == Kept(SubSeq(p, 1, Len(p) - 1), NonEmpty)
    IN  [i \in 1..(Len(kept) + 1) |-> Decode(Append(kept, End(p))[i])]

\* Query::segments: decoded; empty segments are skipped.
QuerySegments(q) ==
    LET kept == IF q = NoQuery THEN <<>> ELSE Kept(q, NonEmpty)
    IN  [i \in 1..Len(kept) |-> Decode(kept[i])]

\* Segments::prefix_of: an empty segment (a trailing slash) matches anything.
PrefixOf(s, t) ==
    /\ Len(s) <= Len(t)
    /\ \A i \in 1..Len(s) : s[i] = Empty \/ s[i] = t[i]

\* The text of two paths put one after the other, as format!("{}{}") does.
Joined(p, q) == p \o q
=============================================================================
