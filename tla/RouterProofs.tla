---------------------------- MODULE RouterProofs ----------------------------
(***************************************************************************)
(* The collision check is sound: a router that passed it never has to      *)
(* choose between two routes of one rank, for any routes, mount points and *)
(* requests.  And its tables are exact: a look-up gives what a definition  *)
(* without tables says.  And rewriting a URI leaves its segments alone.    *)
(***************************************************************************)
EXTENDS Router, OriginCalls, FiniteSetTheorems, SequenceTheorems, WellFoundedInduction, TLAPS

\* A sequence of something.
IsSeq(s) == \E S : s \in Seq(S)

\* What is picked from a sequence is a sequence.
LEMMA PickedIsSeq ==
    ASSUME NEW s, IsSeq(s), NEW at \in SUBSET (1..Len(s))
    PROVE  IsSeq(Picked(s, at))
<1> DEFINE el(n) == s[CHOOSE i \in at : Cardinality({j \in at : j <= i}) = n]
<1>1. Len(s) \in Nat
  BY DEF IsSeq
<1>i. IsFiniteSet(1..Len(s))
  BY <1>1, FS_Interval
<1>2. IsFiniteSet(at)
  BY <1>i, FS_Subset
<1>3. Cardinality(at) \in Nat
  BY <1>2, FS_CardinalityType
<1>4. Picked(s, at) = [n \in 1..Cardinality(at) |-> el(n)]
  BY DEF Picked
<1> HIDE DEF el
<1>5. Picked(s, at) \in Seq({el(n) : n \in 1..Cardinality(at)})
  BY <1>3, <1>4
<1> QED
  BY <1>5 DEF IsSeq

\* Sequences put together are sequences.
LEMMA ConcatIsSeq ==
    ASSUME NEW s, NEW t, IsSeq(s), IsSeq(t), NEW e
    PROVE  IsSeq(s \o t) /\ IsSeq(Append(s, e)) /\ Len(s) \in Nat
<1>1. PICK S : s \in Seq(S)
  BY DEF IsSeq
<1>2. PICK T : t \in Seq(T)
  BY DEF IsSeq
<1>3. s \in Seq(S \cup T) /\ t \in Seq(S \cup T)
  BY <1>1, <1>2
<1>4. s \o t \in Seq(S \cup T)
  BY <1>3
<1>5. Append(s, e) \in Seq(S \cup {e})
  BY <1>1
<1> QED
  BY <1>1, <1>4, <1>5 DEF IsSeq

\* Normal forms of paths are sequences.
LEMMA NormalFormsAreSeqs ==
    ASSUME NEW p, IsSeq(p)
    PROVE  IsSeq(NormalizedSegs(p)) /\ IsSeq(PathToNormalized(p, TRUE))
<1>1. IsSeq(Kept(p, PresentSegment)) /\ IsSeq(Kept(p, NonEmpty))
  BY PickedIsSeq DEF Kept
<1>2. IsSeq(Append(Kept(p, PresentSegment), Static(Empty)))
  BY <1>1, ConcatIsSeq
<1>3. IsSeq(Append(Kept(p, NonEmpty), Empty))
  BY <1>1, ConcatIsSeq
<1> QED
  BY <1>1, <1>2, <1>3 DEF NormalizedSegs, PathToNormalized

\* The base as the first segments of a route's URI.
LEMMA StaticSegsIsSeq ==
    ASSUME NEW p, IsSeq(p)
    PROVE  IsSeq(StaticSegs(p))
<1>1. PICK S : p \in Seq(S)
  BY DEF IsSeq
<1>2. Len(p) \in Nat /\ DOMAIN p = 1..Len(p)
  BY <1>1
<1> DEFINE seg(i) == Static(p[i])
<1>3. StaticSegs(p) = [i \in 1..Len(p) |-> seg(i)]
  BY <1>2 DEF StaticSegs
<1> HIDE DEF seg
<1>4. StaticSegs(p) \in Seq({seg(i) : i \in 1..Len(p)})
  BY <1>2, <1>3
<1> QED
  BY <1>4 DEF IsSeq

\* So is the URI of a mounted route.
LEMMA RouteUriIsSeq ==
    ASSUME NEW base, NEW unmounted, IsSeq(base), IsSeq(unmounted)
    PROVE  IsSeq(RouteUri(base, unmounted))
<1> DEFINE bb == PathToNormalized(base, TRUE)
           o == NormalizedSegs(unmounted)
<1>1. IsSeq(bb) /\ IsSeq(o)
  BY NormalFormsAreSeqs
<1>2. IsSeq(StaticSegs(bb))
  BY <1>1, StaticSegsIsSeq
<1>3. IsSeq(NormalizedSegs(StaticSegs(bb) \o o))
  BY <1>1, <1>2, ConcatIsSeq, NormalFormsAreSeqs
<1> QED
  BY <1>2, <1>3 DEF RouteUri

\* And a request has as many segments as a sequence has elements.
LEMMA SegmentsLen ==
    ASSUME NEW p \in Path
    PROVE  Len(Segments(p)) \in Nat
<1> DEFINE kept == Kept(SubSeq(p, 1, Len(p) - 1), NonEmpty)
<1>1. IsSeq(SubSeq(p, 1, Len(p) - 1))
  <2>1. p \in Seq(Texts) /\ p # <<>>
    BY DEF Path
  <2>2. SubSeq(p, 1, Len(p) - 1) \in Seq(Texts)
    BY <2>1
  <2> QED
    BY <2>2 DEF IsSeq
<1>2. IsSeq(kept)
  BY <1>1, PickedIsSeq DEF Kept
<1>3. Len(kept) \in Nat
  BY <1>2, ConcatIsSeq
<1> HIDE DEF kept
<1>4. Segments(p) = [i \in 1..(Len(kept) + 1) |-> Decode(Append(kept, End(p))[i])]
  BY DEF Segments, kept
<1> QED
  BY <1>3, <1>4

-----------------------------------------------------------------------------
\* The matching loop of a URI may end at the trailing parameter in place i.
TrailAt(segs, path, i) ==
    /\ i \in 1..Len(segs)
    /\ segs[i].dynamic_trail
    /\ \A j \in 1..(i - 1) : SegmentMatches(segs[j], path[j])

\* The loop of a URI that is shorter than the path, or in which some segment does
\* not match, ends at a trailing parameter.
LEMMA ShorterHasTrail ==
    ASSUME NEW segs, NEW path, IsSeq(segs), Len(path) \in Nat,
           SegsMatch(segs, path),
           \/ Len(segs) < Len(path)
           \/ ~ \A i \in 1..Len(segs) : SegmentMatches(segs[i], path[i])
    PROVE  \E i \in 1..Len(segs) : TrailAt(segs, path, i)
<1>1. CASE \A i \in 1..Len(segs) : SegmentMatches(segs[i], path[i])
  <2>1. segs # <<>> /\ End(segs).dynamic_trail
    BY <1>1 DEF SegsMatch
  <2>2. Len(segs) \in 1..Len(segs)
    BY <2>1 DEF IsSeq
  <2>3. \A j \in 1..(Len(segs) - 1) : SegmentMatches(segs[j], path[j])
    BY <1>1, <2>2
  <2> QED
    BY <2>1, <2>2, <2>3 DEF End, TrailAt
<1>2. CASE ~ \A i \in 1..Len(segs) : SegmentMatches(segs[i], path[i])
  BY <1>2 DEF SegsMatch, TrailAt
<1> QED
  BY <1>1, <1>2

\* The segments of two URIs that both match a path collide, one by one.
LEMMA MatchingSegmentsCollide ==
    ASSUME NEW s, NEW t, NEW text, SegmentMatches(s, text), SegmentMatches(t, text)
    PROVE  SegmentsCollide(s, t)
BY DEF SegmentMatches, SegmentsCollide

\* If the loop of one URI ends at a trailing parameter inside the other, and the
\* other's own loop has not ended before, the collision loop ends there too.
LEMMA TrailCollides ==
    ASSUME NEW s, NEW t, NEW path, IsSeq(s), IsSeq(t), NEW i \in 1..Len(s),
           TrailAt(s, path, i), i <= Len(t),
           \A j \in 1..(i - 1) : SegmentMatches(t[j], path[j])
    PROVE  UrisCollide(s, t) /\ UrisCollide(t, s)
<1>1. Len(s) \in Nat /\ Len(t) \in Nat /\ i \in 1..Len(t)
  BY DEF IsSeq
<1>2. \A j \in 1..(i - 1) : SegmentsCollide(s[j], t[j]) /\ SegmentsCollide(t[j], s[j])
  BY MatchingSegmentsCollide DEF TrailAt
<1> QED
  BY <1>1, <1>2 DEF UrisCollide, TrailAt

\* The heart of the matter: two URIs that match the same path collide.
LEMMA MatchingUrisCollide ==
    ASSUME NEW s, NEW t, NEW path, IsSeq(s), IsSeq(t), Len(path) \in Nat,
           SegsMatch(s, path), SegsMatch(t, path)
    PROVE  UrisCollide(s, t)
<1> DEFINE All(u) == \A i \in 1..Len(u) : SegmentMatches(u[i], path[i])
<1>n. Len(s) \in Nat /\ Len(t) \in Nat /\ Len(s) <= Len(path) /\ Len(t) <= Len(path)
  BY DEF IsSeq, SegsMatch
<1>1. CASE All(s) /\ All(t) /\ Len(s) = Len(t)
  BY <1>1, <1>n, MatchingSegmentsCollide DEF UrisCollide
\* Both loops end at a parameter: the first of the two decides.
<1>2. ASSUME NEW i \in 1..Len(s), TrailAt(s, path, i),
             NEW k \in 1..Len(t), TrailAt(t, path, k)
      PROVE  UrisCollide(s, t)
  <2>1. CASE i <= k
    <3>1. i <= Len(t) /\ \A j \in 1..(i - 1) : SegmentMatches(t[j], path[j])
      BY <1>2, <1>n, <2>1 DEF TrailAt
    <3> QED
      BY <1>2, <3>1, TrailCollides
  <2>2. CASE k <= i
    <3>1. k <= Len(s) /\ \A j \in 1..(k - 1) : SegmentMatches(s[j], path[j])
      BY <1>2, <1>n, <2>2 DEF TrailAt
    <3> QED
      BY <1>2, <3>1, TrailCollides
  <2> QED
    BY <2>1, <2>2, <1>n
\* One loop ends at a parameter, the other runs to the end of its URI.
<1>3. ASSUME NEW u, NEW v, IsSeq(u), IsSeq(v), SegsMatch(u, path), SegsMatch(v, path),
             NEW i \in 1..Len(u), TrailAt(u, path, i), All(v), Len(v) = Len(path)
      PROVE  UrisCollide(u, v) /\ UrisCollide(v, u)
  <2>1. i <= Len(v) /\ i - 1 < Len(v) /\ Len(v) \in Nat
    BY <1>3 DEF SegsMatch, IsSeq
  <2>2. \A j \in 1..(i - 1) : SegmentMatches(v[j], path[j])
    BY <1>3, <2>1
  <2> QED
    BY <1>3, <2>1, <2>2, TrailCollides
<1> HIDE DEF All
<1>4. (All(s) /\ Len(s) = Len(path)) \/ \E i \in 1..Len(s) : TrailAt(s, path, i)
  BY <1>n, ShorterHasTrail DEF All
<1>5. (All(t) /\ Len(t) = Len(path)) \/ \E i \in 1..Len(t) : TrailAt(t, path, i)
  BY <1>n, ShorterHasTrail DEF All
<1> QED
  BY <1>1, <1>2, <1>3, <1>4, <1>5

-----------------------------------------------------------------------------
\* Formats: a request with a body has one fully specified format, so two routes
\* for it overlap; any other pair of routes counts as overlapping anyway.
LEMMA MatchingFormatsCollide ==
    ASSUME NEW r, NEW s, NEW req, FormatsMatch(r, req), FormatsMatch(s, req)
    PROVE  FormatsCollide(r, s)
BY DEF FormatsMatch, FormatsCollide, MediaCollide, TypesCollide, FullySpecified

\* Methods: a request has one, so two routes for it name the same or leave it open.
LEMMA MatchingMethodsCollide ==
    ASSUME NEW r, NEW s, NEW req, MethodsMatch(r, req), MethodsMatch(s, req)
    PROVE  MethodsCollide(r, s)
BY DEF MethodsMatch, MethodsCollide

\* Completeness of the collision check: two routes of one rank that match the
\* same request collide.
THEOREM MatchingRoutesCollide ==
    ASSUME NEW r, NEW s, NEW req, IsSeq(r.uri), IsSeq(s.uri), req.uri.path \in Path,
           Matches(r, req), Matches(s, req), r.rank = s.rank
    PROVE  Collide(r, s)
<1>1. UrisCollide(r.uri, s.uri)
  BY SegmentsLen, MatchingUrisCollide DEF Matches, PathsMatch
<1> QED
  BY <1>1, MatchingFormatsCollide, MatchingMethodsCollide DEF Matches, Collide

-----------------------------------------------------------------------------
(* Sorting and picking                                                     *)

\* Counting what comes before each element of a finite, totally ordered set gives
\* every element a place of its own, in order, and leaves no place empty.
Place(x, S, R) == Cardinality({y \in S : y = x \/ <<y, x>> \in R})

LEMMA Places ==
    ASSUME NEW S, IsFiniteSet(S), NEW R,
           \A x \in S : <<x, x>> \notin R,
           \A x, y \in S : x = y \/ <<x, y>> \in R \/ <<y, x>> \in R,
           \A x, y, z \in S : <<x, y>> \in R /\ <<y, z>> \in R => <<x, z>> \in R
    PROVE  /\ Cardinality(S) \in Nat
           /\ \A x \in S : Place(x, S, R) \in 1..Cardinality(S)
           /\ \A x, y \in S : Place(x, S, R) < Place(y, S, R) <=> <<x, y>> \in R
           /\ \A n \in 1..Cardinality(S) : \E x \in S : Place(x, S, R) = n
<1> DEFINE upto(x) == {y \in S : y = x \/ <<y, x>> \in R}
<1>1. Cardinality(S) \in Nat
  BY FS_CardinalityType
<1>2. ASSUME NEW x \in S
      PROVE  IsFiniteSet(upto(x)) /\ Cardinality(upto(x)) \in 1..Cardinality(S)
  <2>1. upto(x) \in SUBSET S /\ x \in upto(x)
    OBVIOUS
  <2> HIDE DEF upto
  <2>2. IsFiniteSet(upto(x)) /\ Cardinality(upto(x)) <= Cardinality(S)
    BY <2>1, FS_Subset
  <2>3. Cardinality(upto(x)) \in Nat
    BY <2>2, FS_CardinalityType
  <2>4. Cardinality(upto(x)) # 0
    BY <2>1, <2>2, FS_EmptySet
  <2> QED
    BY <1>1, <2>2, <2>3, <2>4
<1>3. ASSUME NEW x \in S, NEW y \in S, <<x, y>> \in R
      PROVE  Cardinality(upto(x)) < Cardinality(upto(y))
  <2>1. upto(x) \in SUBSET upto(y)
    BY <1>3
  <2>2. y \in upto(y) /\ y \notin upto(x)
    BY <1>3
  <2> HIDE DEF upto
  <2>3. Cardinality(upto(x)) <= Cardinality(upto(y)) /\ Cardinality(upto(y)) # Cardinality(upto(x))
    BY <1>2, <2>1, <2>2, FS_Subset
  <2> QED
    BY <1>2, <2>3
<1>p. \A x : Place(x, S, R) = Cardinality(upto(x))
  BY DEF Place
<1> HIDE DEF upto
<1>4. \A x, y \in S : Place(x, S, R) < Place(y, S, R) <=> <<x, y>> \in R
  <2> SUFFICES ASSUME NEW x \in S, NEW y \in S
               PROVE  Cardinality(upto(x)) < Cardinality(upto(y)) <=> <<x, y>> \in R
    BY <1>p
  <2>1. Cardinality(upto(x)) \in Nat /\ Cardinality(upto(y)) \in Nat
    BY <1>1, <1>2
  <2>2. CASE <<x, y>> \in R
    BY <1>3, <2>2
  <2>3. CASE x = y
    BY <2>1, <2>3
  <2>4. CASE <<y, x>> \in R
    <3>1. Cardinality(upto(y)) < Cardinality(upto(x))
      BY <1>3, <2>4
    <3>2. <<x, y>> \notin R
      BY <2>4
    <3> QED
      BY <2>1, <3>1, <3>2
  <2> QED
    BY <2>2, <2>3, <2>4
<1> DEFINE f == [x \in S |-> Place(x, S, R)]
           T == 1..Cardinality(S)
<1>5. f \in Injection(S, T)
  <2>1. f \in [S -> T]
    BY <1>2, <1>p
  <2>2. ASSUME NEW x \in S, NEW y \in S, f[x] = f[y] PROVE x = y
    <3>1. Place(x, S, R) = Place(y, S, R) /\ Place(x, S, R) \in Nat
      BY <2>2, <1>1, <1>2, <1>p
    <3>2. <<x, y>> \notin R /\ <<y, x>> \notin R
      BY <3>1, <1>4
    <3> QED
      BY <3>2
  <2> QED
    BY <2>1, <2>2 DEF Injection, IsInjective
<1>6. IsFiniteSet(T) /\ Cardinality(T) = Cardinality(S)
  BY <1>1, FS_Interval
<1> HIDE DEF T
<1>7. f \in Surjection(S, T)
  BY <1>5, <1>6, FS_Injection
<1>8. \A n \in T : \E x \in S : Place(x, S, R) = n
  BY <1>7 DEF Surjection
<1> QED
  BY <1>1, <1>2, <1>p, <1>4, <1>8 DEF T

\* pos says which places of s the elements of Picked come from, in order.
IsPicking(pos, s, at) ==
    /\ Cardinality(at) \in Nat /\ pos \in [1..Cardinality(at) -> at]
    /\ \A n \in 1..Cardinality(at) : Picked(s, at)[n] = s[pos[n]]
    /\ \A m, n \in 1..Cardinality(at) : m < n => pos[m] < pos[n]
    /\ \A i \in at : \E n \in 1..Cardinality(at) : pos[n] = i

\* There are such places: nothing is picked twice, out of order or forgotten.
LEMMA PickedPlaces ==
    ASSUME NEW s, NEW l \in Nat, NEW at \in SUBSET (1..l)
    PROVE  \E pos : IsPicking(pos, s, at)
<1> DEFINE R == {p \in at \X at : p[1] < p[2]}
           pos == [n \in 1..Cardinality(at) |-> CHOOSE i \in at : Cardinality({j \in at : j <= i}) = n]
<1>1. IsFiniteSet(at)
  <2>1. IsFiniteSet(1..l)
    BY FS_Interval
  <2> QED
    BY <2>1, FS_Subset
<1>2. /\ \A x \in at : <<x, x>> \notin R
      /\ \A x, y \in at : x = y \/ <<x, y>> \in R \/ <<y, x>> \in R
      /\ \A x, y, z \in at : <<x, y>> \in R /\ <<y, z>> \in R => <<x, z>> \in R
  OBVIOUS
<1>3. ASSUME NEW i \in at PROVE Cardinality({j \in at : j <= i}) = Place(i, at, R)
  <2>1. \A j \in at : j <= i <=> j = i \/ <<j, i>> \in R
    OBVIOUS
  <2> QED
    BY <2>1 DEF Place
<1>r. \A i, j \in at : <<i, j>> \in R <=> i < j
  OBVIOUS
<1>q. Picked(s, at) = [n \in 1..Cardinality(at) |-> s[CHOOSE i \in at : Cardinality({j \in at : j <= i}) = n]]
  BY DEF Picked
<1> HIDE DEF R
<1>4. /\ Cardinality(at) \in Nat
      /\ \A x \in at : Place(x, at, R) \in 1..Cardinality(at)
      /\ \A x, y \in at : Place(x, at, R) < Place(y, at, R) <=> <<x, y>> \in R
      /\ \A n \in 1..Cardinality(at) : \E x \in at : Place(x, at, R) = n
  BY <1>1, <1>2, Places
<1>5. ASSUME NEW n \in 1..Cardinality(at)
      PROVE  pos[n] \in at /\ Place(pos[n], at, R) = n /\ Picked(s, at)[n] = s[pos[n]]
  <2>1. \E i \in at : Cardinality({j \in at : j <= i}) = n
    BY <1>3, <1>4
  <2>2. pos[n] \in at /\ Cardinality({j \in at : j <= pos[n]}) = n
    BY <2>1
  <2>3. Picked(s, at)[n] = s[pos[n]]
    BY <1>q
  <2> QED
    BY <1>3, <2>2, <2>3
<1>6. pos \in [1..Cardinality(at) -> at]
  <2>1. \A n \in 1..Cardinality(at) : pos[n] \in at
    BY <1>5
  <2>2. pos = [n \in 1..Cardinality(at) |-> pos[n]]
    OBVIOUS
  <2> HIDE DEF pos
  <2> QED
    BY <2>1, <2>2
<1> HIDE DEF pos
<1>7. \A m, n \in 1..Cardinality(at) : m < n => pos[m] < pos[n]
  BY <1>4, <1>5, <1>r
<1>8. ASSUME NEW i \in at PROVE \E n \in 1..Cardinality(at) : pos[n] = i
  <2>1. PICK n \in 1..Cardinality(at) : n = Place(i, at, R)
    BY <1>4
  <2>2. Place(pos[n], at, R) = Place(i, at, R) /\ pos[n] \in at
    BY <1>5, <2>1
  <2>3. ASSUME NEW k \in at, Place(k, at, R) = Place(i, at, R) PROVE k = i
    <3>1. Place(i, at, R) \in Nat
      BY <1>4
    <3>2. ~(Place(k, at, R) < Place(i, at, R)) /\ ~(Place(i, at, R) < Place(k, at, R))
      BY <2>3, <3>1
    <3>3. <<k, i>> \notin R /\ <<i, k>> \notin R
      BY <1>4, <3>2
    <3> QED
      BY <1>2, <3>3
  <2>5. pos[n] = i
    BY <2>2, <2>3
  <2> QED
    BY <2>1, <2>5
<1> QED
  BY <1>4, <1>5, <1>6, <1>7, <1>8 DEF IsPicking

\* s lists all c elements of S, each once, in the order of their ranks.
Lists(s, c, items, S) ==
    /\ c \in Nat /\ s \in [1..c -> S]
    /\ \A m, n \in 1..c : m < n => items[s[m]].rank <= items[s[n]].rank
    /\ \A m, n \in 1..c : s[m] = s[n] => m = n
    /\ \A i \in S : \E n \in 1..c : s[n] = i

\* sort_by_key gives every index of S once, in the order of ranks and, among equal
\* ranks, of indices: the sequence that SortedByRank chooses exists.
LEMMA SortedLists ==
    ASSUME NEW items, NEW l \in Nat, NEW S \in SUBSET (1..l), \A i \in S : items[i].rank \in Int
    PROVE  Lists(SortedByRank(items, S), Cardinality(S), items, S)
<1> DEFINE rk(i) == items[i].rank
           Before(i, j) == rk(i) < rk(j) \/ (rk(i) = rk(j) /\ i < j)
           R == {p \in S \X S : Before(p[1], p[2])}
           N == 1..Cardinality(S)
           Sorted(s) == s \in [N -> S] /\ \A m, n \in DOMAIN s : m < n => Before(s[m], s[n])
<1>t. \A i \in S : rk(i) \in Int /\ i \in Int
  <2>1. \A i \in S : rk(i) \in Int
    OBVIOUS
  <2> HIDE DEF rk
  <2> QED
    BY <2>1
<1>s. SortedByRank(items, S) = CHOOSE s : Sorted(s)
  BY DEF SortedByRank
<1>u. \A i, j : Before(i, j) => rk(i) < rk(j) \/ rk(i) = rk(j)
  OBVIOUS
<1>k. \A i : rk(i) = items[i].rank
  OBVIOUS
<1> HIDE DEF rk
<1>1. IsFiniteSet(S)
  <2>1. IsFiniteSet(1..l)
    BY FS_Interval
  <2> QED
    BY <2>1, FS_Subset
<1>2. /\ \A x \in S : <<x, x>> \notin R
      /\ \A x, y \in S : x = y \/ <<x, y>> \in R \/ <<y, x>> \in R
      /\ \A x, y, z \in S : <<x, y>> \in R /\ <<y, z>> \in R => <<x, z>> \in R
  BY <1>t
<1>r. \A x, y \in S : <<x, y>> \in R <=> Before(x, y)
  OBVIOUS
<1> HIDE DEF R, Before
<1>4. /\ Cardinality(S) \in Nat
      /\ \A x \in S : Place(x, S, R) \in N
      /\ \A x, y \in S : Place(x, S, R) < Place(y, S, R) <=> <<x, y>> \in R
      /\ \A n \in N : \E x \in S : Place(x, S, R) = n
  BY <1>1, <1>2, Places
<1>5. \E s : Sorted(s)
  <2> DEFINE e == [n \in N |-> CHOOSE x \in S : Place(x, S, R) = n]
  <2>1. \A n \in N : e[n] \in S /\ Place(e[n], S, R) = n
    BY <1>4
  <2>2. e \in [N -> S]
    <3>1. e = [n \in N |-> e[n]]
      OBVIOUS
    <3> HIDE DEF e
    <3> QED
      BY <2>1, <3>1
  <2> HIDE DEF e
  <2>3. ASSUME NEW m \in N, NEW n \in N, m < n PROVE Before(e[m], e[n])
    <3>1. Place(e[m], S, R) < Place(e[n], S, R)
      BY <2>1, <2>3
    <3> QED
      BY <1>4, <1>r, <2>1, <3>1
  <2>4. Sorted(e)
    BY <2>2, <2>3
  <2> QED
    BY <2>4
<1> DEFINE s == SortedByRank(items, S)
<1>6. Sorted(s)
  <2> HIDE DEF Sorted
  <2>1. Sorted(CHOOSE t : Sorted(t))
    BY <1>5
  <2> QED
    BY <2>1, <1>s
<1> HIDE DEF s
<1>7. s \in [N -> S] /\ \A m, n \in N : m < n => Before(s[m], s[n])
  BY <1>6
<1>8. ASSUME NEW m \in N, NEW n \in N, m < n PROVE items[s[m]].rank <= items[s[n]].rank
  <2>1. s[m] \in S /\ s[n] \in S /\ Before(s[m], s[n])
    BY <1>7, <1>8
  <2>2. rk(s[m]) \in Int /\ rk(s[n]) \in Int
    BY <1>t, <2>1
  <2>3. rk(s[m]) < rk(s[n]) \/ rk(s[m]) = rk(s[n])
    BY <1>u, <2>1
  <2>4. rk(s[m]) <= rk(s[n])
    BY <2>2, <2>3
  <2> QED
    BY <1>k, <2>4
<1>i. ASSUME NEW m \in N, NEW n \in N, s[m] = s[n] PROVE m = n
  <2>1. s[m] \in S /\ s[n] \in S
    BY <1>7
  <2>2. ~Before(s[m], s[n]) /\ ~Before(s[n], s[m])
    BY <1>i, <2>1, <1>2, <1>r
  <2>3. ~(m < n) /\ ~(n < m)
    BY <2>2, <1>7
  <2> QED
    BY <2>3, <1>4
<1>9. s \in Injection(N, S)
  BY <1>7, <1>i DEF Injection, IsInjective
<1>10. IsFiniteSet(N) /\ Cardinality(N) = Cardinality(S)
  BY <1>4, FS_Interval
<1> HIDE DEF N
<1>11. s \in Surjection(N, S)
  BY <1>1, <1>9, <1>10, FS_Injection
<1>12. \A i \in S : \E n \in N : s[n] = i
  BY <1>11 DEF Surjection
<1> QED
  BY <1>4, <1>7, <1>8, <1>i, <1>12 DEF N, s, Lists

-----------------------------------------------------------------------------
(* The bases of catchers                                                   *)

\* A base as catchers have it: no slash at its end, unless it is the root.
IsCatcherBase(p) == p \in Path /\ (End(p) = Empty => p = <<Empty>>)

\* The elements that Kept takes from a path are nonempty texts.
LEMMA KeptTexts ==
    ASSUME NEW p \in Seq(Texts)
    PROVE  LET k == Kept(p, NonEmpty)
           IN  /\ k \in Seq(Texts)
               /\ Len(k) = Cardinality({i \in 1..Len(p) : NonEmpty(p[i])})
               /\ \A n \in 1..Len(k) : k[n] # Empty
<1> DEFINE at == {i \in 1..Len(p) : NonEmpty(p[i])}
           k == Kept(p, NonEmpty)
<1>1. Len(p) \in Nat /\ at \in SUBSET (1..Len(p))
  OBVIOUS
<1>2. \A i \in at : p[i] \in Texts /\ p[i] # Empty
  BY DEF NonEmpty
<1>3. k = Picked(p, at)
  BY DEF Kept
<1> HIDE DEF at, k
<1>4. PICK pos : IsPicking(pos, p, at)
  BY <1>1, PickedPlaces
<1>5. \A n \in 1..Cardinality(at) : k[n] \in Texts /\ k[n] # Empty
  BY <1>2, <1>3, <1>4 DEF IsPicking
<1>6. k = [n \in 1..Cardinality(at) |-> k[n]]
  <2> DEFINE el(n) == p[CHOOSE i \in at : Cardinality({j \in at : j <= i}) = n]
  <2>1. k = [n \in 1..Cardinality(at) |-> el(n)]
    BY <1>3 DEF Picked
  <2> HIDE DEF el
  <2> QED
    BY <2>1
<1>7. k \in Seq(Texts) /\ Len(k) = Cardinality(at)
  BY <1>4, <1>5, <1>6 DEF IsPicking
<1> QED
  BY <1>5, <1>7 DEF k, at

\* Catcher::rebase normalizes every base to one.
LEMMA CatcherBases ==
    ASSUME NEW p \in Path
    PROVE  IsCatcherBase(CatcherBase(p))
<1> DEFINE u == [path |-> p, query |-> NoQuery]
           body == Kept(p, NonEmpty)
<1>0. p \in Seq(Texts) /\ p # <<>> /\ Len(p) \in Nat /\ Len(p) > 0
  BY DEF Path
<1>1. u.path = p /\ u.query = NoQuery
  OBVIOUS
<1>b. body \in Seq(Texts) /\ \A n \in 1..Len(body) : body[n] # Empty
  BY <1>0, KeptTexts
<1> HIDE DEF body
<1>2. CASE IsNormalizedNontrailing(u)
  <2>1. CatcherBase(p) = p
    BY <1>2 DEF CatcherBase, IntoNormalizedNontrailing
  <2>2. ~(Len(p) > 1 /\ End(p) = Empty)
    BY <1>1, <1>2 DEF IsNormalizedNontrailing, HasTrailingSlash
  <2>3. ASSUME End(p) = Empty PROVE p = <<Empty>>
    <3>0. ~(Len(p) > 1)
      BY <2>2, <2>3
    <3>1. Len(p) = 1
      <4> DEFINE l == Len(p)
      <4>1. l \in Nat /\ l > 0 /\ ~(l > 1)
        BY <1>0, <3>0
      <4> HIDE DEF l
      <4>2. l = 1
        BY <4>1
      <4> QED
        BY <4>2 DEF l
    <3>2. p[1] = Empty
      BY <2>3, <3>1 DEF End
    <3>3. <<Empty>> \in Seq(Texts) /\ Len(<<Empty>>) = 1 /\ <<Empty>>[1] = Empty
      BY EmptyAssumption
    <3> QED
      BY <1>0, <3>1, <3>2, <3>3, SeqEqual
  <2> QED
    BY <2>1, <2>3 DEF IsCatcherBase
<1>3. CASE ~IsNormalizedNontrailing(u) /\ IsNormalized(u)
  <2> DEFINE q == SubSeq(p, 1, Len(p) - 1)
  <2>1. CatcherBase(p) = q
    BY <1>1, <1>3 DEF CatcherBase, IntoNormalizedNontrailing
  <2>2. Len(p) > 1 /\ PathIsNormalized(p)
    BY <1>1, <1>3 DEF IsNormalizedNontrailing, HasTrailingSlash, IsNormalized
  <2>3. q \in Seq(Texts) /\ Len(q) = Len(p) - 1 /\ q[Len(p) - 1] = p[Len(p) - 1]
    BY <1>0, <2>2
  <2>4. p[Len(p) - 1] # Empty
    BY <1>0, <2>2 DEF PathIsNormalized, NonEmpty
  <2> HIDE DEF q
  <2>5. q \in Path /\ End(q) # Empty
    BY <1>0, <2>2, <2>3, <2>4 DEF Path, End
  <2> QED
    BY <2>1, <2>5 DEF IsCatcherBase
<1>4. CASE ~IsNormalized(u)
  <2>1. CatcherBase(p) = PathToNormalized(p, FALSE)
    BY <1>1, <1>4 DEF CatcherBase, IntoNormalizedNontrailing, Normalized, IsNormalizedNontrailing,
                      IsNormalized
  <2>2. PathToNormalized(p, FALSE) = IF body = <<>> THEN Append(body, Empty) ELSE body
    BY DEF PathToNormalized, body
  <2>3. CASE body = <<>>
    <3>0. Append(<<>>, Empty) = <<Empty>>
      OBVIOUS
    <3>1. CatcherBase(p) = <<Empty>>
      BY <2>1, <2>2, <2>3, <3>0
    <3> QED
      BY <3>1, EmptyAssumption DEF IsCatcherBase, Path
  <2>4. CASE body # <<>>
    <3>1. Len(body) \in 1..Len(body)
      BY <1>b, <2>4
    <3>2. End(body) # Empty
      BY <1>b, <3>1 DEF End
    <3> QED
      BY <1>b, <2>1, <2>2, <2>4, <3>2 DEF IsCatcherBase, Path
  <2> QED
    BY <2>3, <2>4
<1> QED
  BY <1>2, <1>3, <1>4 DEF IsNormalizedNontrailing

\* Below the root, the rank of a base counts its segments, none of which is empty.
LEMMA CatcherRank ==
    ASSUME NEW p, IsCatcherBase(p)
    PROVE  /\ BaseRank(p) \in Int
           /\ p = <<Empty>> => BaseRank(p) = 0
           /\ p # <<Empty>> =>
                 /\ BaseRank(p) = -Len(Segments(p)) /\ Len(Segments(p)) \in Nat \ {0}
                 /\ Segments(p) = [i \in 1..Len(Segments(p)) |-> Segments(p)[i]]
                 /\ \A i \in 1..Len(Segments(p)) : Segments(p)[i] # Empty
<1> DEFINE q == SubSeq(p, 1, Len(p) - 1)
           k == Kept(q, NonEmpty)
           at(s) == {i \in 1..Len(s) : NonEmpty(s[i])}
<1>0. p \in Seq(Texts) /\ p # <<>> /\ Len(p) \in Nat /\ Len(p) > 0 /\ DOMAIN p = 1..Len(p)
  BY DEF IsCatcherBase, Path
<1>1. /\ q \in Seq(Texts) /\ Len(q) = Len(p) - 1
      /\ \A i \in 1..(Len(p) - 1) : q[i] = p[i]
  BY <1>0
<1> HIDE DEF q
<1>2. k \in Seq(Texts) /\ Len(k) = Cardinality(at(q)) /\ \A n \in 1..Len(k) : k[n] # Empty
  BY <1>1, KeptTexts
<1>3. BaseRank(p) = -Cardinality(at(p))
  BY <1>0 DEF BaseRank
<1>4. IsFiniteSet(at(p)) /\ IsFiniteSet(at(q))
  <2>1. IsFiniteSet(1..Len(p)) /\ IsFiniteSet(1..Len(q))
    BY <1>0, <1>1, FS_Interval
  <2> QED
    BY <2>1, FS_Subset
<1>5. Cardinality(at(p)) \in Nat
  BY <1>4, FS_CardinalityType
<1>6. p = <<Empty>> => at(p) = {}
  BY DEF NonEmpty
<1>7. ASSUME p # <<Empty>>
      PROVE  /\ BaseRank(p) = -Len(Segments(p)) /\ Len(Segments(p)) \in Nat \ {0}
             /\ Segments(p) = [i \in 1..Len(Segments(p)) |-> Segments(p)[i]]
             /\ \A i \in 1..Len(Segments(p)) : Segments(p)[i] # Empty
  <2>1. p[Len(p)] # Empty /\ p[Len(p)] \in Texts
    BY <1>0, <1>7 DEF IsCatcherBase, End
  <2>2. at(p) = at(q) \cup {Len(p)} /\ Len(p) \notin at(q)
    BY <1>0, <1>1, <2>1 DEF NonEmpty
  <2> HIDE DEF at
  <2>3. Cardinality(at(p)) = Cardinality(at(q)) + 1
    BY <1>4, <2>2, FS_AddElement
  <2> DEFINE t == Append(k, End(p))
  <2>4. t \in Seq(Texts) /\ Len(t) = Len(k) + 1 /\ \A i \in 1..(Len(k) + 1) : t[i] # Empty
    <3> HIDE DEF k
    <3>1. End(p) \in Texts /\ End(p) # Empty
      BY <2>1 DEF End
    <3> QED
      BY <1>2, <3>1
  <2>5. Segments(p) = [i \in 1..(Len(k) + 1) |-> Decode(t[i])]
    BY DEF Segments, q
  <2> HIDE DEF k, t
  <2>6. \A i \in 1..(Len(k) + 1) : Decode(t[i]) # Empty
    BY <2>4, DecodeAssumption
  <2>7. Len(k) \in Nat
    BY <1>2
  <2> DEFINE d(i) == Decode(t[i])
  <2>8. Segments(p) = [i \in 1..(Len(k) + 1) |-> d(i)] /\ \A i \in 1..(Len(k) + 1) : d(i) # Empty
    BY <2>5, <2>6
  <2> HIDE DEF d
  <2>9. Len(Segments(p)) = Len(k) + 1
    BY <2>7, <2>8
  <2> QED
    BY <1>2, <1>3, <1>5, <2>3, <2>7, <2>8, <2>9
<1> HIDE DEF at
<1> QED
  BY <1>3, <1>5, <1>6, <1>7, FS_EmptySet

\* Completeness of the collision check for catchers: two of one rank that match the
\* same request have the same segments in their bases.
LEMMA MatchingBasesAgree ==
    ASSUME NEW p, NEW q, NEW t, IsCatcherBase(p), IsCatcherBase(q), BaseRank(p) = BaseRank(q),
           PrefixOf(Segments(p), t), PrefixOf(Segments(q), t)
    PROVE  Segments(p) = Segments(q)
<1>1. p = <<Empty>> <=> q = <<Empty>>
  BY CatcherRank
<1>2. CASE p = <<Empty>>
  BY <1>1, <1>2
<1>3. CASE p # <<Empty>>
  <2>1. Len(Segments(p)) = Len(Segments(q))
    BY <1>1, <1>3, CatcherRank
  <2>2. \A i \in 1..Len(Segments(p)) : Segments(p)[i] = t[i] /\ Segments(q)[i] = t[i]
    BY <1>1, <1>3, <2>1, CatcherRank DEF PrefixOf
  <2> QED
    BY <1>1, <1>3, <2>1, <2>2, CatcherRank
<1> QED
  BY <1>2, <1>3

-----------------------------------------------------------------------------
\* The inductive invariant: what is mounted and registered is well formed, and a
\* finalized router has no colliding pair and the tables that finalize() sorted.
RouteOk(r) == IsRoute(r) /\ r.rank \in Int /\ IsSeq(r.base) /\ IsSeq(r.unmounted) /\ IsSeq(r.uri)

RoutesOk == IsSeq(routes) /\ \A i \in Indices(routes) : RouteOk(routes[i])

CatcherOk(c) == IsCatcherBase(c.base) /\ c.rank = BaseRank(c.base)

CatchersOk == IsSeq(catchers) /\ \A i \in Indices(catchers) : CatcherOk(catchers[i])

FinalizedOk ==
    phase = "finalized" =>
        /\ RouteCollisions = {} /\ CatcherCollisions = {}
        /\ route_map = [m \in Methods |-> SortedByRank(routes, RoutesFor(m))]
        /\ catcher_map = [c \in Codes \cup {NoCode} |-> SortedByRank(catchers, CatchersFor(c))]

RouterInv == RoutesOk /\ CatchersOk /\ FinalizedOk

\* Rebasing keeps a route well formed.
LEMMA RebaseOk ==
    ASSUME NEW r, RouteOk(r), NEW base, IsSeq(base)
    PROVE  RouteOk(Rebase(r, base))
<1> DEFINE new == IF r.base = <<Empty>> THEN base ELSE Joined(base, r.base)
           b == PathToNormalized(new, TRUE)
           u == RouteUri(new, r.unmounted)
<1>1. IsSeq(new)
  BY ConcatIsSeq DEF Joined, RouteOk
<1> HIDE DEF new
<1>3. IsSeq(b) /\ IsSeq(u)
  BY <1>1, NormalFormsAreSeqs, RouteUriIsSeq DEF RouteOk
<1>2. Rebase(r, base) = [r EXCEPT !.base = b, !.uri = u]
  BY DEF Rebase, new
<1> HIDE DEF b, u
<1> QED
  BY <1>2, <1>3 DEF IsRoute, RouteOk

\* A sequence of well-formed things with one more at its end.
LEMMA AppendedOk ==
    ASSUME NEW s, IsSeq(s), NEW e
    PROVE  /\ IsSeq(Append(s, e))
           /\ \A i \in 1..Len(Append(s, e)) :
                 Append(s, e)[i] = e \/ (i \in 1..Len(s) /\ Append(s, e)[i] = s[i])
<1>1. PICK S : s \in Seq(S)
  BY DEF IsSeq
<1>2. IsSeq(Append(s, e))
  BY ConcatIsSeq
<1> QED
  BY <1>1, <1>2

\* Mounting one well-formed route more.
LEMMA MountOk ==
    ASSUME RouterInv, NEW r, RouteOk(r), NEW base \in Bases, Mount(r, base)
    PROVE  RouterInv'
<1>1. IsSeq(base)
  BY BasesAssumption DEF IsSeq, Path
<1> DEFINE q == Rebase(r, base)
<1>2. RouteOk(q)
  BY <1>1, RebaseOk
<1> HIDE DEF q
<1>3. routes' = Append(routes, q) /\ phase' = "pending" /\ catchers' = catchers
  BY DEF Mount, q
<1>4. IsSeq(routes') /\ \A i \in 1..Len(routes') :
            routes'[i] = q \/ (i \in 1..Len(routes) /\ routes'[i] = routes[i])
  BY <1>3, AppendedOk DEF RouterInv, RoutesOk
<1>5. RoutesOk'
  <2>1. ASSUME NEW i \in 1..Len(routes') PROVE RouteOk(routes'[i])
    <3>1. CASE routes'[i] = q
      BY <1>2, <3>1
    <3>2. CASE i \in 1..Len(routes) /\ routes'[i] = routes[i]
      BY <3>2 DEF RouterInv, RoutesOk, Indices
    <3> QED
      BY <1>4, <3>1, <3>2
  <2> QED
    BY <1>4, <2>1 DEF RoutesOk, Indices
<1>6. CatchersOk'
  BY <1>3 DEF RouterInv, CatchersOk, Indices
<1> QED
  BY <1>3, <1>5, <1>6 DEF RouterInv, FinalizedOk

\* Registering one catcher more, at any base.
LEMMA RegisterOk ==
    ASSUME RouterInv, NEW code, NEW base \in Scopes, Register(code, base)
    PROVE  RouterInv'
<1> DEFINE new == CatcherBase(base)
           c == RebaseCatcher(NewCatcher(code), base)
<1>1. IsCatcherBase(new)
  <2>1. base \in Path
    BY BasesAssumption
  <2> QED
    BY <2>1, CatcherBases
<1> HIDE DEF new
<1>2. c = [code |-> code, base |-> new, rank |-> BaseRank(new)]
  <2>1. c = [NewCatcher(code) EXCEPT !.base = new, !.rank = BaseRank(new)]
    BY DEF RebaseCatcher, NewCatcher, new
  <2> QED
    BY <2>1 DEF NewCatcher
<1>3. CatcherOk(c)
  BY <1>1, <1>2 DEF CatcherOk
<1> HIDE DEF c
<1>4. catchers' = Append(catchers, c) /\ phase' = "pending" /\ routes' = routes
  BY DEF Register, c
<1>5. IsSeq(catchers') /\ \A i \in 1..Len(catchers') :
            catchers'[i] = c \/ (i \in 1..Len(catchers) /\ catchers'[i] = catchers[i])
  BY <1>4, AppendedOk DEF RouterInv, CatchersOk
<1>6. CatchersOk'
  <2>1. ASSUME NEW i \in 1..Len(catchers') PROVE CatcherOk(catchers'[i])
    <3>1. CASE catchers'[i] = c
      BY <1>3, <3>1
    <3>2. CASE i \in 1..Len(catchers) /\ catchers'[i] = catchers[i]
      BY <3>2 DEF RouterInv, CatchersOk, Indices
    <3> QED
      BY <1>5, <3>1, <3>2
  <2> QED
    BY <1>5, <2>1 DEF CatchersOk, Indices
<1>7. RoutesOk'
  BY <1>4 DEF RouterInv, RoutesOk, Indices
<1> QED
  BY <1>4, <1>6, <1>7 DEF RouterInv, FinalizedOk

\* What does not change the lists does not change what is said of them.
LEMMA ListsKept ==
    ASSUME RoutesOk, CatchersOk, UNCHANGED <<routes, catchers>>
    PROVE  /\ RoutesOk' /\ CatchersOk'
           /\ RouteCollisions' = RouteCollisions /\ CatcherCollisions' = CatcherCollisions
BY DEF RoutesOk, CatchersOk, Indices, RouteCollisions, CatcherCollisions

\* Every step keeps the invariant.
LEMMA RouterInductive == RouterInv /\ [Next]_vars => RouterInv'
<1> SUFFICES ASSUME RouterInv, [Next]_vars PROVE RouterInv'
  OBVIOUS
<1>1. ASSUME NEW r \in Unmounted, NEW base \in Bases, Mount(r, base) PROVE RouterInv'
  <2>1. RouteOk(r)
    BY UnmountedAssumption DEF IsSeq, Path, RouteOk
  <2> QED
    BY <1>1, <2>1, MountOk
<1>2. ASSUME NEW i \in Indices(routes), NEW base \in Bases, Remount(i, base) PROVE RouterInv'
  <2>1. RouteOk(routes[i])
    BY DEF RouterInv, RoutesOk
  <2> QED
    BY <1>2, <2>1, MountOk DEF Remount
<1>3. ASSUME NEW code, NEW base \in Scopes, Register(code, base) PROVE RouterInv'
  BY <1>3, RegisterOk
<1>4. CASE FinalizeOk
  <2>1. UNCHANGED <<routes, catchers>> /\ RouteCollisions = {} /\ CatcherCollisions = {}
    BY <1>4 DEF FinalizeOk
  <2>2. \A m : RoutesFor(m)' = RoutesFor(m) /\ CatchersFor(m)' = CatchersFor(m)
    BY <2>1 DEF RoutesFor, CatchersFor, Indices
  <2>3. /\ route_map' = [m \in Methods |-> SortedByRank(routes', RoutesFor(m)')]
        /\ catcher_map' = [c \in Codes \cup {NoCode} |-> SortedByRank(catchers', CatchersFor(c)')]
    BY <1>4, <2>1, <2>2 DEF FinalizeOk
  <2> QED
    BY <2>1, <2>3, ListsKept DEF RouterInv, FinalizedOk
<1>5. CASE FinalizeErr
  <2>1. UNCHANGED <<routes, catchers>> /\ phase' = "collisions"
    BY <1>5 DEF FinalizeErr
  <2> QED
    BY <2>1, ListsKept DEF RouterInv, FinalizedOk
<1>6. CASE UNCHANGED vars
  <2>1. UNCHANGED <<routes, catchers, phase, route_map, catcher_map>>
    BY <1>6 DEF vars
  <2>2. \A m : RoutesFor(m)' = RoutesFor(m) /\ CatchersFor(m)' = CatchersFor(m)
    BY <2>1 DEF RoutesFor, CatchersFor, Indices
  <2> QED
    BY <2>1, <2>2, ListsKept DEF RouterInv, FinalizedOk
<1> QED
  BY <1>1, <1>2, <1>3, <1>4, <1>5, <1>6 DEF Next

\* The invariant holds initially.
LEMMA RouterStarts == Init => RouterInv
BY DEF Init, RouterInv, RoutesOk, CatchersOk, FinalizedOk, Indices, IsSeq

\* What the invariant means for routes of one rank
LEMMA NoTies == RouterInv => NoAmbiguity
<1> SUFFICES ASSUME RouterInv, phase = "finalized", NEW req \in Requests,
                    NEW i \in Indices(routes), NEW j \in Indices(routes), i # j,
                    Matches(routes[i], req), Matches(routes[j], req),
                    routes[i].rank = routes[j].rank
             PROVE  FALSE
  BY DEF NoAmbiguity
<1>1. Collide(routes[i], routes[j]) /\ Collide(routes[j], routes[i])
  BY RequestsAssumption, MatchingRoutesCollide DEF RouterInv, RoutesOk, RouteOk
<1>2. i < j \/ j < i
  BY ConcatIsSeq DEF RouterInv, RoutesOk, Indices
<1>3. <<i, j>> \in RouteCollisions \/ <<j, i>> \in RouteCollisions
  BY <1>1, <1>2 DEF RouteCollisions
<1> QED
  BY <1>3 DEF RouterInv, FinalizedOk

\* A router that finalize() accepted is unambiguous, whatever was mounted where
\* and in whatever order.
THEOREM RouterIsUnambiguous == Spec => []NoAmbiguity
BY RouterStarts, RouterInductive, NoTies, PTL DEF Spec

-----------------------------------------------------------------------------
(* The tables                                                              *)

\* A table has the indices that belong there, all of them, in the order of ranks.
IsTable(s, items, S) == Lists(s, Len(s), items, S)

\* Sorting gives a table.
LEMMA SortedTable ==
    ASSUME NEW items, NEW l \in Nat, NEW S \in SUBSET (1..l), \A i \in S : items[i].rank \in Int
    PROVE  IsTable(SortedByRank(items, S), items, S)
<1> DEFINE s == SortedByRank(items, S)
           c == Cardinality(S)
<1>1. Lists(s, c, items, S)
  BY SortedLists
<1> HIDE DEF s, c
<1>2. c \in Nat /\ s = [n \in 1..c |-> s[n]]
  BY <1>1 DEF Lists
<1>3. Len(s) = c
  <2> DEFINE e(n) == s[n]
  <2>1. s = [n \in 1..c |-> e(n)]
    BY <1>2
  <2> HIDE DEF e
  <2> QED
    BY <1>2, <2>1
<1> QED
  BY <1>1, <1>3 DEF IsTable, s

\* The tables of a finalized router
LEMMA Tables ==
    ASSUME RouterInv, phase = "finalized"
    PROVE  /\ \A m \in Methods : IsTable(route_map[m], routes, RoutesFor(m))
           /\ \A c \in Codes \cup {NoCode} : IsTable(catcher_map[c], catchers, CatchersFor(c))
<1>1. Len(routes) \in Nat /\ Len(catchers) \in Nat
  BY ConcatIsSeq DEF RouterInv, RoutesOk, CatchersOk
<1>2. ASSUME NEW m \in Methods PROVE IsTable(route_map[m], routes, RoutesFor(m))
  <2>1. RoutesFor(m) \in SUBSET (1..Len(routes)) /\ \A i \in RoutesFor(m) : routes[i].rank \in Int
    BY DEF RoutesFor, Indices, RouterInv, RoutesOk, RouteOk
  <2>2. IsTable(SortedByRank(routes, RoutesFor(m)), routes, RoutesFor(m))
    BY <1>1, <2>1, SortedTable
  <2>3. route_map[m] = SortedByRank(routes, RoutesFor(m))
    BY DEF RouterInv, FinalizedOk
  <2> QED
    BY <2>2, <2>3
<1>3. ASSUME NEW c \in Codes \cup {NoCode} PROVE IsTable(catcher_map[c], catchers, CatchersFor(c))
  <2>1. CatchersFor(c) \in SUBSET (1..Len(catchers))
    BY DEF CatchersFor, Indices
  <2>2. ASSUME NEW i \in CatchersFor(c) PROVE catchers[i].rank \in Int
    <3>1. CatcherOk(catchers[i])
      BY DEF CatchersFor, RouterInv, CatchersOk
    <3> QED
      BY <3>1, CatcherRank DEF CatcherOk
  <2>3. IsTable(SortedByRank(catchers, CatchersFor(c)), catchers, CatchersFor(c))
    BY <1>1, <2>1, <2>2, SortedTable
  <2>4. catcher_map[c] = SortedByRank(catchers, CatchersFor(c))
    BY DEF RouterInv, FinalizedOk
  <2> QED
    BY <2>3, <2>4
<1> QED
  BY <1>2, <1>3

\* Router::route is exact: every matching route is in the table of the method, and
\* picking keeps the order, in which ranks do not tie.
LEMMA RoutesAreRanked == RouterInv => RouteIsTheRanking
<1> SUFFICES ASSUME RouterInv, phase = "finalized", NEW req \in Requests
             PROVE  /\ {Route(req)[n] : n \in Indices(Route(req))} =
                            {i \in Indices(routes) : Matches(routes[i], req)}
                    /\ \A m, n \in Indices(Route(req)) :
                            m < n => routes[Route(req)[m]].rank < routes[Route(req)[n]].rank
  BY DEF RouteIsTheRanking
<1> DEFINE s == route_map[req.method]
           S == RoutesFor(req.method)
           Hit(i) == Matches(routes[i], req)
           at == {k \in 1..Len(s) : Hit(s[k])}
           t == Route(req)
<1>1. IsTable(s, routes, S)
  BY Tables, RequestsAssumption
<1>2. t = Picked(s, at)
  BY DEF Route, Kept
<1>3. \A i \in S : i \in 1..Len(routes) /\ i \in Indices(routes)
  BY DEF RoutesFor, Indices
<1>4. \A i \in Indices(routes) : Hit(i) => i \in S
  BY DEF RoutesFor, Matches, MethodsMatch
<1>a. at \in SUBSET (1..Len(s)) /\ \A k \in at : k \in 1..Len(s) /\ Hit(s[k])
  OBVIOUS
<1>b. \A k \in 1..Len(s) : Hit(s[k]) => k \in at
  OBVIOUS
<1>h. \A i : Hit(i) <=> Matches(routes[i], req)
  OBVIOUS
<1> HIDE DEF s, S, Hit, at, t
<1>5. PICK pos : IsPicking(pos, s, at)
  <2>1. Len(s) \in Nat
    BY <1>1 DEF IsTable, Lists
  <2> DEFINE l == Len(s)
  <2>2. l \in Nat /\ at \in SUBSET (1..l)
    BY <1>a, <2>1
  <2> HIDE DEF l
  <2> QED
    BY <2>2, PickedPlaces
<1> DEFINE N == 1..Cardinality(at)
<1>6. Len(t) = Cardinality(at) /\ Indices(t) = N
  <2> DEFINE el(n) == s[CHOOSE i \in at : Cardinality({j \in at : j <= i}) = n]
  <2>1. t = [n \in N |-> el(n)]
    BY <1>2 DEF Picked
  <2>2. Cardinality(at) \in Nat
    BY <1>5 DEF IsPicking
  <2> HIDE DEF el
  <2>3. Len(t) = Cardinality(at)
    BY <2>1, <2>2
  <2> QED
    BY <2>3 DEF Indices
<1>7. ASSUME NEW n \in N
      PROVE  pos[n] \in at /\ t[n] = s[pos[n]] /\ Hit(t[n]) /\ t[n] \in S /\ pos[n] \in 1..Len(s)
  <2>1. pos[n] \in at /\ t[n] = s[pos[n]]
    BY <1>2, <1>5 DEF IsPicking
  <2>2. pos[n] \in 1..Len(s) /\ Hit(s[pos[n]])
    BY <1>a, <2>1
  <2>3. s[pos[n]] \in S
    BY <1>1, <2>2 DEF IsTable, Lists
  <2> QED
    BY <2>1, <2>2, <2>3
<1>8. ASSUME NEW i \in Indices(routes), Hit(i) PROVE \E n \in N : t[n] = i
  <2>1. PICK k \in 1..Len(s) : s[k] = i
    BY <1>1, <1>4, <1>8 DEF IsTable, Lists
  <2>2. k \in at
    BY <1>b, <1>8, <2>1
  <2>3. PICK n \in N : pos[n] = k
    BY <1>5, <2>2 DEF IsPicking
  <2> QED
    BY <1>7, <2>1, <2>3
<1>9. ASSUME NEW m \in N, NEW n \in N, m < n PROVE routes[t[m]].rank < routes[t[n]].rank
  <2>1. pos[m] < pos[n]
    BY <1>5, <1>9 DEF IsPicking
  <2>2. /\ pos[m] \in 1..Len(s) /\ t[m] = s[pos[m]] /\ Hit(t[m]) /\ t[m] \in S
        /\ pos[n] \in 1..Len(s) /\ t[n] = s[pos[n]] /\ Hit(t[n]) /\ t[n] \in S
    BY <1>7
  <2>3. routes[t[m]].rank <= routes[t[n]].rank
    BY <1>1, <2>1, <2>2 DEF IsTable, Lists
  <2>4. t[m] \in Indices(routes) /\ t[n] \in Indices(routes)
    BY <1>3, <2>2
  <2>5. routes[t[m]].rank \in Int /\ routes[t[n]].rank \in Int
    BY <2>4 DEF RouterInv, RoutesOk, RouteOk
  <2>6. t[m] # t[n]
    <3> SUFFICES ASSUME t[m] = t[n] PROVE FALSE
      OBVIOUS
    <3>1. pos[m] = pos[n]
      BY <1>1, <2>2 DEF IsTable, Lists
    <3> QED
      BY <2>1, <2>2, <3>1
  <2>7. routes[t[m]].rank # routes[t[n]].rank
    BY <2>2, <2>4, <2>6, <1>h, NoTies DEF NoAmbiguity
  <2> QED
    BY <2>3, <2>5, <2>7
<1> HIDE DEF N
<1>10. {t[n] : n \in N} = {i \in Indices(routes) : Hit(i)}
  <2>1. \A n \in N : t[n] \in Indices(routes) /\ Hit(t[n])
    BY <1>3, <1>7
  <2> QED
    BY <1>8, <2>1
<1>11. {i \in Indices(routes) : Hit(i)} = {i \in Indices(routes) : Matches(routes[i], req)}
  BY <1>h
<1> QED
  BY <1>6, <1>9, <1>10, <1>11 DEF t

\* A set of naturals has a least element.
LEMMA LeastPlace ==
    ASSUME NEW S \in SUBSET Nat, S # {}
    PROVE  \E m \in S : \A k \in S : m <= k
<1> DEFINE R == {p \in Nat \X Nat : p[1] < p[2]}
<1>1. IsWellFoundedOn(R, Nat)
  BY NatLessThanWellFounded DEF OpToRel
<1> HIDE DEF R
<1>2. PICK x \in S : \A y \in S : ~(<<y, x>> \in R)
  BY <1>1, WFMin
<1>3. \A y \in S : ~(y < x)
  BY <1>2 DEF R
<1> QED
  BY <1>3

\* The catchers of one table that match
Candidates(c, code, req) == {i \in CatchersFor(c) : CatcherMatches(catchers[i], code, req)}

\* The first that matches in a table has the least rank, and no other has it: two of
\* one rank that match would collide.
LEMMA FirstIsBest ==
    ASSUME RouterInv, phase = "finalized", NEW c \in Codes \cup {NoCode}, NEW code, NEW req
    PROVE  LET f == FindCatcher(catcher_map[c], code, req)
               all == Candidates(c, code, req)
           IN  IF all = {} THEN f = 0
               ELSE f \in all /\ \A j \in all \ {f} : catchers[f].rank < catchers[j].rank
<1> DEFINE s == catcher_map[c]
           S == CatchersFor(c)
           Hit(i) == CatcherMatches(catchers[i], code, req)
           found == {n \in 1..Len(s) : Hit(s[n])}
           all == Candidates(c, code, req)
           n == CHOOSE n \in found : \A k \in found : n <= k
           f == FindCatcher(s, code, req)
<1>1. IsTable(s, catchers, S)
  BY Tables
<1>2. f = IF found = {} THEN 0 ELSE s[n]
  BY DEF FindCatcher, Indices
<1>3. \A i : i \in all <=> i \in S /\ Hit(i)
  BY DEF Candidates
<1>4. \A i \in S : i \in Indices(catchers) /\ catchers[i].code = c
  BY DEF CatchersFor
<1>5. \A k : k \in found <=> k \in 1..Len(s) /\ Hit(s[k])
  OBVIOUS
<1>6. found # {} => n \in found /\ \A k \in found : n <= k
  <2>1. found \in SUBSET Nat
    BY <1>1 DEF IsTable, Lists
  <2> HIDE DEF found
  <2> QED
    BY <2>1, LeastPlace
<1>7. ASSUME NEW i \in all, NEW j \in all, i # j PROVE catchers[i].rank # catchers[j].rank
  <2> SUFFICES ASSUME catchers[i].rank = catchers[j].rank PROVE FALSE
    OBVIOUS
  <2>1. /\ i \in Indices(catchers) /\ CatcherOk(catchers[i]) /\ Hit(i) /\ catchers[i].code = c
        /\ j \in Indices(catchers) /\ CatcherOk(catchers[j]) /\ Hit(j) /\ catchers[j].code = c
    BY <1>3, <1>4 DEF RouterInv, CatchersOk
  <2>2. Segments(catchers[i].base) = Segments(catchers[j].base)
    BY <2>1, MatchingBasesAgree DEF CatcherMatches, CatcherOk
  <2>3. CatchersCollide(catchers[i], catchers[j]) /\ CatchersCollide(catchers[j], catchers[i])
    BY <2>1, <2>2 DEF CatchersCollide
  <2>4. i < j \/ j < i
    BY <1>7, <2>1, ConcatIsSeq DEF RouterInv, CatchersOk, Indices
  <2>5. <<i, j>> \in CatcherCollisions \/ <<j, i>> \in CatcherCollisions
    BY <2>1, <2>3, <2>4 DEF CatcherCollisions
  <2> QED
    BY <2>5 DEF RouterInv, FinalizedOk
<1> HIDE DEF s, S, Hit, found, all, n, f
<1>8. ASSUME NEW i \in all PROVE \E k \in found : s[k] = i
  BY <1>1, <1>3, <1>5 DEF IsTable, Lists
<1>9. CASE found = {}
  BY <1>2, <1>8, <1>9 DEF s, all, f
<1>10. CASE found # {}
  <2>1. n \in found /\ f = s[n] /\ f \in all /\ n \in 1..Len(s)
    BY <1>1, <1>2, <1>3, <1>5, <1>6, <1>10 DEF IsTable, Lists
  <2>2. ASSUME NEW j \in all \ {f} PROVE catchers[f].rank < catchers[j].rank
    <3>1. PICK k \in found : s[k] = j
      BY <1>8
    <3>2. k # n
      BY <2>1, <2>2, <3>1
    <3>3. k \in 1..Len(s) /\ Len(s) \in Nat /\ n <= k
      BY <1>1, <1>5, <1>6, <1>10, <3>1 DEF IsTable, Lists
    <3>4. n < k
      BY <2>1, <3>2, <3>3
    <3>5. catchers[f].rank <= catchers[j].rank
      BY <1>1, <2>1, <3>1, <3>3, <3>4 DEF IsTable, Lists
    <3>6. catchers[f].rank # catchers[j].rank
      BY <1>7, <2>1, <2>2
    <3>7. catchers[f].rank \in Int /\ catchers[j].rank \in Int
      <4>1. f \in Indices(catchers) /\ j \in Indices(catchers)
        BY <1>3, <1>4, <2>1, <2>2
      <4>2. CatcherOk(catchers[f]) /\ CatcherOk(catchers[j])
        BY <4>1 DEF RouterInv, CatchersOk
      <4> QED
        BY <4>2, CatcherRank DEF CatcherOk
    <3> QED
      BY <3>5, <3>6, <3>7
  <2> QED
    BY <2>1, <2>2 DEF s, all, f
<1> QED
  BY <1>9, <1>10

\* Router::catch is exact: of the best with the code and the best default catcher it
\* takes the better one.
LEMMA CatcherIsBest == RouterInv => CatchIsTheBest
<1> SUFFICES ASSUME RouterInv, phase = "finalized", NEW req \in Requests, NEW code \in Codes
             PROVE  LET all == {i \in Indices(catchers) : CatcherMatches(catchers[i], code, req)}
                    IN  IF all = {} THEN Catch(code, req) = 0
                        ELSE /\ Catch(code, req) \in all
                             /\ \A j \in all \ {Catch(code, req)} : BetterCatcher(Catch(code, req), j)
  BY DEF CatchIsTheBest
<1> DEFINE all == {i \in Indices(catchers) : CatcherMatches(catchers[i], code, req)}
           E == Candidates(code, code, req)
           D == Candidates(NoCode, code, req)
           e == FindCatcher(catcher_map[code], code, req)
           d == FindCatcher(catcher_map[NoCode], code, req)
           c == Catch(code, req)
           rk(i) == catchers[i].rank
<1>1. all = E \cup D
  BY DEF Candidates, CatchersFor, CatcherMatches
<1>2. IF E = {} THEN e = 0 ELSE e \in E /\ \A j \in E \ {e} : rk(e) < rk(j)
  BY FirstIsBest
<1>3. IF D = {} THEN d = 0 ELSE d \in D /\ \A j \in D \ {d} : rk(d) < rk(j)
  BY FirstIsBest
<1>4. c = IF e # 0 /\ d # 0 THEN IF rk(e) <= rk(d) THEN e ELSE d
          ELSE IF e # 0 THEN e ELSE d
  BY DEF Catch
<1>5. \A i \in all : i # 0 /\ rk(i) \in Int
  <2>1. ASSUME NEW i \in all PROVE i # 0 /\ rk(i) \in Int
    <3>1. CatcherOk(catchers[i]) /\ i # 0
      BY DEF RouterInv, CatchersOk, Indices
    <3> QED
      BY <3>1, CatcherRank DEF CatcherOk
  <2> QED
    BY <2>1
<1>6. \A j \in D : catchers[j].code = NoCode
  BY DEF Candidates, CatchersFor
<1>7. \A i, j : BetterCatcher(i, j) <=> rk(i) < rk(j) \/ (rk(i) = rk(j) /\ catchers[j].code = NoCode)
  BY DEF BetterCatcher
<1>g. SUFFICES IF all = {} THEN c = 0
               ELSE c \in all /\ \A j \in all \ {c} : BetterCatcher(c, j)
  OBVIOUS
<1> HIDE DEF all, E, D, e, d, c, rk
<1>8. CASE E = {} /\ D = {}
  BY <1>1, <1>2, <1>3, <1>4, <1>8
<1>9. CASE E # {} /\ D = {}
  BY <1>1, <1>2, <1>3, <1>4, <1>5, <1>7, <1>9
<1>10. CASE E = {} /\ D # {}
  BY <1>1, <1>2, <1>3, <1>4, <1>5, <1>7, <1>10
<1>11. CASE E # {} /\ D # {}
  <2>1. e \in all /\ d \in all /\ rk(e) \in Int /\ rk(d) \in Int /\ e # 0 /\ d # 0
    BY <1>1, <1>2, <1>3, <1>5, <1>11
  <2>2. CASE rk(e) <= rk(d)
    <3>1. c = e
      BY <1>4, <2>1, <2>2
    <3>2. ASSUME NEW j \in all, j # e PROVE BetterCatcher(e, j)
      <4>0. rk(j) \in Int
        BY <1>5
      <4>1. CASE j \in E
        BY <1>2, <1>7, <1>11, <3>2, <4>1
      <4>2. CASE j \in D
        <5>1. rk(d) <= rk(j)
          BY <1>3, <1>11, <2>1, <4>0, <4>2
        <5>2. rk(e) < rk(j) \/ rk(e) = rk(j)
          BY <2>1, <2>2, <4>0, <5>1
        <5> QED
          BY <1>6, <1>7, <4>2, <5>2
      <4> QED
        BY <1>1, <4>1, <4>2
    <3> QED
      BY <2>1, <3>1, <3>2
  <2>3. CASE ~(rk(e) <= rk(d))
    <3>1. c = d
      BY <1>4, <2>1, <2>3
    <3>2. ASSUME NEW j \in all, j # d PROVE BetterCatcher(d, j)
      <4>0. rk(j) \in Int
        BY <1>5
      <4>1. CASE j \in D
        BY <1>3, <1>7, <1>11, <3>2, <4>1
      <4>2. CASE j \in E
        <5>1. rk(e) <= rk(j)
          BY <1>2, <1>11, <2>1, <4>0, <4>2
        <5>2. rk(d) < rk(j)
          BY <2>1, <2>3, <4>0, <5>1
        <5> QED
          BY <1>7, <5>2
      <4> QED
        BY <1>1, <4>1, <4>2
    <3> QED
      BY <2>1, <3>1, <3>2
  <2> QED
    BY <2>2, <2>3
<1> QED
  BY <1>8, <1>9, <1>10, <1>11

\* Both look-ups of every router that finalize() accepted are exact, for any routes,
\* catchers, bases, codes and requests.
THEOREM RouterIsExact == Spec => []LookupsAreExact
<1>1. RouterInv => LookupsAreExact
  BY RoutesAreRanked, CatcherIsBest DEF LookupsAreExact
<1> QED
  BY <1>1, RouterStarts, RouterInductive, PTL DEF Spec

-----------------------------------------------------------------------------
\* Rewriting URIs: the calls of Origin.

\* The element at place i of s is the one that as many picked places as precede it
\* make it.
LEMMA PickedAt ==
    ASSUME NEW s, NEW l \in Nat, NEW at \in SUBSET (1..l)
    PROVE  /\ Cardinality(at) \in Nat
           /\ \A i \in at : /\ Cardinality({j \in at : j <= i}) \in 1..Cardinality(at)
                            /\ Picked(s, at)[Cardinality({j \in at : j <= i})] = s[i]
           /\ \A n \in 1..Cardinality(at) : \E i \in at : Cardinality({j \in at : j <= i}) = n
<1> DEFINE R == {p \in at \X at : p[1] < p[2]}
           upto(i) == {j \in at : j <= i}
           N == 1..Cardinality(at)
<1>1. IsFiniteSet(at)
  <2>1. IsFiniteSet(1..l)
    BY FS_Interval
  <2> QED
    BY <2>1, FS_Subset
<1>2. /\ \A x \in at : <<x, x>> \notin R
      /\ \A x, y \in at : x = y \/ <<x, y>> \in R \/ <<y, x>> \in R
      /\ \A x, y, z \in at : <<x, y>> \in R /\ <<y, z>> \in R => <<x, z>> \in R
  OBVIOUS
<1>3. ASSUME NEW i \in at PROVE Cardinality(upto(i)) = Place(i, at, R)
  <2>1. \A j \in at : j <= i <=> j = i \/ <<j, i>> \in R
    OBVIOUS
  <2>2. upto(i) = {j \in at : j = i \/ <<j, i>> \in R}
    BY <2>1
  <2> QED
    BY <2>2 DEF Place
<1>q. \A n \in N : Picked(s, at)[n] = s[CHOOSE i \in at : Cardinality(upto(i)) = n]
  BY DEF Picked
<1> HIDE DEF R, upto
<1>4. /\ Cardinality(at) \in Nat
      /\ \A x \in at : Place(x, at, R) \in N
      /\ \A x, y \in at : Place(x, at, R) < Place(y, at, R) <=> <<x, y>> \in R
      /\ \A n \in N : \E x \in at : Place(x, at, R) = n
  BY <1>1, <1>2, Places
<1>5. ASSUME NEW i \in at, NEW k \in at, Cardinality(upto(k)) = Cardinality(upto(i)) PROVE k = i
  <2>0. Place(k, at, R) = Place(i, at, R)
    BY <1>3, <1>5
  <2>1. Place(i, at, R) \in Nat
    BY <1>4
  <2>2. ~(Place(k, at, R) < Place(i, at, R)) /\ ~(Place(i, at, R) < Place(k, at, R))
    BY <2>0, <2>1
  <2>3. <<k, i>> \notin R /\ <<i, k>> \notin R
    BY <1>4, <2>2
  <2> QED
    BY <1>2, <2>3
<1>6. ASSUME NEW i \in at
      PROVE  Cardinality(upto(i)) \in N /\ Picked(s, at)[Cardinality(upto(i))] = s[i]
  <2>1. PICK n \in N : n = Cardinality(upto(i))
    BY <1>3, <1>4
  <2> DEFINE k == CHOOSE k \in at : Cardinality(upto(k)) = n
  <2>2. k \in at /\ Cardinality(upto(k)) = n
    BY <2>1
  <2> HIDE DEF k
  <2>3. k = i
    BY <1>5, <2>1, <2>2
  <2>4. Picked(s, at)[n] = s[k]
    BY <1>q DEF k
  <2> QED
    BY <2>1, <2>3, <2>4
<1>7. \A n \in N : \E i \in at : Cardinality(upto(i)) = n
  BY <1>3, <1>4
<1> QED
  BY <1>4, <1>6, <1>7 DEF upto

\* k has the elements of s at the given places, each where it belongs.
Agrees(k, s, at) ==
    /\ k = [n \in 1..Cardinality(at) |-> k[n]]
    /\ \A i \in at : k[Cardinality({j \in at : j <= i})] = s[i]

\* Then it is what is picked.
LEMMA PickedIs ==
    ASSUME NEW s, NEW l \in Nat, NEW at \in SUBSET (1..l), NEW k, Agrees(k, s, at)
    PROVE  Picked(s, at) = k
<1> DEFINE el(n) == s[CHOOSE i \in at : Cardinality({j \in at : j <= i}) = n]
<1>1. Picked(s, at) = [n \in 1..Cardinality(at) |-> el(n)]
  BY DEF Picked
<1>2. ASSUME NEW n \in 1..Cardinality(at) PROVE Picked(s, at)[n] = k[n]
  <2>1. PICK i \in at : Cardinality({j \in at : j <= i}) = n
    BY PickedAt
  <2>2. Picked(s, at)[Cardinality({j \in at : j <= i})] = s[i]
    BY PickedAt
  <2>3. Picked(s, at)[n] = s[i] /\ k[n] = s[i]
    BY <2>1, <2>2 DEF Agrees
  <2> QED
    BY <2>3
<1> HIDE DEF el
<1>3. \A n \in 1..Cardinality(at) : el(n) = k[n]
  BY <1>1, <1>2
<1> QED
  BY <1>1, <1>3 DEF Agrees

\* What has no empty texts is kept as it is.
LEMMA KeptWhole ==
    ASSUME NEW s \in Seq(Texts), \A i \in 1..Len(s) : s[i] # Empty
    PROVE  Kept(s, NonEmpty) = s
<1> DEFINE l == Len(s)
           at == 1..l
<1>1. Kept(s, NonEmpty) = Picked(s, at)
  <2>1. {i \in 1..Len(s) : NonEmpty(s[i])} = at
    BY DEF NonEmpty
  <2> QED
    BY <2>1 DEF Kept
<1>2. l \in Nat /\ s = [n \in 1..l |-> s[n]]
  OBVIOUS
<1> HIDE DEF l
<1>3. Cardinality(at) = l
  BY <1>2, FS_Interval
<1>4. ASSUME NEW i \in at PROVE Cardinality({j \in at : j <= i}) = i
  <2>1. {j \in at : j <= i} = 1..i
    BY <1>2
  <2>2. Cardinality(1..i) = i
    BY <1>2, FS_Interval
  <2> QED
    BY <2>1, <2>2
<1>5. at \in SUBSET (1..l) /\ s = [n \in 1..Cardinality(at) |-> s[n]]
  BY <1>2, <1>3
<1>6. \A i \in at : s[Cardinality({j \in at : j <= i})] = s[i]
  BY <1>4
<1>7. Agrees(s, s, at)
  BY <1>5, <1>6 DEF Agrees
<1> HIDE DEF at
<1> QED
  BY <1>1, <1>2, <1>5, <1>7, PickedIs

\* One text more: it is kept at the end, or not at all.
LEMMA KeptAppend ==
    ASSUME NEW s \in Seq(Texts), NEW e \in Texts
    PROVE  Kept(Append(s, e), NonEmpty) =
              IF e = Empty THEN Kept(s, NonEmpty) ELSE Append(Kept(s, NonEmpty), e)
<1> DEFINE l == Len(s)
           t == Append(s, e)
           at == {i \in 1..Len(s) : NonEmpty(s[i])}
           at2 == {i \in 1..Len(t) : NonEmpty(t[i])}
           k == Kept(s, NonEmpty)
           upto(i) == {j \in at : j <= i}
           upto2(i) == {j \in at2 : j <= i}
<1>1. l \in Nat /\ Len(t) = l + 1 /\ t[l + 1] = e /\ \A i \in 1..l : t[i] = s[i]
  OBVIOUS
<1>2. k = Picked(s, at) /\ Kept(t, NonEmpty) = Picked(t, at2)
  BY DEF Kept
<1>3. k \in Seq(Texts) /\ Len(k) = Cardinality(at)
  BY KeptTexts
<1>4. /\ at \in SUBSET (1..l) /\ at2 \in SUBSET (1..(l + 1))
      /\ e = Empty => at2 = at
      /\ e # Empty => at2 = at \cup {l + 1}
      /\ \A i \in at : i \in 1..l /\ t[i] = s[i]
  BY <1>1 DEF NonEmpty
<1> HIDE DEF l, t, at, at2, k
<1>5. Cardinality(at) \in Nat
  BY <1>1, <1>4, PickedAt
<1>6. \A i \in at : Cardinality(upto(i)) \in 1..Cardinality(at) /\ k[Cardinality(upto(i))] = s[i]
  BY <1>1, <1>2, <1>4, PickedAt
<1>k. k = [n \in 1..Cardinality(at) |-> k[n]]
  BY <1>3
<1>m. l + 1 \in Nat
  BY <1>1
<1>7. CASE e = Empty
  <2>1. \A i \in at : k[Cardinality(upto(i))] = t[i]
    BY <1>4, <1>6
  <2>a. Agrees(k, t, at)
    BY <1>k, <2>1 DEF Agrees
  <2>2. Picked(t, at) = k
    BY <1>1, <1>4, <2>a, PickedIs
  <2> QED
    BY <1>2, <1>4, <1>7, <2>2 DEF k, t
<1>8. CASE e # Empty
  <2> DEFINE k2 == Append(k, e)
  <2>1. at2 = at \cup {l + 1} /\ l + 1 \notin at
    BY <1>1, <1>4, <1>8
  <2>2. Cardinality(at2) = Cardinality(at) + 1
    <3>1. IsFiniteSet(1..l)
      BY <1>1, FS_Interval
    <3>2. IsFiniteSet(at)
      BY <1>4, <3>1, FS_Subset
    <3> QED
      BY <2>1, <3>2, FS_AddElement
  <2>3. k2 = [n \in 1..Cardinality(at2) |-> k2[n]]
    <3>1. k2 \in Seq(Texts) /\ Len(k2) = Cardinality(at2)
      BY <1>3, <1>5, <2>2
    <3> HIDE DEF k2
    <3> QED
      BY <3>1
  <2>4. /\ \A n \in 1..Cardinality(at) : k2[n] = k[n]
        /\ k2[Cardinality(at) + 1] = e
    BY <1>3, <1>5
  <2> HIDE DEF k2
  <2>5. ASSUME NEW i \in at2 PROVE k2[Cardinality(upto2(i))] = t[i]
    <3>1. CASE i \in at
      <4>1. upto2(i) = upto(i)
        BY <1>1, <1>4, <2>1, <3>1
      <4>2. Cardinality(upto(i)) \in 1..Cardinality(at) /\ k[Cardinality(upto(i))] = s[i] /\ t[i] = s[i]
        BY <1>4, <1>6, <3>1
      <4> HIDE DEF upto, upto2
      <4>3. k2[Cardinality(upto(i))] = k[Cardinality(upto(i))]
        BY <2>4, <4>2
      <4> QED
        BY <4>1, <4>2, <4>3
    <3>2. CASE i = l + 1
      <4>0. \A j \in at2 : j \in 1..(l + 1)
        BY <1>4
      <4>1. upto2(i) = at2
        <5>1. \A j \in at2 : j <= i
          BY <1>1, <3>2, <4>0
        <5> QED
          BY <5>1
      <4> HIDE DEF upto2
      <4>2. k2[Cardinality(upto2(i))] = e
        BY <2>2, <2>4, <4>1
      <4>3. t[i] = e
        BY <1>1, <3>2
      <4> QED
        BY <4>2, <4>3
    <3> QED
      BY <2>1, <3>1, <3>2
  <2>a. Agrees(k2, t, at2)
    BY <2>3, <2>5 DEF Agrees
  <2>6. Picked(t, at2) = k2
    <3> DEFINE m == l + 1
    <3>1. m \in Nat /\ at2 \in SUBSET (1..m)
      BY <1>m, <1>4
    <3> HIDE DEF m
    <3> QED
      BY <2>a, <3>1, PickedIs
  <2> QED
    BY <1>2, <1>8, <2>6 DEF k, t, k2
<1> QED
  BY <1>7, <1>8

-----------------------------------------------------------------------------
\* What matching looks at in a path, up to the trailing slash: its nonempty segments.
Core(k) == IF k = <<>> THEN <<Empty>> ELSE [i \in 1..Len(k) |-> Decode(k[i])]

\* It depends on the texts that are kept, and on nothing else.
LEMMA SegmentsAreCore ==
    ASSUME NEW p \in Path
    PROVE  WithoutTrail(Segments(p)) = Core(Kept(p, NonEmpty))
<1> DEFINE q == SubSeq(p, 1, Len(p) - 1)
           e == p[Len(p)]
           k == Kept(q, NonEmpty)
           t == Append(k, e)
           d(s) == [i \in 1..Len(s) |-> Decode(s[i])]
           g == Segments(p)
<1>1. p \in Seq(Texts) /\ p # <<>> /\ q \in Seq(Texts) /\ e \in Texts /\ p = Append(q, e)
  BY DEF Path
<1>2. Kept(p, NonEmpty) = IF e = Empty THEN k ELSE Append(k, e)
  <2> HIDE DEF q, e, k
  <2>1. Kept(Append(q, e), NonEmpty) =
              IF e = Empty THEN Kept(q, NonEmpty) ELSE Append(Kept(q, NonEmpty), e)
    BY <1>1, KeptAppend
  <2> QED
    BY <1>1, <2>1 DEF k
<1>3. k \in Seq(Texts)
  <2> HIDE DEF q
  <2> QED
    BY <1>1, KeptTexts
<1>4. Segments(p) = [i \in 1..(Len(k) + 1) |-> Decode(t[i])]
  BY DEF Segments, End
<1> HIDE DEF q, e, k
<1>5. t \in Seq(Texts) /\ Len(t) = Len(k) + 1 /\ t[Len(k) + 1] = e /\ \A i \in 1..Len(k) : t[i] = k[i]
  BY <1>1, <1>3
<1>6. Len(k) \in Nat
  BY <1>3
<1> HIDE DEF t, g
<1>7. g = [i \in 1..(Len(k) + 1) |-> Decode(t[i])]
  BY <1>4 DEF g
<1>8. Len(g) = Len(k) + 1 /\ End(g) = Decode(e)
  <2> DEFINE v(i) == Decode(t[i])
  <2>1. g = [i \in 1..(Len(k) + 1) |-> v(i)]
    BY <1>7
  <2>2. v(Len(k) + 1) = Decode(e)
    BY <1>5
  <2> HIDE DEF v
  <2>3. Len(g) = Len(k) + 1
    BY <1>6, <2>1
  <2>4. g[Len(k) + 1] = v(Len(k) + 1)
    BY <1>6, <2>1
  <2> QED
    BY <2>2, <2>3, <2>4 DEF End
<1>9. CASE e # Empty
  <2>1. Decode(e) # Empty
    BY <1>1, <1>9, DecodeAssumption
  <2>2. WithoutTrail(g) = g
    BY <1>8, <2>1 DEF WithoutTrail
  <2>3. Core(t) = g
    BY <1>5, <1>6, <1>7 DEF Core
  <2>4. Kept(p, NonEmpty) = t
    BY <1>2, <1>9 DEF t
  <2> QED
    BY <2>2, <2>3, <2>4 DEF g
<1>10. CASE e = Empty
  <2>0. Decode(e) = Empty /\ Kept(p, NonEmpty) = k
    BY <1>1, <1>2, <1>10, DecodeAssumption
  <2>1. CASE k = <<>>
    <3>0. Len(k) = 0
      BY <2>1
    <3>1. WithoutTrail(g) = g
      BY <1>8, <3>0 DEF WithoutTrail
    <3>2. g = <<Empty>>
      <4>1. t[1] = e
        BY <1>5, <3>0
      <4>2. g = [i \in 1..1 |-> Decode(t[i])]
        BY <1>7, <3>0
      <4>3. \A i \in 1..1 : Decode(t[i]) = Empty
        BY <2>0, <4>1
      <4>4. g = [i \in 1..1 |-> Empty]
        BY <4>2, <4>3
      <4> QED
        BY <4>4
    <3> QED
      BY <2>0, <2>1, <3>1, <3>2 DEF Core, g
  <2>2. CASE k # <<>>
    <3>1. Len(k) > 0
      BY <1>3, <2>2
    <3>2. WithoutTrail(g) = SubSeq(g, 1, Len(k))
      <4>1. Len(g) > 1 /\ End(g) = Empty /\ Len(g) - 1 = Len(k)
        BY <1>6, <1>8, <2>0, <3>1
      <4> QED
        BY <4>1 DEF WithoutTrail
    <3>3. SubSeq(g, 1, Len(k)) = [i \in 1..Len(k) |-> g[i]]
      <4>1. g \in Seq(Texts)
        <5>1. \A i \in 1..(Len(k) + 1) : Decode(t[i]) \in Texts
          BY <1>5, DecodeAssumption
        <5> QED
          BY <1>6, <1>7, <5>1
      <4> QED
        BY <1>6, <1>8, <4>1
    <3>4. \A i \in 1..Len(k) : g[i] = Decode(k[i])
      BY <1>5, <1>6, <1>7
    <3>5. SubSeq(g, 1, Len(k)) = [i \in 1..Len(k) |-> Decode(k[i])]
      BY <3>3, <3>4
    <3> QED
      BY <2>0, <2>2, <3>2, <3>5 DEF Core, g
  <2> QED
    BY <2>1, <2>2
<1> QED
  BY <1>9, <1>10

\* Keeping twice is keeping once.
LEMMA KeptTwice ==
    ASSUME NEW s \in Seq(Texts)
    PROVE  /\ Kept(Kept(s, NonEmpty), NonEmpty) = Kept(s, NonEmpty)
           /\ Kept(s, NonEmpty) \in Seq(Texts)
<1> DEFINE k == Kept(s, NonEmpty)
<1>1. k \in Seq(Texts) /\ \A n \in 1..Len(k) : k[n] # Empty
  BY KeptTexts
<1> HIDE DEF k
<1>2. Kept(k, NonEmpty) = k
  BY <1>1, KeptWhole
<1> QED
  BY <1>1, <1>2 DEF k

\* Normalizing a path, with or without its slash, keeps the nonempty texts.
LEMMA NormalizedKept ==
    ASSUME NEW p \in Path, NEW trail \in BOOLEAN
    PROVE  /\ PathToNormalized(p, trail) \in Path
           /\ Kept(PathToNormalized(p, trail), NonEmpty) = Kept(p, NonEmpty)
<1> DEFINE k == Kept(p, NonEmpty)
<1>1. p \in Seq(Texts)
  BY DEF Path
<1>2. Kept(k, NonEmpty) = k /\ k \in Seq(Texts)
  BY <1>1, KeptTwice
<1>3. \/ PathToNormalized(p, trail) = k /\ k # <<>>
      \/ PathToNormalized(p, trail) = Append(k, Empty)
  BY DEF PathToNormalized
<1> HIDE DEF k
<1>4. Append(k, Empty) \in Path /\ Kept(Append(k, Empty), NonEmpty) = Kept(k, NonEmpty)
  <2>1. Kept(Append(k, Empty), NonEmpty) =
              IF Empty = Empty THEN Kept(k, NonEmpty) ELSE Append(Kept(k, NonEmpty), Empty)
    BY <1>2, EmptyAssumption, KeptAppend
  <2>2. Append(k, Empty) \in Path
    BY <1>2, EmptyAssumption DEF Path
  <2> QED
    BY <2>1, <2>2
<1>5. CASE PathToNormalized(p, trail) = k /\ k # <<>>
  BY <1>2, <1>5 DEF Path, k
<1>6. CASE PathToNormalized(p, trail) = Append(k, Empty)
  BY <1>2, <1>4, <1>6 DEF k
<1> QED
  BY <1>3, <1>5, <1>6

\* So does taking the slash off.
LEMMA SlashOff ==
    ASSUME NEW p \in Path, Len(p) > 1, End(p) = Empty
    PROVE  /\ SubSeq(p, 1, Len(p) - 1) \in Path
           /\ Kept(SubSeq(p, 1, Len(p) - 1), NonEmpty) = Kept(p, NonEmpty)
<1> DEFINE q == SubSeq(p, 1, Len(p) - 1)
<1>1. p \in Seq(Texts) /\ q \in Seq(Texts) /\ Len(q) = Len(p) - 1 /\ p = Append(q, Empty)
  BY DEF Path, End
<1>2. q # <<>>
  BY <1>1
<1> HIDE DEF q
<1>3. Kept(Append(q, Empty), NonEmpty) =
            IF Empty = Empty THEN Kept(q, NonEmpty) ELSE Append(Kept(q, NonEmpty), Empty)
  BY <1>1, EmptyAssumption, KeptAppend
<1> QED
  BY <1>1, <1>2, <1>3 DEF Path, q

\* The inductive invariant: the nonempty texts of path and query are those parsed.
UriInv ==
    /\ uri \in [path : Path, query : Query] /\ parsed \in [path : Path, query : Query]
    /\ Kept(uri.path, NonEmpty) = Kept(parsed.path, NonEmpty)
    /\ uri.query # NoQuery =>
          parsed.query # NoQuery /\ Kept(uri.query, NonEmpty) = Kept(parsed.query, NonEmpty)

\* A step that does not disturb them.
Harmless(u, v) ==
    /\ v \in [path : Path, query : Query]
    /\ Kept(v.path, NonEmpty) = Kept(u.path, NonEmpty)
    /\ v.query # NoQuery =>
          u.query # NoQuery /\ Kept(v.query, NonEmpty) = Kept(u.query, NonEmpty)

\* Origin::_normalize is one.
LEMMA NormalizedIsHarmless ==
    ASSUME NEW u \in [path : Path, query : Query], NEW trail \in BOOLEAN
    PROVE  Harmless(u, Normalized(u, trail))
<1> DEFINE p == IF PathIsNormalized(u.path) THEN u.path ELSE PathToNormalized(u.path, trail)
           q == IF u.query = NoQuery THEN NoQuery ELSE QueryToNormalized(u.query)
<1>1. u.path \in Path /\ u.query \in Query
  OBVIOUS
<1>2. p \in Path /\ Kept(p, NonEmpty) = Kept(u.path, NonEmpty)
  BY <1>1, NormalizedKept
<1>3. CASE u.query = NoQuery
  BY <1>2, <1>3 DEF Harmless, Normalized, Query
<1>4. CASE u.query # NoQuery
  <2>1. u.query \in Seq(Texts)
    BY <1>1, <1>4 DEF Query
  <2>2. q \in Seq(Texts) /\ Kept(q, NonEmpty) = Kept(u.query, NonEmpty)
    BY <1>4, <2>1, KeptTwice DEF QueryToNormalized
  <2>3. Normalized(u, trail) = [path |-> p, query |-> q]
    BY DEF Normalized
  <2> HIDE DEF p, q
  <2> QED
    BY <1>2, <1>4, <2>2, <2>3 DEF Harmless, Query
<1> QED
  BY <1>3, <1>4

\* So is into_normalized_nontrailing.
LEMMA NontrailingIsHarmless ==
    ASSUME NEW u \in [path : Path, query : Query]
    PROVE  Harmless(u, IntoNormalizedNontrailing(u))
<1>1. CASE IsNormalizedNontrailing(u)
  BY <1>1 DEF IntoNormalizedNontrailing, Harmless
<1>2. CASE ~IsNormalizedNontrailing(u) /\ IsNormalized(u)
  <2> DEFINE p == SubSeq(u.path, 1, Len(u.path) - 1)
  <2>1. u.path \in Path /\ Len(u.path) > 1 /\ End(u.path) = Empty
    BY <1>2 DEF IsNormalizedNontrailing, HasTrailingSlash
  <2>2. p \in Path /\ Kept(p, NonEmpty) = Kept(u.path, NonEmpty)
    BY <2>1, SlashOff
  <2>3. IntoNormalizedNontrailing(u) = [u EXCEPT !.path = p]
    BY <1>2 DEF IntoNormalizedNontrailing
  <2> HIDE DEF p
  <2> QED
    BY <2>2, <2>3 DEF Harmless
<1>3. CASE ~IsNormalized(u)
  <2>1. IntoNormalizedNontrailing(u) = Normalized(u, FALSE)
    BY <1>3 DEF IntoNormalizedNontrailing, IsNormalizedNontrailing
  <2> QED
    BY <2>1, NormalizedIsHarmless
<1> QED
  BY <1>1, <1>2, <1>3 DEF IsNormalizedNontrailing

\* What is parsed is a path and a query.
LEMMA UriStarts == UriInit => UriInv
<1> SUFFICES ASSUME UriInit PROVE UriInv
  OBVIOUS
<1>1. \A n \in Nat : SeqsUpTo(n, 0) \subseteq Seq(Texts)
  BY DEF SeqsUpTo
<1>2. \A n \in Nat : SeqsUpTo(n, 1) \subseteq Path
  BY DEF SeqsUpTo, Path
<1>3. PathsUpTo \subseteq Path /\ QueriesUpTo \subseteq Query
  BY <1>1, <1>2, LengthsAssumption DEF PathsUpTo, QueriesUpTo, Query
<1> QED
  BY <1>3 DEF UriInit, UriInv

\* Every call keeps the invariant.
LEMMA UriInductive == UriInv /\ [UriNext]_uris => UriInv'
<1> SUFFICES ASSUME UriInv, [UriNext]_uris PROVE UriInv'
  OBVIOUS
<1>1. uri \in [path : Path, query : Query]
  BY DEF UriInv
<1>2. ASSUME NEW v, Harmless(uri, v), Rewrite(v) PROVE UriInv'
  BY <1>2 DEF Harmless, Rewrite, UriInv
<1>3. CASE Normalize
  BY <1>1, <1>2, <1>3, NormalizedIsHarmless DEF Normalize, IntoNormalized
<1>4. CASE NormalizeNontrailing
  BY <1>1, <1>2, <1>4, NontrailingIsHarmless DEF NormalizeNontrailing
<1>5. CASE DropQuery
  <2>1. Harmless(uri, ClearQuery(uri))
    BY <1>1 DEF Harmless, ClearQuery, Query
  <2> QED
    BY <1>2, <1>5, <2>1 DEF DropQuery
<1>6. CASE UNCHANGED uris
  BY <1>6 DEF uris, UriInv
<1> QED
  BY <1>3, <1>4, <1>5, <1>6 DEF UriNext

\* Whatever calls rewrite a URI, of any length: the segments that matching looks at
\* are those of the parsed URI, and so are the query's until it is cleared.
THEOREM SegmentsSurviveAlways == UriSpec => []SegmentsSurvive
<1>1. UriInv => SegmentsSurvive
  <2> SUFFICES ASSUME UriInv PROVE SegmentsSurvive
    OBVIOUS
  <2>1. uri.path \in Path /\ parsed.path \in Path
    BY DEF UriInv
  <2>2. WithoutTrail(Segments(uri.path)) = WithoutTrail(Segments(parsed.path))
    <3>1. WithoutTrail(Segments(uri.path)) = Core(Kept(uri.path, NonEmpty))
      BY <2>1, SegmentsAreCore
    <3>2. WithoutTrail(Segments(parsed.path)) = Core(Kept(parsed.path, NonEmpty))
      BY <2>1, SegmentsAreCore
    <3> QED
      BY <3>1, <3>2 DEF UriInv
  <2>3. uri.query # NoQuery => QuerySegments(uri.query) = QuerySegments(parsed.query)
    BY DEF UriInv, QuerySegments
  <2> QED
    BY <2>2, <2>3 DEF SegmentsSurvive
<1> QED
  BY <1>1, UriStarts, UriInductive, PTL DEF UriSpec
=============================================================================
