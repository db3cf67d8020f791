--------------------------- MODULE IgnitionProofs ---------------------------
(***************************************************************************)
(* Theorems about Fairings and Ignition: for all fairings, routes and      *)
(* sentinels, whatever is attached, mounted and managed during ignition.   *)
(***************************************************************************)
EXTENDS Ignition, FiniteSetTheorems, SequenceTheorems, WellFoundedInduction, TLAPS

-----------------------------------------------------------------------------
(* Removing indices from a vector                                          *)

\* Every set of natural numbers that is not empty has a least one: induction, in
\* the form in which the provers can use it.
LEMMA Least ==
  ASSUME NEW S \in SUBSET Nat, S # {}
  PROVE  \E m \in S : \A k \in S : m <= k
<1> DEFINE R == {ss \in Nat \X Nat : ss[1] < ss[2]}
<1>1. IsWellFoundedOn(R, Nat)
  BY NatLessThanWellFounded DEF OpToRel
<1> HIDE DEF R
<1>2. PICK x \in S : \A y \in S : ~(<<y, x>> \in R)
  BY <1>1, WFMin
<1>3. \A y \in S : ~(y < x)
  BY <1>2 DEF R
<1> QED BY <1>3

\* One step of the loop over the vector
Keep(g, s, S, n) == IF s[n] \in S THEN g ELSE Append(g, s[n])

IsKept(g, s, S, m) ==
    g = [n \in 0 .. m |-> IF n = 0 THEN <<>> ELSE Keep(g[n - 1], s, S, n)]

LEMMA KeptExists ==
  ASSUME NEW s, NEW S, NEW m0 \in Nat
  PROVE  \E g : IsKept(g, s, S, m0)
<1> DEFINE Bad == {k \in Nat : ~\E g : IsKept(g, s, S, k)}
<1> SUFFICES ASSUME Bad # {} PROVE FALSE
  OBVIOUS
<1>1. PICK m \in Bad : \A k \in Bad : m <= k
  <2>1. Bad \in SUBSET Nat
    OBVIOUS
  <2> HIDE DEF Bad
  <2> QED BY <2>1, Least
<1>2. CASE m = 0
  <2> DEFINE h == [n \in 0 .. 0 |-> <<>>]
  <2>1. \A n \in 0 .. 0 : <<>> = IF n = 0 THEN <<>> ELSE Keep(h[n - 1], s, S, n)
    OBVIOUS
  <2>2. h = [n \in 0 .. 0 |-> IF n = 0 THEN <<>> ELSE Keep(h[n - 1], s, S, n)]
    BY <2>1
  <2> HIDE DEF h
  <2>3. IsKept(h, s, S, 0)
    BY <2>2 DEF IsKept
  <2> QED BY <1>1, <1>2, <2>3
<1>3. CASE m # 0
  <2>1. m \in Nat /\ m - 1 \in Nat /\ m - 1 \notin Bad
    BY <1>1, <1>3
  <2>2. PICK g : IsKept(g, s, S, m - 1)
    BY <2>1
  <2>3. g = [n \in 0 .. m - 1 |-> IF n = 0 THEN <<>> ELSE Keep(g[n - 1], s, S, n)]
    BY <2>2 DEF IsKept
  <2> DEFINE h == [n \in 0 .. m |-> IF n = m THEN Keep(g[m - 1], s, S, m) ELSE g[n]]
  <2>4. \A n \in 0 .. m : h[n] = IF n = 0 THEN <<>> ELSE Keep(h[n - 1], s, S, n)
    <3> TAKE n \in 0 .. m
    <3>1. CASE n = m
      <4> h[m - 1] = g[m - 1] /\ h[m] = Keep(g[m - 1], s, S, m)
        BY <2>1
      <4> QED BY <3>1, <1>3
    <3>2. CASE n # m
      <4> n \in 0 .. m - 1 /\ h[n] = g[n]
        BY <2>1, <3>2
      <4>1. g[n] = IF n = 0 THEN <<>> ELSE Keep(g[n - 1], s, S, n)
        BY <2>3
      <4>2. n # 0 => h[n - 1] = g[n - 1]
        BY <2>1, <3>2
      <4> QED BY <4>1, <4>2
    <3> QED BY <3>1, <3>2
  <2>5. h = [n \in 0 .. m |-> h[n]]
    OBVIOUS
  <2> HIDE DEF h
  <2>6. IsKept(h, s, S, m)
    BY <2>4, <2>5 DEF IsKept
  <2> QED BY <2>6, <1>1
<1> QED BY <1>2, <1>3

\* The loop: what is kept of the first n elements, from what is kept of one less
LEMMA WithoutIsKept ==
  ASSUME NEW s, NEW S, Len(s) \in Nat
  PROVE  \E g : /\ g[0] = <<>>
                /\ \A n \in 1 .. Len(s) : g[n] = Keep(g[n - 1], s, S, n)
                /\ Without(s, S) = g[Len(s)]
<1> DEFINE g == CHOOSE h : IsKept(h, s, S, Len(s))
<1>1. Without(s, S) = g[Len(s)]
  BY Zenon DEF Without, IsKept, Keep
<1>2. IsKept(g, s, S, Len(s))
  BY KeptExists, Zenon
<1> HIDE DEF g
<1>3. g[0] = <<>>
  BY <1>2 DEF IsKept
<1>4. \A n \in 1 .. Len(s) : g[n] = Keep(g[n - 1], s, S, n)
  <2> TAKE n \in 1 .. Len(s)
  <2>1. n \in 0 .. Len(s) /\ n # 0
    OBVIOUS
  <2> QED BY <1>2, <2>1, Zenon DEF IsKept
<1> QED BY <1>1, <1>3, <1>4

\* What is kept is in order, was there before, and where nothing was removed at
\* the front, the front is unchanged.
LEMMA WithoutIsSound ==
  ASSUME NEW s \in Seq(Nat), Increasing(s), NEW S,
         NEW k \in 0 .. Len(s), \A n \in 1 .. k : s[n] \notin S
  PROVE  LET w == Without(s, S) IN
         /\ w \in Seq(Nat) /\ Increasing(w)
         /\ \A n \in 1 .. Len(w) : \E j \in 1 .. Len(s) : w[n] = s[j]
         /\ k <= Len(w) /\ \A n \in 1 .. k : w[n] = s[n]
<1>0. Len(s) \in Nat
  OBVIOUS
<1>1. PICK g : /\ g[0] = <<>>
               /\ \A n \in 1 .. Len(s) : g[n] = Keep(g[n - 1], s, S, n)
               /\ Without(s, S) = g[Len(s)]
  BY <1>0, WithoutIsKept
<1> DEFINE Good(w, m) ==
      /\ w \in Seq(Nat) /\ Increasing(w)
      /\ \A n \in 1 .. Len(w) : \E j \in 1 .. m : w[n] = s[j]
      /\ \A n \in 1 .. m : n <= k => n <= Len(w) /\ w[n] = s[n]
      /\ m <= k => Len(w) = m
           Bad == {m \in 0 .. Len(s) : ~Good(g[m], m)}
<1>2. Bad = {}
  <2> SUFFICES ASSUME Bad # {} PROVE FALSE
    OBVIOUS
  <2> HIDE DEF Good
  <2>1. PICK m \in Bad : \A j \in Bad : m <= j
    <3>1. Bad \in SUBSET Nat
      OBVIOUS
    <3> HIDE DEF Bad
    <3> QED BY <3>1, Least
  <2>a. m \in 0 .. Len(s) /\ ~Good(g[m], m)
    BY <2>1
  <2>2. CASE m = 0
    <3>1. Good(<<>>, 0)
      BY DEF Increasing, Good
    <3> QED BY <1>1, <2>a, <2>2, <3>1
  <2>3. CASE m # 0
    <3>1. m \in 1 .. Len(s) /\ m - 1 \in 0 .. Len(s)
      BY <1>0, <2>a, <2>3
    <3>b. m - 1 \notin Bad
      <4> HIDE DEF Bad
      <4> QED BY <2>1, <3>1
    <3> DEFINE v == g[m - 1]
    <3>2. Good(v, m - 1)
      BY <3>1, <3>b
    <3>3. g[m] = Keep(v, s, S, m)
      BY <1>1, <3>1
    <3> HIDE DEF v
    <3>c. /\ v \in Seq(Nat) /\ Len(v) \in Nat /\ Increasing(v)
          /\ \A n \in 1 .. Len(v) : \E j \in 1 .. m - 1 : v[n] = s[j]
          /\ \A n \in 1 .. m - 1 : n <= k => n <= Len(v) /\ v[n] = s[n]
          /\ m - 1 <= k => Len(v) = m - 1
      BY <3>2 DEF Good
    <3>4. CASE s[m] \in S
      <4>1. g[m] = v
        BY <3>3, <3>4 DEF Keep
      <4>2. ~(m <= k)
        BY <3>1, <3>4
      <4>3. \A n \in 1 .. Len(v) : \E j \in 1 .. m : v[n] = s[j]
        <5> \A j \in 1 .. m - 1 : j \in 1 .. m
          BY <3>1
        <5> QED BY <3>c
      <4>4. \A n \in 1 .. m : n <= k => n <= Len(v) /\ v[n] = s[n]
        <5> \A n \in 1 .. m : n <= k => n \in 1 .. m - 1
          BY <3>1, <4>2
        <5> QED BY <3>c
      <4>5. Good(v, m)
        BY <3>c, <4>2, <4>3, <4>4 DEF Good
      <4> QED BY <2>a, <4>1, <4>5
    <3>5. CASE s[m] \notin S
      <4> DEFINE w == Append(v, s[m])
      <4>1. g[m] = w
        BY <3>3, <3>5 DEF Keep
      <4>2. v \in Seq(Nat) /\ s[m] \in Nat /\ Len(v) \in Nat
        BY <3>1, <3>c
      <4>3. /\ w \in Seq(Nat) /\ Len(w) = Len(v) + 1 /\ w[Len(v) + 1] = s[m]
            /\ \A n \in 1 .. Len(v) : w[n] = v[n]
        BY <4>2
      <4>4. \A n \in 1 .. Len(v) + 1 : n \in 1 .. Len(v) \/ n = Len(v) + 1
        BY <4>2
      <4> HIDE DEF w
      <4>5. \A n \in 1 .. Len(v) : v[n] < s[m]
        <5> TAKE n \in 1 .. Len(v)
        <5>1. PICK j \in 1 .. m - 1 : v[n] = s[j]
          BY <3>c
        <5>2. j \in DOMAIN s /\ m \in DOMAIN s /\ j < m
          BY <3>1
        <5> QED BY <5>1, <5>2 DEF Increasing
      <4>6. Increasing(w)
        <5> SUFFICES ASSUME NEW a \in 1 .. Len(v) + 1, NEW b \in 1 .. Len(v) + 1, a < b
                     PROVE  w[a] < w[b]
          BY <4>3 DEF Increasing
        <5>1. a \in 1 .. Len(v)
          BY <4>2
        <5>2. CASE b = Len(v) + 1
          BY <4>3, <4>5, <5>1, <5>2
        <5>3. CASE b \in 1 .. Len(v)
          <6> a \in DOMAIN v /\ b \in DOMAIN v
            BY <4>2, <5>1, <5>3
          <6> v[a] < v[b]
            BY <3>c DEF Increasing
          <6> QED BY <4>3, <5>1, <5>3
        <5> QED BY <4>4, <5>2, <5>3
      <4>7. \A n \in 1 .. Len(w) : \E j \in 1 .. m : w[n] = s[j]
        <5> TAKE n \in 1 .. Len(w)
        <5>1. CASE n = Len(v) + 1
          <6> m \in 1 .. m
            BY <3>1
          <6> QED BY <4>3, <5>1
        <5>2. CASE n \in 1 .. Len(v)
          <6>1. PICK j \in 1 .. m - 1 : v[n] = s[j]
            BY <3>c, <5>2
          <6>2. j \in 1 .. m
            BY <3>1
          <6> QED BY <4>3, <5>2, <6>1, <6>2
        <5> QED BY <4>3, <4>4, <5>1, <5>2
      <4>8. m <= k => Len(w) = m
        BY <3>1, <3>c, <4>3
      <4>9. \A n \in 1 .. m : n <= k => n <= Len(w) /\ w[n] = s[n]
        <5> SUFFICES ASSUME NEW n \in 1 .. m, n <= k PROVE n <= Len(w) /\ w[n] = s[n]
          OBVIOUS
        <5>1. CASE n = m
          <6>1. m <= k
            BY <5>1
          <6>2. Len(w) = m /\ Len(v) + 1 = m
            BY <4>3, <4>8, <6>1
          <6> QED BY <4>3, <5>1, <6>2
        <5>2. CASE n # m
          <6>1. n \in 1 .. m - 1
            BY <3>1, <5>2
          <6>2. n <= Len(v) /\ v[n] = s[n]
            BY <3>c, <6>1
          <6>3. n \in 1 .. Len(v)
            BY <4>2, <6>1, <6>2
          <6> QED BY <4>2, <4>3, <6>2, <6>3
        <5> QED BY <5>1, <5>2
      <4>10. Good(w, m)
        BY <4>3, <4>6, <4>7, <4>8, <4>9 DEF Good
      <4> QED BY <2>a, <4>1, <4>10
    <3> QED BY <3>4, <3>5
  <2> QED BY <2>2, <2>3
<1> DEFINE w == g[Len(s)]
<1>3. Good(w, Len(s))
  <2> Len(s) \in 0 .. Len(s)
    OBVIOUS
  <2> QED BY <1>2
<1> HIDE DEF w
<1>4. k <= Len(w)
  <2>1. CASE k = 0
    BY <1>3, <2>1
  <2>2. CASE k # 0
    <3> k \in 1 .. Len(s)
      BY <2>2
    <3> QED BY <1>3
  <2> QED BY <2>1, <2>2
<1>5. \A n \in 1 .. k : n \in 1 .. Len(s) /\ n <= k
  OBVIOUS
<1>6. \A n \in 1 .. k : w[n] = s[n]
  BY <1>3, <1>5
<1>7. Without(s, S) = w
  BY <1>1 DEF w
<1> QED BY <1>3, <1>4, <1>6, <1>7

-----------------------------------------------------------------------------
(* Fairings::add                                                           *)

\* h comes from f by changes that leave alone what has run.
Keeps(f, h) ==
    /\ Sound(h)
    /\ h.num_ignited = f.num_ignited
    /\ h.failures >= f.failures
    /\ \A n \in 1 .. f.num_ignited : h.active["ignite"][n] = f.active["ignite"][n]

LEMMA SoundFields ==
  ASSUME NEW f, Sound(f)
  PROVE  /\ f.all \in Seq(Fairing) /\ Len(f.all) \in Nat /\ f.failures \in Nat /\ f.num_ignited \in Nat
         /\ f.active \in [Kinds -> Seq(Nat)]
         /\ f.num_ignited <= Len(f.active["ignite"])
         /\ \A k \in Kinds : /\ f.active[k] \in Seq(Nat) /\ Len(f.active[k]) \in Nat
                             /\ DOMAIN f.active[k] = 1 .. Len(f.active[k])
                             /\ Increasing(f.active[k])
                             /\ \A n \in 1 .. Len(f.active[k]) : f.active[k][n] \in 1 .. Len(f.all)
<1>1. /\ f.all \in Seq(Fairing) /\ f.failures \in Nat /\ f.num_ignited \in Nat
      /\ f.active \in [Kinds -> Seq(Nat)]
      /\ f.num_ignited <= Len(f.active["ignite"])
  BY DEF Sound, WellFormed
<1>2. ASSUME NEW k \in Kinds
      PROVE  /\ f.active[k] \in Seq(Nat) /\ Len(f.active[k]) \in Nat
             /\ DOMAIN f.active[k] = 1 .. Len(f.active[k])
             /\ Increasing(f.active[k])
             /\ \A n \in 1 .. Len(f.active[k]) : f.active[k][n] \in 1 .. Len(f.all)
  <2>1. f.active[k] \in Seq(Nat)
    BY <1>1
  <2>2. Increasing(f.active[k]) /\ \A n \in DOMAIN f.active[k] : f.active[k][n] \in 1 .. Len(f.all)
    BY DEF Sound, WellFormed
  <2>3. DOMAIN f.active[k] = 1 .. Len(f.active[k]) /\ Len(f.active[k]) \in Nat
    BY <2>1
  <2> QED BY <2>1, <2>2, <2>3
<1> QED BY <1>1, <1>2

LEMMA NothingIsSound == Sound(NoFairings) /\ NoFairings.num_ignited = 0
<1>1. \A k \in Kinds : NoFairings.active[k] = <<>>
  BY DEF NoFairings
<1>2. NoFairings \in [all : Seq(Fairing), failures : Nat, num_ignited : Nat, active : [Kinds -> Seq(Nat)]]
      /\ NoFairings.num_ignited = 0
  BY DEF NoFairings
<1>3. NoFairings.num_ignited <= Len(NoFairings.active["ignite"])
  BY <1>1, <1>2, FairingAssumption
<1> QED BY <1>1, <1>2, <1>3 DEF Sound, WellFormed, Increasing

\* The new fairing is listed at the end of the vectors of its kinds.
LEMMA PushKeeps ==
  ASSUME NEW f, Sound(f), NEW x \in Fairing
  PROVE  Keeps(f, Push(f, x))
<1> DEFINE act == [k \in Kinds |->
               IF k \in x.kinds THEN Append(f.active[k], Len(f.all) + 1) ELSE f.active[k]]
           h == [f EXCEPT !.all = Append(f.all, x), !.active = act]
<1>1. Push(f, x) = h
  BY DEF Push
<1>2. /\ f.all \in Seq(Fairing) /\ Len(f.all) \in Nat /\ f.failures \in Nat /\ f.num_ignited \in Nat
      /\ f.num_ignited <= Len(f.active["ignite"])
      /\ \A k \in Kinds : /\ f.active[k] \in Seq(Nat) /\ Len(f.active[k]) \in Nat
                          /\ DOMAIN f.active[k] = 1 .. Len(f.active[k])
                          /\ Increasing(f.active[k])
                          /\ \A n \in 1 .. Len(f.active[k]) : f.active[k][n] \in 1 .. Len(f.all)
  BY SoundFields
<1>3. ASSUME NEW k \in Kinds
      PROVE  /\ act[k] \in Seq(Nat) /\ Increasing(act[k])
             /\ DOMAIN act[k] = 1 .. Len(act[k])
             /\ Len(act[k]) >= Len(f.active[k]) /\ Len(act[k]) \in Nat
             /\ \A n \in 1 .. Len(act[k]) : act[k][n] \in 1 .. Len(f.all) + 1
             /\ \A n \in 1 .. Len(f.active[k]) : act[k][n] = f.active[k][n]
  <2> DEFINE s == f.active[k]
             l == Len(f.all)
             w == Append(s, l + 1)
  <2>1. /\ s \in Seq(Nat) /\ Len(s) \in Nat /\ DOMAIN s = 1 .. Len(s) /\ Increasing(s) /\ l \in Nat
        /\ \A n \in 1 .. Len(s) : s[n] \in 1 .. l
    BY <1>2, <1>3
  <2>2. act[k] = IF k \in x.kinds THEN w ELSE s
    BY <1>3
  <2> HIDE DEF s, l
  <2>3. /\ w \in Seq(Nat) /\ Len(w) = Len(s) + 1 /\ w[Len(s) + 1] = l + 1
        /\ \A n \in 1 .. Len(s) : w[n] = s[n]
    BY <2>1
  <2>4. \A n \in 1 .. Len(s) + 1 : n \in 1 .. Len(s) \/ n = Len(s) + 1
    BY <2>1
  <2> HIDE DEF w
  <2>5. DOMAIN w = 1 .. Len(w)
    BY <2>3
  <2>6. \A n \in 1 .. Len(s) : s[n] \in 1 .. l + 1
    BY <2>1
  <2>7. \A n \in 1 .. Len(w) : w[n] \in 1 .. l + 1
    <3> l + 1 \in 1 .. l + 1
      BY <2>1
    <3> QED BY <2>3, <2>4, <2>6
  <2>8. Increasing(w)
    <3> SUFFICES ASSUME NEW a \in 1 .. Len(s) + 1, NEW b \in 1 .. Len(s) + 1, a < b
                 PROVE  w[a] < w[b]
      BY <2>3, <2>5 DEF Increasing
    <3>1. a \in 1 .. Len(s)
      BY <2>1
    <3>2. CASE b = Len(s) + 1
      <4> s[a] \in 1 .. l
        BY <2>1, <3>1
      <4> QED BY <2>1, <2>3, <3>1, <3>2
    <3>3. CASE b \in 1 .. Len(s)
      <4> s[a] < s[b]
        BY <2>1, <3>1, <3>3 DEF Increasing
      <4> QED BY <2>3, <3>1, <3>3
    <3> QED BY <2>4, <3>2, <3>3
  <2>9. CASE k \in x.kinds
    <3> Len(w) >= Len(s) /\ Len(w) \in Nat
      BY <2>1, <2>3
    <3> QED BY <2>2, <2>3, <2>5, <2>7, <2>8, <2>9 DEF s, l
  <2>10. CASE k \notin x.kinds
    <3> Len(s) >= Len(s)
      BY <2>1
    <3> QED BY <2>1, <2>2, <2>6, <2>10 DEF s, l
  <2> QED BY <2>9, <2>10
<1> HIDE DEF act
<1>4. act \in [Kinds -> Seq(Nat)]
  <2> act = [k \in Kinds |-> act[k]]
    BY DEF act
  <2> QED BY <1>3
<1>5. /\ h \in [all : Seq(Fairing), failures : Nat, num_ignited : Nat, active : [Kinds -> Seq(Nat)]]
      /\ h.active = act /\ h.num_ignited = f.num_ignited /\ h.failures = f.failures
      /\ h.all = Append(f.all, x)
  <2>1. f \in [all : Seq(Fairing), failures : Nat, num_ignited : Nat, active : [Kinds -> Seq(Nat)]]
    BY DEF Sound, WellFormed
  <2>2. Append(f.all, x) \in Seq(Fairing)
    BY <1>2
  <2> QED BY <1>4, <2>1, <2>2
<1>6. Len(h.all) = Len(f.all) + 1
  BY <1>2, <1>5
<1> HIDE DEF h
<1>7. "ignite" \in Kinds
  BY FairingAssumption
<1>8. h.num_ignited <= Len(h.active["ignite"])
  BY <1>2, <1>3, <1>5, <1>7
<1>9. Sound(h)
  BY <1>3, <1>5, <1>6, <1>8 DEF Sound, WellFormed
<1>10. \A n \in 1 .. f.num_ignited : h.active["ignite"][n] = f.active["ignite"][n]
  <2> \A n \in 1 .. f.num_ignited : n \in 1 .. Len(f.active["ignite"])
    BY <1>2, <1>7
  <2> QED BY <1>3, <1>5, <1>7
<1> QED BY <1>1, <1>2, <1>5, <1>9, <1>10 DEF Keeps

\* If no duplicate has run, removing the duplicates removes nothing that has.
LEMMA RemoveKeeps ==
  ASSUME NEW f, Sound(f), NEW x \in Fairing, ~DupIgnited(f, x)
  PROVE  Keeps(f, [f EXCEPT !.active = [k \in Kinds |-> Without(f.active[k], Dups(f, x))]])
<1> DEFINE D == Dups(f, x)
           act == [k \in Kinds |-> Without(f.active[k], D)]
           h == [f EXCEPT !.active = act]
<1>2. /\ f.all \in Seq(Fairing) /\ Len(f.all) \in Nat /\ f.failures \in Nat /\ f.num_ignited \in Nat
      /\ f.num_ignited <= Len(f.active["ignite"])
      /\ \A k \in Kinds : /\ f.active[k] \in Seq(Nat) /\ Len(f.active[k]) \in Nat
                          /\ DOMAIN f.active[k] = 1 .. Len(f.active[k])
                          /\ Increasing(f.active[k])
                          /\ \A n \in 1 .. Len(f.active[k]) : f.active[k][n] \in 1 .. Len(f.all)
  BY SoundFields
<1>3. \A n \in 1 .. f.num_ignited : f.active["ignite"][n] \notin D
  BY DEF DupIgnited, Dups
<1> HIDE DEF D
<1>4. ASSUME NEW k \in Kinds
      PROVE  /\ act[k] \in Seq(Nat) /\ Increasing(act[k]) /\ DOMAIN act[k] = 1 .. Len(act[k])
             /\ \A n \in 1 .. Len(act[k]) : act[k][n] \in 1 .. Len(f.all)
  <2> DEFINE s == f.active[k]
             w == Without(s, D)
  <2>1. s \in Seq(Nat) /\ Len(s) \in Nat /\ Increasing(s) /\ \A n \in 1 .. Len(s) : s[n] \in 1 .. Len(f.all)
    BY <1>2, <1>4
  <2> HIDE DEF s
  <2>2. /\ w \in Seq(Nat) /\ Increasing(w)
        /\ \A n \in 1 .. Len(w) : \E j \in 1 .. Len(s) : w[n] = s[j]
    <3> DEFINE z == 0
    <3>1. z \in 0 .. Len(s) /\ \A n \in 1 .. z : s[n] \notin D
      BY <2>1
    <3> HIDE DEF z
    <3> QED BY <2>1, <3>1, WithoutIsSound
  <2> HIDE DEF w
  <2>3. DOMAIN w = 1 .. Len(w)
    BY <2>2
  <2>4. \A n \in 1 .. Len(w) : w[n] \in 1 .. Len(f.all)
    BY <2>1, <2>2
  <2>5. act[k] = w
    BY <1>4 DEF w, s
  <2> QED BY <2>2, <2>3, <2>4, <2>5
<1>5. "ignite" \in Kinds
  BY FairingAssumption
<1>6. /\ f.num_ignited <= Len(act["ignite"])
      /\ \A n \in 1 .. f.num_ignited : act["ignite"][n] = f.active["ignite"][n]
  <2> DEFINE s == f.active["ignite"]
             w == Without(s, D)
             i == f.num_ignited
  <2>1. s \in Seq(Nat) /\ Increasing(s) /\ i \in 0 .. Len(s) /\ \A n \in 1 .. i : s[n] \notin D
    BY <1>2, <1>3, <1>5
  <2>2. act["ignite"] = w
    BY <1>5
  <2> HIDE DEF s, i
  <2>3. i <= Len(w) /\ \A n \in 1 .. i : w[n] = s[n]
    BY <2>1, WithoutIsSound
  <2> QED BY <2>2, <2>3 DEF s, i
<1> HIDE DEF act
<1>7. act \in [Kinds -> Seq(Nat)]
  <2> act = [k \in Kinds |-> act[k]]
    BY DEF act
  <2> QED BY <1>4
<1>8. /\ h \in [all : Seq(Fairing), failures : Nat, num_ignited : Nat, active : [Kinds -> Seq(Nat)]]
      /\ h.active = act /\ h.num_ignited = f.num_ignited /\ h.failures = f.failures /\ h.all = f.all
  <2>1. f \in [all : Seq(Fairing), failures : Nat, num_ignited : Nat, active : [Kinds -> Seq(Nat)]]
    BY DEF Sound, WellFormed
  <2> QED BY <1>7, <2>1
<1> HIDE DEF h
<1>9. Sound(h)
  BY <1>4, <1>6, <1>8 DEF Sound, WellFormed
<1>10. Keeps(f, h)
  BY <1>2, <1>6, <1>8, <1>9 DEF Keeps
<1> QED BY <1>10 DEF h, act, D

LEMMA KeepsTwice ==
  ASSUME NEW f, NEW g, NEW h, Sound(f), Keeps(f, g), Keeps(g, h)
  PROVE  Keeps(f, h)
<1>1. f.failures \in Nat /\ g.failures \in Nat /\ h.failures \in Nat
  BY SoundFields DEF Keeps
<1> QED BY <1>1 DEF Keeps

\* Whatever is attached: what has run stays where it is, and the vectors sorted.
LEMMA AddKeeps ==
  ASSUME NEW f, Sound(f), NEW x \in Fairing
  PROVE  Keeps(f, Add(f, x))
<1>1. CASE x.singleton /\ DupIgnited(f, x)
  <2> DEFINE h == [f EXCEPT !.failures = @ + 1]
  <2>1. Add(f, x) = h
    BY <1>1 DEF Add
  <2>2. /\ f \in [all : Seq(Fairing), failures : Nat, num_ignited : Nat, active : [Kinds -> Seq(Nat)]]
        /\ f.failures \in Nat
    BY DEF Sound, WellFormed
  <2>3. /\ h \in [all : Seq(Fairing), failures : Nat, num_ignited : Nat, active : [Kinds -> Seq(Nat)]]
        /\ h.active = f.active /\ h.num_ignited = f.num_ignited /\ h.failures = f.failures + 1 /\ h.all = f.all
    BY <2>2
  <2> HIDE DEF h
  <2>4. Sound(h)
    BY <2>3 DEF Sound, WellFormed
  <2> QED BY <2>1, <2>2, <2>3, <2>4 DEF Keeps
<1>2. CASE x.singleton /\ ~DupIgnited(f, x)
  <2> DEFINE g == [f EXCEPT !.active = [k \in Kinds |-> Without(f.active[k], Dups(f, x))]]
  <2>1. Keeps(f, g)
    BY <1>2, RemoveKeeps
  <2>2. Add(f, x) = Push(g, x)
    BY <1>2 DEF Add
  <2> HIDE DEF g
  <2>3. Keeps(g, Push(g, x))
    BY <2>1, PushKeeps DEF Keeps
  <2> QED BY <2>1, <2>2, <2>3, KeepsTwice
<1>3. CASE ~x.singleton
  BY <1>3, PushKeeps DEF Add
<1> QED BY <1>1, <1>2, <1>3

-----------------------------------------------------------------------------
(* The steps of Fairings                                                   *)

LEMMA FairingsBegin == Init => FairingsInv
<1> SUFFICES ASSUME Init PROVE FairingsInv
  OBVIOUS
<1>1. Sound(fs) /\ Sound(fresh) /\ fs.num_ignited = 0
  BY NothingIsSound DEF Init
<1>2. phase = "build" /\ ran = <<>> /\ ~errors
  BY DEF Init
<1> QED BY <1>1, <1>2 DEF FairingsInv, Phases

\* Adding to the fairings outside of a batch
LEMMA AddStep ==
  ASSUME FairingsInv, NEW x \in Fairing, fs' = Add(fs, x), Sound(fresh'),
         phase \in {"build", "appending"}, UNCHANGED <<phase, ran, errors>>
  PROVE  FairingsInv'
<1>1. Keeps(fs, fs')
  BY AddKeeps DEF FairingsInv
<1>2. /\ ran \in Seq(Nat) /\ Len(ran) = fs.num_ignited /\ fs.failures \in Nat
      /\ \A n \in 1 .. Len(ran) : ran[n] = fs.active["ignite"][n]
      /\ errors => fs.failures > 0
  BY SoundFields DEF FairingsInv
<1>3. Sound(fs') /\ fs'.num_ignited = fs.num_ignited /\ fs'.failures >= fs.failures /\ fs'.failures \in Nat
  BY <1>1, SoundFields DEF Keeps
<1>4. \A n \in 1 .. Len(ran) : ran[n] = fs'.active["ignite"][n]
  BY <1>1, <1>2 DEF Keeps
<1>5. errors => fs'.failures > 0
  <2>1. fs.failures > 0 => fs'.failures > 0
    BY <1>2, <1>3
  <2> QED BY <1>2, <2>1
<1> QED BY <1>2, <1>3, <1>4, <1>5 DEF FairingsInv, Phases

LEMMA AttachStep ==
  ASSUME FairingsInv, NEW x \in Fairing, Attach(x)
  PROVE  FairingsInv'
<1>1. fs' = Add(fs, x) /\ fresh' = fresh /\ phase = "build" /\ UNCHANGED <<phase, ran, errors>>
  BY DEF Attach
<1>2. Sound(fresh')
  BY <1>1 DEF FairingsInv
<1> QED BY <1>1, <1>2, AddStep

LEMMA AttachWhileRunningStep ==
  ASSUME FairingsInv, NEW x \in Fairing, AttachWhileRunning(x)
  PROVE  FairingsInv'
<1>1. fresh' = Add(fresh, x) /\ UNCHANGED <<fs, phase, ran, errors>>
  BY DEF AttachWhileRunning
<1>2. Sound(fresh')
  BY <1>1, AddKeeps DEF FairingsInv, Keeps
<1> QED BY <1>1, <1>2 DEF FairingsInv

LEMMA AppendOneStep ==
  ASSUME FairingsInv, AppendOne
  PROVE  FairingsInv'
<1> DEFINE x == Head(fresh.all)
           h == [NoFairings EXCEPT !.all = Tail(fresh.all)]
<1>1. fs' = Add(fs, x) /\ fresh' = h /\ phase = "appending" /\ fresh.all # <<>> /\ UNCHANGED <<phase, ran, errors>>
  BY DEF AppendOne
<1>2. fresh.all \in Seq(Fairing)
  BY SoundFields DEF FairingsInv
<1>3. x \in Fairing /\ Tail(fresh.all) \in Seq(Fairing)
  BY <1>1, <1>2
<1>4. Sound(h)
  <2>1. NoFairings \in [all : Seq(Fairing), failures : Nat, num_ignited : Nat, active : [Kinds -> Seq(Nat)]]
        /\ NoFairings.num_ignited <= Len(NoFairings.active["ignite"])
    BY NothingIsSound DEF Sound, WellFormed
  <2>2. /\ h \in [all : Seq(Fairing), failures : Nat, num_ignited : Nat, active : [Kinds -> Seq(Nat)]]
        /\ h.num_ignited = NoFairings.num_ignited /\ h.active = NoFairings.active
    BY <1>3, <2>1
  <2>3. \A k \in Kinds : NoFairings.active[k] = <<>>
    BY DEF NoFairings
  <2> HIDE DEF h
  <2> QED BY <2>1, <2>2, <2>3 DEF Sound, WellFormed, Increasing
<1> HIDE DEF x, h
<1> QED BY <1>1, <1>3, <1>4, AddStep

LEMMA ReturnStep ==
  ASSUME FairingsInv, NEW ok \in BOOLEAN, Return(ok)
  PROVE  FairingsInv'
<1> DEFINE i == fs.num_ignited
           s == fs.active["ignite"]
           more == IF ok THEN fs.failures ELSE fs.failures + 1
<1>1. /\ fs' = [fs EXCEPT !.num_ignited = i + 1, !.failures = more]
      /\ ran' = Append(ran, s[i + 1])
      /\ errors' = (errors \/ ~ok)
      /\ phase' = IF i + 1 < Len(s) THEN "running" ELSE "appending"
      /\ fresh' = fresh /\ phase = "running"
  BY DEF Return
<1>2. /\ fs \in [all : Seq(Fairing), failures : Nat, num_ignited : Nat, active : [Kinds -> Seq(Nat)]]
      /\ i \in Nat /\ fs.failures \in Nat /\ i < Len(s) /\ Len(s) \in Nat /\ s \in Seq(Nat)
      /\ \A k \in Kinds : /\ Increasing(fs.active[k])
                          /\ \A n \in DOMAIN fs.active[k] : fs.active[k][n] \in 1 .. Len(fs.all)
  BY <1>1, SoundFields, FairingAssumption DEF FairingsInv, Sound, WellFormed
<1>3. more \in Nat /\ more >= fs.failures /\ (~ok => more > 0)
  BY <1>2
<1>a. i + 1 \in 1 .. Len(s)
  BY <1>2
<1> HIDE DEF more
<1>4. /\ fs' \in [all : Seq(Fairing), failures : Nat, num_ignited : Nat, active : [Kinds -> Seq(Nat)]]
      /\ fs'.num_ignited = i + 1 /\ fs'.failures = more /\ fs'.active = fs.active /\ fs'.all = fs.all
  <2> DEFINE j == i + 1
  <2>1. j \in Nat /\ fs' = [fs EXCEPT !.num_ignited = j, !.failures = more]
    BY <1>1, <1>2
  <2> HIDE DEF j
  <2>2. /\ fs' \in [all : Seq(Fairing), failures : Nat, num_ignited : Nat, active : [Kinds -> Seq(Nat)]]
        /\ fs'.num_ignited = j /\ fs'.failures = more /\ fs'.active = fs.active /\ fs'.all = fs.all
    BY <1>2, <1>3, <2>1
  <2> QED BY <2>2 DEF j
<1>5. Sound(fs')
  BY <1>2, <1>4, <1>a DEF Sound, WellFormed
<1>6. /\ ran \in Seq(Nat) /\ Len(ran) = i /\ \A n \in 1 .. Len(ran) : ran[n] = s[n]
      /\ errors => fs.failures > 0
  BY DEF FairingsInv
<1> HIDE DEF i, s
<1>7. s[i + 1] \in Nat
  BY <1>2, <1>a
<1>8. ran' \in Seq(Nat) /\ Len(ran') = i + 1 /\ ran'[i + 1] = s[i + 1] /\ \A n \in 1 .. i : ran'[n] = s[n]
  BY <1>1, <1>6, <1>7
<1>9. \A n \in 1 .. Len(ran') : ran'[n] = s[n]
  <2> \A n \in 1 .. i + 1 : n \in 1 .. i \/ n = i + 1
    BY <1>2
  <2> QED BY <1>8
<1>10. errors' => fs'.failures > 0
  <2>1. fs.failures > 0 => more > 0
    BY <1>2, <1>3
  <2> QED BY <1>1, <1>3, <1>4, <1>6, <2>1
<1>11. phase' = "running" => fs'.num_ignited < Len(fs'.active["ignite"])
  BY <1>1, <1>4 DEF s
<1>12. Sound(fresh')
  BY <1>1 DEF FairingsInv
<1>13. phase' \in {"running", "appending"}
  BY <1>1
<1>14. \A n \in 1 .. Len(ran') : ran'[n] = fs'.active["ignite"][n]
  BY <1>4, <1>9 DEF s
<1>15. Len(ran') = fs'.num_ignited
  BY <1>4, <1>8
<1> QED BY <1>5, <1>8, <1>10, <1>11, <1>12, <1>13, <1>14, <1>15 DEF FairingsInv, Phases

LEMMA FairingsStep == FairingsInv /\ Next => FairingsInv'
<1> SUFFICES ASSUME FairingsInv, Next PROVE FairingsInv'
  OBVIOUS
<1>0. /\ fs.num_ignited \in Nat /\ Len(fs.active["ignite"]) \in Nat /\ fs.failures \in Nat
      /\ fs.num_ignited <= Len(fs.active["ignite"])
  BY SoundFields, FairingAssumption DEF FairingsInv
<1>1. CASE \E x \in Fairing : Attach(x) \/ AttachWhileRunning(x)
  BY <1>1, AttachStep, AttachWhileRunningStep
<1>2. CASE Ignite
  BY <1>2 DEF Ignite, FairingsInv, Phases
<1>3. CASE BeginBatch
  BY <1>3, NothingIsSound DEF BeginBatch, FairingsInv, Phases
<1>4. CASE \E ok \in BOOLEAN : Return(ok)
  BY <1>4, ReturnStep
<1>5. CASE AppendOne
  BY <1>5, AppendOneStep
<1>6. CASE EndBatch
  BY <1>6, NothingIsSound DEF EndBatch, FairingsInv, Phases
<1>7. CASE EndIgnite
  <2>1. fs.num_ignited = Len(fs.active["ignite"])
    BY <1>0, <1>7 DEF EndIgnite
  <2>2. UNCHANGED <<fs, fresh, ran, errors>> /\ phase' = "done"
    BY <1>7 DEF EndIgnite
  <2> QED BY <2>1, <2>2 DEF FairingsInv, Phases
<1>8. CASE Audit
  <2>1. /\ UNCHANGED <<fs, fresh, ran, errors>> /\ phase = "done"
        /\ phase' = IF fs.failures = 0 THEN "ignited" ELSE "failed"
    BY <1>8 DEF Audit
  <2> QED BY <2>1 DEF FairingsInv, Phases
<1> QED BY <1>1, <1>2, <1>3, <1>4, <1>5, <1>6, <1>7, <1>8 DEF Next

LEMMA FairingsIdle == FairingsInv /\ UNCHANGED vars => FairingsInv'
BY DEF FairingsInv, vars

-----------------------------------------------------------------------------
(* sentinel::query                                                         *)

\* The queue of a finite set has all of its elements, and no others.
LEMMA QueueOfSet ==
  ASSUME NEW S, IsFiniteSet(S)
  PROVE  /\ SetToSeq(S) \in Seq(S)
         /\ \A x \in S : \E n \in DOMAIN SetToSeq(S) : SetToSeq(S)[n] = x
<1> DEFINE c == Cardinality(S)
           q == SetToSeq(S)
<1>1. c \in Nat
  BY FS_CardinalityType
<1>2. IsFiniteSet(1 .. c) /\ Cardinality(1 .. c) = c
  BY <1>1, FS_Interval
<1>3. ExistsBijection(1 .. c, S)
  BY <1>2, FS_SameCardinalityBij
<1>4. \E f \in [1 .. c -> S] : IsInjective(f)
  <2>1. PICK f : f \in Bijection(1 .. c, S)
    BY <1>3 DEF ExistsBijection
  <2>2. f \in [1 .. c -> S] /\ \A a, b \in DOMAIN f : f[a] = f[b] => a = b
    BY <2>1 DEF Bijection, Injection, IsInjective
  <2> QED BY <2>2 DEF IsInjective
<1>5. q \in [1 .. c -> S] /\ IsInjective(q)
  BY <1>4 DEF SetToSeq
<1> HIDE DEF q
<1>6. q \in Injection(1 .. c, S)
  BY <1>5 DEF Injection, IsInjective
<1>7. q \in Surjection(1 .. c, S)
  BY <1>2, <1>6, FS_Injection
<1>8. \A x \in S : \E n \in 1 .. c : q[n] = x
  BY <1>7 DEF Surjection
<1> HIDE DEF c
<1>9. q \in Seq(S) /\ DOMAIN q = 1 .. c
  BY <1>1, <1>5
<1> QED BY <1>8, <1>9 DEF q

LEMMA SentinelsAreFinite ==
  ASSUME NEW S \in SUBSET Sentries
  PROVE  IsFiniteSet(S)
BY IgnitionAssumption, FS_Subset

\* A set that is closed contains what is asked.
LEMMA AskedIsLeast ==
  ASSUME NEW T, NEW S \in SUBSET T, Closed(S, T)
  PROVE  Asked(T) \subseteq S
BY DEF Asked

LEMMA RootsAreAsked ==
  ASSUME NEW T, NEW s \in T, s.parent = NoParent
  PROVE  s \in Asked(T)
BY DEF Asked, Closed

LEMMA ChildrenAreAsked ==
  ASSUME NEW T, NEW p \in Asked(T), p.type \notin Specialized, NEW s \in T, s.parent = p.type
  PROVE  s \in Asked(T)
<1> SUFFICES ASSUME NEW S \in SUBSET T, Closed(S, T) PROVE s \in S
  BY DEF Asked
<1>1. p \in S
  BY AskedIsLeast
<1> QED BY <1>1 DEF Closed

\* What a route's own tree asks is asked in the merged graph.
LEMMA GuardedIsAsked ==
  ASSUME NEW r \in mounted
  PROVE  Guarded(r) \subseteq Asked(Sentinels)
<1> DEFINE T == {s \in Sentries : s.route = r}
<1> SUFFICES ASSUME NEW x \in Asked(T), NEW S \in SUBSET Sentinels, Closed(S, Sentinels)
             PROVE  x \in S
  <2>1. \A x \in Asked(T) : x \in Sentinels
    BY DEF Asked, Sentinels
  <2> QED BY <2>1 DEF Guarded, Asked
<1>1. T \subseteq Sentinels
  BY DEF Sentinels
<1> HIDE DEF T
<1>2. Closed(S \cap T, T)
  BY <1>1 DEF Closed
<1> QED BY <1>2, AskedIsLeast

\* The graph of the sentinels has been built: the roots are in the queue, everything
\* else is in the map.
LEMMA FinalizeRouterStep ==
  ASSUME IInv, FinalizeRouter
  PROVE  IInv'
<1> DEFINE roots == {s \in Sentinels : s.parent = NoParent}
<1>1. /\ stage = "router" /\ remaining' = SetToSeq(roots)
      /\ map' = {s.parent : s \in Sentinels} \ {NoParent}
      /\ stage' = IF \E pair \in Colliding : pair \subseteq mounted THEN "Collisions" ELSE "sentinels"
      /\ UNCHANGED <<fs, fresh, attached, phase, ran, errors, mounted, state, aborted>>
  BY DEF FinalizeRouter, vars, app
<1>2. FairingsInv'
  BY <1>1, FairingsIdle DEF IInv, vars
<1>3. StageInv'
  BY <1>1 DEF IInv, StageInv, Queried
<1>4. Sentinels' = Sentinels /\ \A T : Asked(T)' = Asked(T)
  BY <1>1 DEF Sentinels, Asked, Closed
<1>5. IsFiniteSet(roots)
  BY SentinelsAreFinite DEF Sentinels
<1>6. /\ remaining' \in Seq(roots)
      /\ \A s \in roots : \E n \in DOMAIN remaining' : remaining'[n] = s
  BY <1>1, <1>5, QueueOfSet
<1>7. roots \subseteq Asked(Sentinels)
  BY RootsAreAsked
<1>8. remaining' \in Seq(Asked(Sentinels))
  BY <1>6, <1>7
<1>9. aborted' = {}
  BY <1>1 DEF IInv, QueryInv
<1>10. NoParent \notin map'
  BY <1>1
<1>11. \A s \in Sentinels : s.parent \notin map' => s \in roots
  BY <1>1
<1>12. \A s \in Sentinels : s.parent \notin map' => Dealt(s)'
  BY <1>6, <1>11 DEF Dealt
<1>13. stage' \in {"Collisions", "sentinels"}
  BY <1>1
<1>14. QueryInv'
  BY <1>4, <1>8, <1>9, <1>10, <1>12, <1>13 DEF QueryInv
<1> QED BY <1>2, <1>3, <1>14 DEF IInv

LEMMA QueryOneStep ==
  ASSUME IInv, QueryOne
  PROVE  IInv'
<1> DEFINE s == Head(remaining)
           A == Asked(Sentinels)
           found == IF s.type \in map THEN SetToSeq(Children(s.type)) ELSE <<>>
<1>1. /\ stage = "sentinels" /\ remaining # <<>>
      /\ UNCHANGED <<fs, fresh, attached, phase, ran, errors, mounted, state, stage>>
  BY DEF QueryOne, vars, app
<1>2. FairingsInv'
  BY <1>1, FairingsIdle DEF IInv, vars
<1>3. StageInv'
  BY <1>1 DEF IInv, StageInv, Queried
<1>4. /\ Sentinels' = Sentinels /\ Asked(Sentinels)' = A /\ \A t : Abort(t)' <=> Abort(t)
  BY <1>1 DEF Sentinels, Asked, Closed, Abort
<1>5. /\ NoParent \notin map /\ remaining \in Seq(A)
      /\ aborted \subseteq {x \in A : x.type \in Specialized /\ Abort(x.type)}
      /\ \A x \in Sentinels : x.parent \notin map => Dealt(x)
  BY <1>1 DEF IInv, QueryInv, Queried
<1> HIDE DEF A
<1>6. s \in A /\ Tail(remaining) \in Seq(A)
  BY <1>1, <1>5
<1>7. \A x : (\E n \in DOMAIN remaining : remaining[n] = x) => x = s \/ \E n \in DOMAIN Tail(remaining) : Tail(remaining)[n] = x
  <2> TAKE x
  <2> HAVE \E n \in DOMAIN remaining : remaining[n] = x
  <2>1. PICK n \in 1 .. Len(remaining) : remaining[n] = x
    BY <1>5
  <2>2. CASE n = 1
    BY <1>5, <2>1, <2>2
  <2>3. CASE n # 1
    <3>1. n - 1 \in 1 .. Len(remaining) - 1 /\ Len(remaining) \in Nat
      BY <1>5, <2>3
    <3>2. DOMAIN Tail(remaining) = 1 .. Len(remaining) - 1
      BY <1>1, <1>5
    <3>3. Tail(remaining)[n - 1] = remaining[n]
      BY <1>1, <1>5, <2>3, <3>1
    <3> QED BY <2>1, <3>1, <3>2, <3>3
  <2> QED BY <2>2, <2>3
<1> HIDE DEF s
<1>8. CASE s.type \in Specialized
  <2>1. /\ aborted' = aborted \cup (IF Abort(s.type) THEN {s} ELSE {})
        /\ map' = map /\ remaining' = Tail(remaining)
    BY <1>8 DEF QueryOne, s
  <2>2. aborted' \subseteq {x \in A : x.type \in Specialized /\ Abort(x.type)}
    BY <1>5, <1>6, <1>8, <2>1
  <2>3. ASSUME NEW x \in Sentinels, x.parent \notin map PROVE Dealt(x)'
    <3>1. Dealt(x)
      BY <1>5, <2>3
    <3>2. CASE x = s
      BY <1>4, <1>8, <2>1, <3>2 DEF Dealt
    <3>3. CASE x # s /\ \E n \in DOMAIN remaining : remaining[n] = x
      BY <1>7, <2>1, <3>3 DEF Dealt
    <3>4. CASE x.type \in Specialized /\ (Abort(x.type) => x \in aborted)
      BY <1>4, <2>1, <3>4 DEF Dealt
    <3>5. CASE x.type \notin Specialized /\ x.type \notin map
      BY <2>1, <3>5 DEF Dealt
    <3> QED BY <3>1, <3>2, <3>3, <3>4, <3>5 DEF Dealt
  <2>4. QueryInv'
    BY <1>1, <1>4, <1>5, <1>6, <2>1, <2>2, <2>3 DEF QueryInv, A
  <2> QED BY <1>2, <1>3, <2>4 DEF IInv
<1>9. CASE s.type \notin Specialized
  <2>1. /\ remaining' = Tail(remaining) \o found /\ map' = map \ {s.type} /\ aborted' = aborted
    BY <1>9 DEF QueryOne, s
  <2>2. IsFiniteSet(Children(s.type))
    BY SentinelsAreFinite DEF Children, Sentinels
  <2>3. Children(s.type) \subseteq A
    BY <1>6, <1>9, ChildrenAreAsked DEF Children, A
  <2>4. /\ found \in Seq(A)
        /\ s.type \in map => \A x \in Children(s.type) : \E n \in DOMAIN found : found[n] = x
    <3>1. CASE s.type \in map
      <4>1. /\ found \in Seq(Children(s.type))
            /\ \A x \in Children(s.type) : \E n \in DOMAIN found : found[n] = x
        BY <2>2, <3>1, QueueOfSet
      <4> HIDE DEF found
      <4> QED BY <2>3, <4>1
    <3>2. CASE s.type \notin map
      BY <3>2
    <3> QED BY <3>1, <3>2
  <2> HIDE DEF found
  <2>5. /\ remaining' \in Seq(A)
        /\ \A n \in DOMAIN Tail(remaining) : \E m \in DOMAIN remaining' : remaining'[m] = Tail(remaining)[n]
        /\ \A n \in DOMAIN found : \E m \in DOMAIN remaining' : remaining'[m] = found[n]
    <3> DEFINE t == Tail(remaining)
               q == t \o found
    <3>1. t \in Seq(A) /\ found \in Seq(A)
      BY <1>6, <2>4
    <3> HIDE DEF t
    <3>2. /\ q \in Seq(A) /\ Len(q) = Len(t) + Len(found) /\ DOMAIN q = 1 .. Len(q)
          /\ DOMAIN t = 1 .. Len(t) /\ DOMAIN found = 1 .. Len(found) /\ Len(t) \in Nat /\ Len(found) \in Nat
      BY <3>1
    <3>3. \A n \in 1 .. Len(t) : n \in 1 .. Len(q) /\ q[n] = t[n]
      BY <3>1, <3>2
    <3>4. \A n \in 1 .. Len(found) : Len(t) + n \in 1 .. Len(q) /\ q[Len(t) + n] = found[n]
      BY <3>1, <3>2
    <3> HIDE DEF q
    <3>5. remaining' = q
      BY <2>1 DEF q, t
    <3>6. \A n \in DOMAIN t : \E m \in DOMAIN q : q[m] = t[n]
      BY <3>2, <3>3
    <3>7. \A n \in DOMAIN found : \E m \in DOMAIN q : q[m] = found[n]
      BY <3>2, <3>4
    <3> QED BY <3>2, <3>5, <3>6, <3>7 DEF t
  <2>6. ASSUME NEW x \in Sentinels, x.parent \notin map' PROVE Dealt(x)'
    <3>1. CASE x.parent \notin map
      <4>1. Dealt(x)
        BY <1>5, <3>1
      <4>2. CASE x = s
        BY <1>9, <2>1, <4>2 DEF Dealt
      <4>3. CASE x # s /\ \E n \in DOMAIN remaining : remaining[n] = x
        BY <1>7, <2>5, <4>3 DEF Dealt
      <4>4. CASE x.type \in Specialized /\ (Abort(x.type) => x \in aborted)
        BY <1>4, <2>1, <4>4 DEF Dealt
      <4>5. CASE x.type \notin Specialized /\ x.type \notin map
        BY <2>1, <4>5 DEF Dealt
      <4> QED BY <4>1, <4>2, <4>3, <4>4, <4>5 DEF Dealt
    <3>2. CASE x.parent \in map
      <4>1. x \in Children(s.type) /\ s.type \in map
        BY <2>1, <2>6, <3>2 DEF Children
      <4>2. \E n \in DOMAIN found : found[n] = x
        BY <2>4, <4>1
      <4> QED BY <2>5, <4>2 DEF Dealt
    <3> QED BY <3>1, <3>2
  <2>7. QueryInv'
    BY <1>1, <1>4, <1>5, <2>1, <2>5, <2>6 DEF QueryInv, A
  <2> QED BY <1>2, <1>3, <2>7 DEF IInv
<1> QED BY <1>8, <1>9

LEMMA EndQueryStep ==
  ASSUME IInv, EndQuery
  PROVE  IInv'
<1>1. /\ stage = "sentinels" /\ remaining = <<>>
      /\ stage' = IF aborted = {} THEN "ready" ELSE "SentinelAborts"
      /\ UNCHANGED <<fs, fresh, attached, phase, ran, errors, mounted, state, remaining, map, aborted>>
  BY DEF EndQuery, vars, app, query
<1>2. FairingsInv'
  BY <1>1, FairingsIdle DEF IInv, vars
<1>3. StageInv'
  BY <1>1 DEF IInv, StageInv, Queried
<1>4. QueryInv'
  BY <1>1 DEF IInv, QueryInv, Queried, Sentinels, Asked, Closed, Dealt, Abort
<1> QED BY <1>2, <1>3, <1>4 DEF IInv

\* Before the sentinels are queried nothing of the search exists.
LEMMA EarlyStep ==
  ASSUME IInv, FairingsInv', stage \in {"fairings", "config"},
         stage' \in {"fairings", "config", "router", "panicked", "FailedFairings", "Config", "InsecureSecretKey"},
         stage' \notin {"fairings", "panicked", "FailedFairings"} => phase' = "ignited",
         UNCHANGED query
  PROVE  IInv'
<1>1. StageInv'
  BY DEF StageInv, Queried
<1>2. QueryInv'
  BY DEF IInv, QueryInv, Queried, query
<1> QED BY <1>1, <1>2 DEF IInv

\* RunFairings, together with the fairings' own steps
LEMMA RunFairingsStep ==
  ASSUME IInv, RunFairings
  PROVE  IInv'
<1>1. /\ stage = "fairings" /\ Next /\ UNCHANGED query
      /\ stage' = CASE phase' = "ignited" -> "config"
                    [] phase' = "failed" -> "FailedFairings"
                    [] OTHER -> stage
  BY DEF RunFairings
<1>2. FairingsInv'
  BY <1>1, FairingsStep DEF IInv
<1>3. stage' \in {"fairings", "config", "FailedFairings"} /\ (stage' = "config" => phase' = "ignited")
  BY <1>1
<1> QED BY <1>1, <1>2, <1>3, EarlyStep

LEMMA NextIInv == IInv /\ [IgnitionNext]_ivars => IInv'
<1> SUFFICES ASSUME IInv, [IgnitionNext]_ivars PROVE IInv'
  OBVIOUS
<1>0. UNCHANGED vars => FairingsInv'
  BY FairingsIdle DEF IInv
<1>1. ASSUME NEW r \in Routes, Mount(r) PROVE IInv'
  <2>1. stage = "fairings" /\ UNCHANGED <<vars, stage, query>>
    BY <1>1 DEF Mount, Building
  <2> QED BY <1>0, <2>1, EarlyStep
<1>2. ASSUME NEW t \in StateTypes, Manage(t) PROVE IInv'
  <2>1. stage = "fairings" /\ stage' \in {"fairings", "panicked"} /\ UNCHANGED <<vars, query>>
    BY <1>2 DEF Manage, Building
  <2> QED BY <1>0, <2>1, EarlyStep
<1>3. CASE RunFairings
  BY <1>3, RunFairingsStep
<1>4. ASSUME NEW valid \in BOOLEAN, NEW debug \in BOOLEAN, NEW random \in BOOLEAN, NEW found \in Keys,
             Configure(valid, debug, found, random)
      PROVE  IInv'
  <2>1. stage = "config" /\ stage' \in {"router", "Config", "InsecureSecretKey"} /\ UNCHANGED <<vars, query>>
    BY <1>4 DEF Configure
  <2>2. phase' = "ignited"
    BY <2>1 DEF IInv, StageInv, vars
  <2> QED BY <1>0, <2>1, <2>2, EarlyStep
<1>5. CASE FinalizeRouter
  BY <1>5, FinalizeRouterStep
<1>6. CASE QueryOne
  BY <1>6, QueryOneStep
<1>7. CASE EndQuery
  BY <1>7, EndQueryStep
<1>8. CASE UNCHANGED ivars
  <2>1. UNCHANGED <<stage, mounted, state, remaining, map, aborted, phase>> /\ FairingsInv'
    BY <1>0, <1>8 DEF ivars, app, query, vars
  <2>2. StageInv'
    BY <2>1 DEF IInv, StageInv, Queried
  <2>3. QueryInv'
    BY <2>1 DEF IInv, QueryInv, Queried, Sentinels, Asked, Closed, Dealt, Abort
  <2> QED BY <2>1, <2>2, <2>3 DEF IInv
<1> QED BY <1>1, <1>2, <1>3, <1>4, <1>5, <1>6, <1>7, <1>8 DEF IgnitionNext

LEMMA InitIInv == IgnitionInit => IInv
<1> SUFFICES ASSUME IgnitionInit PROVE IInv
  OBVIOUS
<1>1. FairingsInv
  BY FairingsBegin DEF IgnitionInit
<1>2. stage = "fairings" /\ map = {} /\ aborted = {}
  BY DEF IgnitionInit
<1> QED BY <1>1, <1>2 DEF IInv, StageInv, QueryInv, Queried

\* The inductive invariant of ignition, for all fairings, routes and sentinels
\* (Fairings::handle_ignite, Rocket::ignite, sentinel::query).
THEOREM Inductive == IgnitionSpec => []IInv
BY InitIInv, NextIInv, PTL DEF IgnitionSpec

\* Whatever fairings attach while they run, those that have run are the first of the
\* ignite vector, each once, and every vector stays sorted (Fairings::add).
THEOREM IgnitionIsInOrder == IgnitionSpec => []RanIsPrefix
<1>1. IInv => RanIsPrefix
  <2> SUFFICES ASSUME IInv PROVE RanIsPrefix
    OBVIOUS
  <2> DEFINE s == fs.active["ignite"]
             i == fs.num_ignited
  <2>1. FairingsInv
    BY DEF IInv
  <2>2. /\ ran \in Seq(Nat) /\ Len(ran) = i /\ \A n \in 1 .. i : ran[n] = s[n]
        /\ i \in Nat /\ i <= Len(s) /\ s \in Seq(Nat)
        /\ \A k \in Kinds : Increasing(fs.active[k]) /\ Increasing(fresh.active[k])
    BY <2>1, SoundFields, FairingAssumption DEF FairingsInv
  <2> HIDE DEF s, i
  <2>3. /\ SubSeq(s, 1, i) \in Seq(Nat) /\ Len(SubSeq(s, 1, i)) = i
        /\ \A n \in 1 .. i : SubSeq(s, 1, i)[n] = s[n]
    BY <2>2
  <2>4. ran = SubSeq(s, 1, i)
    <3> DEFINE t == SubSeq(s, 1, i)
    <3>1. t \in Seq(Nat) /\ Len(t) = Len(ran) /\ \A n \in 1 .. Len(ran) : t[n] = ran[n]
      BY <2>2, <2>3
    <3> HIDE DEF t
    <3>2. ran = t
      BY <2>2, <3>1, SeqEqual
    <3> QED BY <3>2 DEF t
  <2> QED BY <2>2, <2>4 DEF RanIsPrefix, s, i
<1> QED BY <1>1, Inductive, PTL

LEMMA QueryEnds ==
  ASSUME IInv, stage \in {"ready", "SentinelAborts"}
  PROVE  aborted = {s \in Asked(Sentinels) : s.type \in Specialized /\ Abort(s.type)}
<1>1. /\ remaining = <<>> /\ NoParent \notin map
      /\ aborted \subseteq {s \in Asked(Sentinels) : s.type \in Specialized /\ Abort(s.type)}
      /\ \A s \in Sentinels : s.parent \notin map => Dealt(s)
  BY DEF IInv, QueryInv, Queried
<1> DEFINE S == {s \in Sentinels : Dealt(s)}
<1>2. Closed(S, Sentinels)
  <2> SUFFICES ASSUME NEW s \in Sentinels
               PROVE  /\ s.parent = NoParent => s \in S
                      /\ \A p \in S : p.type = s.parent /\ p.type \notin Specialized => s \in S
    BY DEF Closed
  <2>1. s.parent = NoParent => s \in S
    BY <1>1
  <2>2. ASSUME NEW p \in S, p.type = s.parent, p.type \notin Specialized PROVE s \in S
    <3>1. p.type \notin map
      BY <1>1, <2>2 DEF Dealt
    <3> QED BY <1>1, <2>2, <3>1
  <2> QED BY <2>1, <2>2
<1> HIDE DEF S
<1>3. Asked(Sentinels) \subseteq S
  BY <1>2, AskedIsLeast DEF S
<1>4. \A s \in S : s.type \in Specialized /\ Abort(s.type) => s \in aborted
  BY <1>1 DEF S, Dealt
<1> QED BY <1>1, <1>3, <1>4

\* The search of the sentinels, which removes edges as it follows them, reports all
\* that abort and no others, for every graph of types (sentinel::query).
THEOREM QueriesAreExact == IgnitionSpec => []QueryIsExact
<1>1. IInv => QueryIsExact
  BY QueryEnds DEF QueryIsExact
<1> QED BY <1>1, Inductive, PTL

\* A rocket that ignites has run its ignite fairings without an error, has no routes
\* that collide, and manages every state that its handlers ask for (Rocket::ignite).
THEOREM IgnitionIsSafe == IgnitionSpec => []ReadyIsSafe
<1>1. IInv => ReadyIsSafe
  <2> SUFFICES ASSUME IInv, stage = "ready"
               PROVE  /\ ran = fs.active["ignite"] /\ ~errors
                      /\ \A pair \in Colliding : ~(pair \subseteq mounted)
                      /\ \A r \in mounted : \A s \in Guarded(r) :
                            s.type \in Specialized => Needs[s.type] \in state \cup {None}
    BY DEF ReadyIsSafe
  <2>1. phase = "ignited" /\ aborted = {} /\ \A pair \in Colliding : ~(pair \subseteq mounted)
    BY DEF IInv, StageInv, Queried
  <2>2. ~errors
    BY <2>1, SoundFields DEF IInv, FairingsInv
  <2>3. ran = fs.active["ignite"]
    <3> DEFINE s == fs.active["ignite"]
    <3>1. /\ ran \in Seq(Nat) /\ s \in Seq(Nat) /\ Len(ran) = Len(s)
          /\ \A n \in 1 .. Len(ran) : ran[n] = s[n]
      BY <2>1, SoundFields, FairingAssumption DEF IInv, FairingsInv
    <3> HIDE DEF s
    <3>2. ran = s
      BY <3>1, SeqEqual
    <3> QED BY <3>2 DEF s
  <2>4. ASSUME NEW r \in mounted, NEW s \in Guarded(r), s.type \in Specialized
        PROVE  Needs[s.type] \in state \cup {None}
    <3>1. s \in Asked(Sentinels)
      BY GuardedIsAsked
    <3>2. ~Abort(s.type)
      BY <2>1, <2>4, <3>1, QueryEnds
    <3> QED BY <3>2 DEF Abort
  <2> QED BY <2>1, <2>2, <2>3, <2>4
<1> QED BY <1>1, Inductive, PTL
=============================================================================
