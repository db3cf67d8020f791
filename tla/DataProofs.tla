----------------------------- MODULE DataProofs -----------------------------
(***************************************************************************)
(* Theorems about Data, for every size of a body and of the buffers, every *)
(* limit and every chain of transforms; and about Templates, for every     *)
(* directory, every set of requests and every number of changes.           *)
(***************************************************************************)
EXTENDS Data, Templates, WellFoundedInduction, SequenceTheorems, TLAPS

-----------------------------------------------------------------------------
(* Recursion over the levels                                               *)

\* Every set of natural numbers that is not empty has a least one: induction, in
\* the form in which the provers can use it.
LEMMA Least ==
  ASSUME NEW S \in SUBSET Nat, S # {}
  PROVE  \E m \in S : \A k \in S : m <= k
<1> DEFINE R == {ss \in Nat \X Nat : ss[1] < ss[2]}
<1>1. IsWellFoundedOn(R, Nat)
  BY NatLessThanWellFounded DEF OpToRel
<1> HIDE DEF R
<1>2. PICK x \in S : \A y \in S : ~(<<y, x>> \in R)
  BY <1>1, WFMin
<1>3. \A y \in S : ~(y < x)
  BY <1>2 DEF R
<1> QED BY <1>3

\* The equation that the recursive function of Polls satisfies up to level n
IsPoll(g, bytes, n) ==
    g = [i \in 0 .. n |->
            IF i = 0 THEN [fresh |-> bytes, pending |-> FALSE, levels |-> <<>>]
            ELSE PollLevel(g[i - 1], i)]

\* Such a function exists: a chain of transforms is well defined.
LEMMA PollExists ==
  ASSUME NEW bytes, NEW n \in Nat
  PROVE  \E g : IsPoll(g, bytes, n)
<1> DEFINE start == [fresh |-> bytes, pending |-> FALSE, levels |-> <<>>]
           Bad == {k \in Nat : ~\E g : IsPoll(g, bytes, k)}
<1> HIDE DEF start
<1> SUFFICES ASSUME Bad # {} PROVE FALSE
  OBVIOUS
<1>1. PICK m \in Bad : \A k \in Bad : m <= k
  <2> HIDE DEF Bad
  <2> Bad \in SUBSET Nat
    BY DEF Bad
  <2> QED BY Least
<1>2. CASE m = 0
  <2> DEFINE h == [i \in 0 .. 0 |-> start]
  <2>1. \A i \in 0 .. 0 : start = IF i = 0 THEN start ELSE PollLevel(h[i - 1], i)
    OBVIOUS
  <2>2. h = [i \in 0 .. 0 |-> IF i = 0 THEN start ELSE PollLevel(h[i - 1], i)]
    BY <2>1
  <2> HIDE DEF h
  <2>3. IsPoll(h, bytes, 0)
    BY <2>2 DEF IsPoll, start
  <2> QED BY <1>1, <1>2, <2>3
<1>3. CASE m # 0
  <2>1. m \in Nat /\ m - 1 \in Nat /\ m - 1 \notin Bad
    BY <1>1, <1>3
  <2>2. PICK g : IsPoll(g, bytes, m - 1)
    BY <2>1
  <2>3. g = [i \in 0 .. m - 1 |-> IF i = 0 THEN start ELSE PollLevel(g[i - 1], i)]
    BY <2>2 DEF IsPoll, start
  <2> DEFINE h == [i \in 0 .. m |-> IF i = m THEN PollLevel(g[m - 1], m) ELSE g[i]]
  <2>4. \A i \in 0 .. m : h[i] = IF i = 0 THEN start ELSE PollLevel(h[i - 1], i)
    <3> TAKE i \in 0 .. m
    <3>1. CASE i = m
      <4> h[m - 1] = g[m - 1] /\ h[m] = PollLevel(g[m - 1], m)
        BY <2>1
      <4> QED BY <3>1, <1>3
    <3>2. CASE i # m
      <4> i \in 0 .. m - 1 /\ h[i] = g[i]
        BY <2>1, <3>2
      <4>1. g[i] = IF i = 0 THEN start ELSE PollLevel(g[i - 1], i)
        BY <2>3
      <4>2. i # 0 => h[i - 1] = g[i - 1]
        BY <2>1, <3>2
      <4> QED BY <4>1, <4>2
    <3> QED BY <3>1, <3>2
  <2>5. h = [i \in 0 .. m |-> h[i]]
    OBVIOUS
  <2> HIDE DEF h
  <2>6. IsPoll(h, bytes, m)
    BY <2>4, <2>5 DEF IsPoll, start
  <2> QED BY <2>6, <1>1
<1> QED BY <1>2, <1>3

\* Polls is that function, level by level.
PollsInTurn(g, bytes) ==
    /\ g[0] = [fresh |-> bytes, pending |-> FALSE, levels |-> <<>>]
    /\ \A i \in 1 .. Len(levels) : g[i] = PollLevel(g[i - 1], i)

LEMMA PollsAre ==
  ASSUME NEW bytes, Len(levels) \in Nat
  PROVE  PollsInTurn(Polls(bytes), bytes)
<1> DEFINE Is(g) ==
      g = [i \in 0 .. Len(levels) |->
              IF i = 0 THEN [fresh |-> bytes, pending |-> FALSE, levels |-> <<>>]
              ELSE PollLevel(g[i - 1], i)]
           g == Polls(bytes)
<1>1. g = CHOOSE h : Is(h)
  BY Zenon DEF Polls
<1>2. \A h : Is(h) <=> IsPoll(h, bytes, Len(levels))
  BY Zenon DEF IsPoll
<1> HIDE DEF Is
<1>3. \E h : Is(h)
  BY <1>2, PollExists
<1>4. Is(g)
  BY <1>1, <1>3, Zenon
<1> HIDE DEF g
<1>5. IsPoll(g, bytes, Len(levels))
  BY <1>2, <1>4
<1>6. g[0] = [fresh |-> bytes, pending |-> FALSE, levels |-> <<>>]
  BY <1>5 DEF IsPoll
<1>7. \A i \in 1 .. Len(levels) : g[i] = PollLevel(g[i - 1], i)
  <2> TAKE i \in 1 .. Len(levels)
  <2>1. i \in 0 .. Len(levels) /\ i # 0
    OBVIOUS
  <2> QED BY <1>5, <2>1, Zenon DEF IsPoll
<1>8. PollsInTurn(g, bytes)
  BY <1>6, <1>7 DEF PollsInTurn
<1> QED BY <1>8 DEF g

-----------------------------------------------------------------------------
(* No transform takes a read for the end                                   *)

\* What a level hands on while the stream below has not ended
PollGoesOn(acc) ==
    /\ {"fresh", "pending", "levels"} \subseteq DOMAIN acc
    /\ acc.fresh = <<>> => acc.pending
    /\ LevelsAreOpen(acc.levels)

LEMMA AppendOpen ==
  ASSUME NEW ls, LevelsAreOpen(ls), NEW level, IsOpen(level)
  PROVE  LevelsAreOpen(Append(ls, level)) /\ Len(Append(ls, level)) = Len(ls) + 1
<1> DEFINE S == {ls[i] : i \in 1 .. Len(ls)} \cup {level}
<1>1. ls \in Seq(S) /\ level \in S
  BY DEF LevelsAreOpen
<1> HIDE DEF S
<1>2. /\ Append(ls, level) \in Seq(S) /\ Len(Append(ls, level)) = Len(ls) + 1
      /\ \A i \in 1 .. Len(ls) : Append(ls, level)[i] = ls[i]
      /\ Append(ls, level)[Len(ls) + 1] = level
  BY <1>1
<1>3. \A i \in 1 .. Len(ls) + 1 : i \in 1 .. Len(ls) \/ i = Len(ls) + 1
  BY <1>1
<1>4. Len(Append(ls, level)) \in Nat
      /\ Append(ls, level) = [i \in 1 .. Len(Append(ls, level)) |-> Append(ls, level)[i]]
  <2> DEFINE t == Append(ls, level)
  <2>1. t \in Seq(S)
    BY <1>2
  <2> HIDE DEF t
  <2>2. Len(t) \in Nat /\ t = [i \in 1 .. Len(t) |-> t[i]]
    BY <2>1
  <2> QED BY <2>2 DEF t
<1> QED BY <1>2, <1>3, <1>4 DEF LevelsAreOpen

LEMMA PollReadGoesOn ==
  ASSUME NEW acc, PollGoesOn(acc), NEW level, IsOpen(level)
  PROVE  PollGoesOn(PollRead(acc, level)) /\ Len(PollRead(acc, level).levels) = Len(acc.levels) + 1
<1> DEFINE after == Transform(level.kind, acc.fresh)
           next == [level EXCEPT !.seen = @ \o acc.fresh]
<1>a. LevelsAreOpen(acc.levels) /\ {"fresh", "pending", "levels"} \subseteq DOMAIN acc
  BY DEF PollGoesOn
<1>1. CASE acc.pending
  <2> DEFINE p == [acc EXCEPT !.levels = Append(@, level)]
  <2>1. PollRead(acc, level) = p
    BY <1>1 DEF PollRead
  <2>2. DOMAIN p = DOMAIN acc /\ p.levels = Append(acc.levels, level)
    BY <1>a
  <2>3. p.pending
    BY <1>1, <1>a
  <2> HIDE DEF p
  <2>4. LevelsAreOpen(p.levels) /\ Len(p.levels) = Len(acc.levels) + 1
    BY <1>a, <2>2, AppendOpen
  <2> QED BY <1>a, <2>1, <2>2, <2>3, <2>4 DEF PollGoesOn
<1>2. CASE ~acc.pending
  <2>1. acc.fresh # <<>>
    BY <1>2 DEF PollGoesOn
  <2>2. ~level.inner_done
    BY DEF IsOpen
  <2>3. IsOpen(next)
    BY DEF IsOpen
  <2> HIDE DEF after, next
  <2> DEFINE p == [acc EXCEPT !.fresh = after, !.pending = after = <<>>, !.levels = Append(@, next)]
  <2>4. PollRead(acc, level) = p
    BY <1>2, <2>1, <2>2 DEF PollRead, after, next
  <2>5. DOMAIN p = DOMAIN acc /\ p.levels = Append(acc.levels, next) /\ p.fresh = after
    BY <1>a
  <2>6. p.fresh = <<>> => p.pending
    <3> HAVE p.fresh = <<>>
    <3>1. (after = <<>>) = TRUE
      BY <2>5, Zenon
    <3>2. p = [acc EXCEPT !.fresh = after, !.pending = TRUE, !.levels = Append(@, next)]
      BY <3>1, Zenon
    <3> HIDE DEF p
    <3>3. p.pending = TRUE
      BY <1>a, <3>2
    <3> QED BY <3>3
  <2> HIDE DEF p
  <2>7. LevelsAreOpen(p.levels) /\ Len(p.levels) = Len(acc.levels) + 1
    BY <1>a, <2>3, <2>5, AppendOpen
  <2> QED BY <1>a, <2>4, <2>5, <2>6, <2>7 DEF PollGoesOn
<1> QED BY <1>1, <1>2

\* A read that is not empty ends no level, and is not taken for the end.
LEMMA PolledGoesOn ==
  ASSUME NEW bytes, bytes # <<>>, LevelsAreOpen(levels)
  PROVE  PollGoesOn(Polled(bytes))
<1> DEFINE g == Polls(bytes)
           n == Len(levels)
           Bad == {k \in 0 .. n : ~PollGoesOn(g[k])}
<1>1. Polled(bytes) = g[n]
  BY DEF Polled
<1>2. n \in Nat /\ PollsInTurn(g, bytes)
  BY PollsAre DEF LevelsAreOpen
<1> HIDE DEF g
<1>3. g[0] = [fresh |-> bytes, pending |-> FALSE, levels |-> <<>>]
  BY <1>2 DEF PollsInTurn
<1>4. \A k \in 1 .. n : g[k] = PollRead(g[k - 1], levels[k])
  <2> TAKE k \in 1 .. n
  <2>1. ~NotRead(k)
    BY <1>2 DEF NotRead, LevelsAreOpen, IsOpen
  <2> QED BY <1>2, <2>1 DEF PollsInTurn, PollLevel
<1> SUFFICES ASSUME Bad # {} PROVE FALSE
  BY <1>1, <1>2
<1>5. PICK m \in Bad : \A k \in Bad : m <= k
  <2>1. Bad \in SUBSET Nat
    OBVIOUS
  <2> HIDE DEF Bad
  <2> QED BY <2>1, Least
<1>6. CASE m = 0
  <2>1. LevelsAreOpen(<<>>)
    BY DEF LevelsAreOpen
  <2>2. DOMAIN g[0] = {"fresh", "pending", "levels"} /\ g[0].fresh = bytes /\ g[0].levels = <<>>
    BY <1>3
  <2>3. PollGoesOn(g[0])
    BY <2>1, <2>2 DEF PollGoesOn
  <2> QED BY <1>5, <1>6, <2>3
<1>7. CASE m # 0
  <2>1. m \in 1 .. n /\ m - 1 \in 0 .. n /\ m - 1 \notin Bad
    BY <1>2, <1>5, <1>7
  <2>2. PollGoesOn(g[m - 1])
    BY <2>1
  <2>3. PollGoesOn(PollRead(g[m - 1], levels[m]))
    BY <2>1, <2>2, PollReadGoesOn DEF LevelsAreOpen
  <2> QED BY <1>4, <1>5, <2>1, <2>3
<1> QED BY <1>6, <1>7

-----------------------------------------------------------------------------
(* The cuts                                                                *)

LEMMA BytesAre ==
  ASSUME NEW n \in Nat
  PROVE  Bytes(n) \in Seq(Nat) /\ Len(Bytes(n)) = n /\ \A i \in 1 .. n : Bytes(n)[i] = i
BY DEF Bytes

\* What arrives continues what has arrived.
LEMMA ArrivesInOrder ==
  ASSUME NEW n \in Nat, NEW bytes \in Arrives(n), CutsAreSound, BreaksAreSound
  PROVE  /\ bytes \in Seq(Nat) /\ Len(bytes) \in 1 .. n
         /\ given + Len(bytes) <= size
         /\ broken # -1 => given + Len(bytes) <= broken
         /\ \A i \in 1 .. Len(bytes) : bytes[i] = given + i
<1>1. PICK k \in 1 .. n : /\ k <= (IF broken >= 0 THEN broken ELSE size) - given
                          /\ bytes = SubSeq(Bytes(size), given + 1, given + k)
  BY DEF Arrives
<1>2. /\ size \in Nat /\ given \in 0 .. size /\ broken \in Int
      /\ broken = -1 \/ (given <= broken /\ broken < size)
  BY DEF CutsAreSound, BreaksAreSound
<1>3. given + k <= size /\ (broken # -1 => given + k <= broken)
  BY <1>1, <1>2
<1>4. bytes \in Seq(Nat) /\ Len(bytes) = k /\ \A i \in 1 .. k : bytes[i] = Bytes(size)[given + i]
  <2> DEFINE b == Bytes(size)
  <2>1. b \in Seq(Nat) /\ Len(b) = size
    BY <1>2, BytesAre
  <2> HIDE DEF b
  <2>2. given + 1 \in 1 .. Len(b) + 1 /\ given + k \in 0 .. Len(b)
    BY <1>2, <1>3, <2>1
  <2>3. SubSeq(b, given + 1, given + k) \in Seq(Nat)
        /\ Len(SubSeq(b, given + 1, given + k)) = k
        /\ \A i \in 1 .. k : SubSeq(b, given + 1, given + k)[i] = b[given + i]
    BY <1>2, <2>1, <2>2
  <2> QED BY <1>1, <2>3 DEF b
<1>5. \A i \in 1 .. k : given + i \in 1 .. size
  BY <1>2, <1>3
<1> QED BY <1>1, <1>2, <1>3, <1>4, <1>5, BytesAre

\* What the limited reader returns comes from the front of the buffer or, once
\* that is empty, from the transport; nothing only at the limit or at the end.
LEMMA BaseReadsInOrder ==
  ASSUME CutsAreSound, BreaksAreSound, NEW bytes \in BaseReads(Space)
  PROVE  /\ bytes \in Seq(Nat) /\ Len(bytes) <= limit
         /\ \A i \in 1 .. Len(bytes) : bytes[i] = Len(base) + i
         /\ bytes = <<>> <=> BaseEnded
         /\ buffer # <<>> => Len(bytes) <= Len(buffer)
         /\ buffer = <<>> => /\ given + Len(bytes) <= size
                             /\ broken # -1 => given + Len(bytes) <= broken
                             /\ bytes # <<>> => ~AtEnd
<1> DEFINE room == IF Space < limit THEN Space ELSE limit
<1>1. /\ size \in Nat /\ given \in 0 .. size /\ limit \in Nat
      /\ base \in Seq(Nat) /\ buffer \in Seq(Nat)
      /\ Len(base) + Len(buffer) = given
      /\ \A i \in 1 .. Len(buffer) : buffer[i] = Len(base) + i
      /\ broken \in Int /\ (broken = -1 \/ (given <= broken /\ broken < size))
  BY DEF CutsAreSound, BreaksAreSound
<1>2. room \in Nat /\ room <= limit /\ (room = 0 <=> limit = 0)
  BY <1>1, DataAssumption
<1>3. bytes \in IF room = 0 THEN {<<>>}
                ELSE IF buffer # <<>>
                     THEN {SubSeq(buffer, 1, IF room < Len(buffer) THEN room ELSE Len(buffer))}
                     ELSE IF AtEnd THEN {<<>>} ELSE Arrives(room)
  BY DEF BaseReads
<1> HIDE DEF room
<1>4. CASE room = 0
  <2> bytes = <<>> /\ BaseEnded
    BY <1>2, <1>3, <1>4 DEF BaseEnded
  <2> QED BY <1>1
<1>5. CASE room # 0 /\ buffer # <<>>
  <2> DEFINE k == IF room < Len(buffer) THEN room ELSE Len(buffer)
  <2>1. bytes = SubSeq(buffer, 1, k) /\ k \in 1 .. Len(buffer) /\ k <= room /\ Len(buffer) > 0
    BY <1>1, <1>2, <1>3, <1>5
  <2> HIDE DEF k
  <2>2. bytes \in Seq(Nat) /\ Len(bytes) = k /\ \A i \in 1 .. k : bytes[i] = buffer[i]
    BY <1>1, <2>1
  <2>3. ~BaseEnded /\ bytes # <<>>
    BY <1>2, <1>5, <2>1, <2>2 DEF BaseEnded
  <2>4. /\ Len(bytes) <= limit /\ Len(bytes) <= Len(buffer)
        /\ \A i \in 1 .. Len(bytes) : bytes[i] = Len(base) + i
    BY <1>1, <1>2, <2>1, <2>2
  <2> QED BY <1>5, <2>2, <2>3, <2>4
<1>6. CASE room # 0 /\ buffer = <<>> /\ AtEnd
  <2> bytes = <<>> /\ BaseEnded
    BY <1>2, <1>3, <1>6 DEF BaseEnded
  <2> QED BY <1>1, <1>6
<1>7. CASE room # 0 /\ buffer = <<>> /\ ~AtEnd
  <2>1. bytes \in Arrives(room)
    BY <1>3, <1>7
  <2>2. /\ bytes \in Seq(Nat) /\ Len(bytes) \in 1 .. room
        /\ given + Len(bytes) <= size
        /\ broken # -1 => given + Len(bytes) <= broken
        /\ \A i \in 1 .. Len(bytes) : bytes[i] = given + i
    BY <1>2, <2>1, ArrivesInOrder
  <2>3. ~BaseEnded /\ bytes # <<>> /\ Len(base) = given
    BY <1>1, <1>2, <1>7, <2>2 DEF BaseEnded
  <2> QED BY <1>1, <1>2, <1>7, <2>2, <2>3
<1> QED BY <1>4, <1>5, <1>6, <1>7

\* Putting bytes that continue `s` at its end
LEMMA Continues ==
  ASSUME NEW s \in Seq(Nat), NEW t \in Seq(Nat), NEW from \in Nat,
         \A i \in 1 .. Len(s) : s[i] = from + i,
         \A i \in 1 .. Len(t) : t[i] = from + Len(s) + i
  PROVE  /\ s \o t \in Seq(Nat) /\ Len(s \o t) = Len(s) + Len(t)
         /\ \A i \in 1 .. Len(s \o t) : (s \o t)[i] = from + i
<1>1. s \o t \in Seq(Nat) /\ Len(s \o t) = Len(s) + Len(t)
  OBVIOUS
<1>2. ASSUME NEW i \in 1 .. Len(s) + Len(t) PROVE (s \o t)[i] = from + i
  <2>1. CASE i <= Len(s)
    BY <2>1
  <2>2. CASE i > Len(s)
    <3> i - Len(s) \in 1 .. Len(t) /\ (s \o t)[i] = t[i - Len(s)]
      BY <2>2
    <3> QED OBVIOUS
  <2> QED BY <2>1, <2>2
<1> QED BY <1>1, <1>2

\* What is left of the buffer after its front was taken
LEMMA Rests ==
  ASSUME NEW s \in Seq(Nat), NEW k \in 0 .. Len(s)
  PROVE  /\ SubSeq(s, k + 1, Len(s)) \in Seq(Nat)
         /\ Len(SubSeq(s, k + 1, Len(s))) = Len(s) - k
         /\ \A i \in 1 .. Len(s) - k : SubSeq(s, k + 1, Len(s))[i] = s[k + i]
<1> DEFINE t == SubSeq(s, k + 1, Len(s))
<1>1. Len(s) \in Nat /\ k + 1 \in 1 .. Len(s) + 1
  OBVIOUS
<1>2. t \in Seq(Nat) /\ Len(t) = IF k + 1 <= Len(s) THEN Len(s) - (k + 1) + 1 ELSE 0
  BY <1>1
<1>3. \A i \in 1 .. Len(s) - (k + 1) + 1 : t[i] = s[(k + 1) + i - 1]
  BY <1>1
<1>4. \A i \in 1 .. Len(s) - k : i \in 1 .. Len(s) - (k + 1) + 1 /\ (k + 1) + i - 1 = k + i
  BY <1>1
<1> HIDE DEF t
<1>5. Len(t) = Len(s) - k
  BY <1>1, <1>2
<1>6. \A i \in 1 .. Len(s) - k : t[i] = s[k + i]
  BY <1>3, <1>4
<1> QED BY <1>2, <1>5, <1>6 DEF t

-----------------------------------------------------------------------------
(* The inductive invariant                                                 *)

LEMMA InitIInv == Init => IInv
<1> SUFFICES ASSUME Init PROVE IInv
  OBVIOUS
<1>1. PICK chain \in Chains : levels = [i \in DOMAIN chain |-> NewLevel(chain[i])]
  BY DEF Init
<1>2. DOMAIN chain = 1 .. Len(chain) /\ Len(chain) \in Nat
  BY <1>1, DataAssumption
<1>3. \A kind : IsOpen(NewLevel(kind))
  BY DEF IsOpen, NewLevel
<1>4. LevelsAreOpen(levels)
  <2>1. levels = [i \in 1 .. Len(chain) |-> NewLevel(chain[i])]
    BY <1>1, <1>2
  <2>2. Len(levels) = Len(chain)
    BY <1>2, <2>1, LenProperties
  <2>3. \A i \in 1 .. Len(levels) : levels[i] = NewLevel(chain[i])
    BY <2>1, <2>2
  <2> QED BY <1>2, <1>3, <2>1, <2>2, <2>3 DEF LevelsAreOpen
<1>5. /\ size \in Nat /\ limit = 0 /\ opened = 0 /\ base = <<>> /\ phase = "data"
      /\ swallowed = FALSE
      /\ \/ /\ broken \in -1 .. size - 1 /\ given = 0 /\ buffer = <<>> /\ complete = FALSE
         \/ /\ broken = -1 /\ given = size /\ buffer = Bytes(size) /\ complete = TRUE
  BY DataAssumption DEF Init
<1>6. CutsAreSound
  <2>1. /\ buffer \in Seq(Nat) /\ Len(buffer) = given
        /\ \A i \in 1 .. Len(buffer) : buffer[i] = i
    <3>1. CASE buffer = <<>> /\ given = 0
      BY <3>1
    <3>2. CASE buffer = Bytes(size) /\ given = size
      BY <1>5, <3>2, BytesAre
    <3> QED BY <1>5, <3>1, <3>2
  <2>2. given \in 0 .. size
    BY <1>5
  <2> QED BY <1>5, <2>1, <2>2 DEF CutsAreSound
<1>7. BreaksAreSound
  <2>1. complete => given = size
    BY <1>5
  <2>2. broken \in Int /\ (broken = -1 \/ (given <= broken /\ broken < size)) /\ ~swallowed
    BY <1>5
  <2> QED BY <2>1, <2>2 DEF BreaksAreSound, AtEnd
<1>8. EndIsReal
  BY <1>4, <1>5 DEF EndIsReal
<1> QED BY <1>6, <1>7, <1>8 DEF IInv

LEMMA PeekReadStep ==
  ASSUME IInv, NEW num \in 1 .. PeekMax + 1, PeekRead(num)
  PROVE  IInv'
<1>1. CutsAreSound /\ BreaksAreSound /\ EndIsReal
  BY DEF IInv
<1>2. PeekMax - Len(buffer) \in Nat /\ phase = "data" /\ ~complete
  BY <1>1, DataAssumption DEF PeekRead, Peeks, CutsAreSound
<1>3. PICK bytes \in Arrives(PeekMax - Len(buffer)) : buffer' = buffer \o bytes /\ given' = given + Len(bytes)
  BY DEF PeekRead
<1>4. /\ bytes \in Seq(Nat) /\ Len(bytes) \in Nat \ {0}
      /\ given + Len(bytes) <= size
      /\ broken # -1 => given + Len(bytes) <= broken
      /\ \A i \in 1 .. Len(bytes) : bytes[i] = given + i
  <2> DEFINE n == PeekMax - Len(buffer)
  <2>1. n \in Nat /\ bytes \in Arrives(n)
    BY <1>2, <1>3
  <2> HIDE DEF n
  <2> QED BY <1>1, <2>1, ArrivesInOrder
<1>5. UNCHANGED <<size, broken, complete, swallowed, phase, limit, opened, levels, base, capped>>
  BY DEF PeekRead
<1>6. CutsAreSound'
  <2>1. /\ size \in Nat /\ given \in 0 .. size /\ base \in Seq(Nat) /\ buffer \in Seq(Nat)
        /\ Len(base) + Len(buffer) = given
        /\ \A i \in 1 .. Len(buffer) : buffer[i] = Len(base) + i
    BY <1>1 DEF CutsAreSound
  <2>2. \A i \in 1 .. Len(bytes) : bytes[i] = Len(base) + Len(buffer) + i
    BY <1>4, <2>1
  <2>3. Len(base) \in Nat
    BY <2>1
  <2>4. /\ buffer' \in Seq(Nat) /\ Len(buffer') = Len(buffer) + Len(bytes)
        /\ \A i \in 1 .. Len(buffer') : buffer'[i] = Len(base) + i
    BY <1>3, <1>4, <2>1, <2>2, <2>3, Continues
  <2>5. given' \in 0 .. size /\ Len(base) + Len(buffer') = given'
    <3>1. Len(buffer) \in Nat /\ Len(bytes) \in Nat /\ Len(buffer') = Len(buffer) + Len(bytes)
      BY <1>4, <2>1, <2>4
    <3>2. size \in Nat /\ given \in Nat /\ given' = given + Len(bytes) /\ given + Len(bytes) <= size
      BY <1>3, <1>4, <2>1
    <3>3. Len(base) + Len(buffer) = given
      BY <2>1
    <3> QED BY <2>3, <3>1, <3>2, <3>3
  <2> QED BY <1>1, <1>5, <2>1, <2>4, <2>5 DEF CutsAreSound
<1>7. BreaksAreSound'
  <2>1. size \in Nat /\ given \in Nat /\ broken \in Int
        /\ (broken = -1 \/ (given <= broken /\ broken < size)) /\ (swallowed => broken = given)
    BY <1>1 DEF CutsAreSound, BreaksAreSound
  <2>2. ~swallowed
    <3> broken # given
      BY <1>4, <2>1
    <3> QED BY <2>1
  <2>3. broken = -1 \/ (given' <= broken /\ broken < size)
    BY <1>3, <1>4, <2>1
  <2> QED BY <1>2, <1>5, <2>1, <2>2, <2>3 DEF BreaksAreSound
<1>8. EndIsReal'
  <2>1. limit = 0
    BY <1>1, <1>2 DEF CutsAreSound
  <2> QED BY <1>1, <1>2, <1>5, <2>1 DEF EndIsReal, LevelsAreOpen
<1> QED BY <1>6, <1>7, <1>8 DEF IInv

LEMMA PeekEndStep ==
  ASSUME IInv, NEW num \in 1 .. PeekMax + 1, PeekEnd(num)
  PROVE  IInv'
<1>1. CutsAreSound /\ BreaksAreSound /\ EndIsReal
  BY DEF IInv
<1>2. /\ UNCHANGED <<size, broken, given, buffer, swallowed, phase, limit, opened, levels, base, capped>>
      /\ AtEnd /\ phase = "data"
  BY DEF PeekEnd, Peeks
<1>3. CutsAreSound'
  BY <1>1, <1>2 DEF CutsAreSound
<1>4. BreaksAreSound'
  BY <1>1, <1>2 DEF BreaksAreSound, AtEnd
<1>5. EndIsReal'
  BY <1>1, <1>2 DEF EndIsReal, LevelsAreOpen
<1> QED BY <1>3, <1>4, <1>5 DEF IInv

LEMMA PeekErrStep ==
  ASSUME IInv, NEW num \in 1 .. PeekMax + 1, PeekErr(num)
  PROVE  IInv'
<1>1. CutsAreSound /\ BreaksAreSound /\ EndIsReal
  BY DEF IInv
<1>2. /\ UNCHANGED <<size, broken, given, buffer, complete, phase, limit, opened, levels, base, capped>>
      /\ swallowed' = TRUE /\ Breaks /\ phase = "data"
  BY DEF PeekErr, Peeks
<1>3. CutsAreSound'
  BY <1>1, <1>2 DEF CutsAreSound
<1>4. BreaksAreSound'
  BY <1>1, <1>2 DEF BreaksAreSound, AtEnd, Breaks
<1>5. EndIsReal'
  BY <1>1, <1>2 DEF EndIsReal, LevelsAreOpen
<1> QED BY <1>3, <1>4, <1>5 DEF IInv

LEMMA OpenStep ==
  ASSUME IInv, NEW max \in 0 .. MaxLimit, Open(max)
  PROVE  IInv'
<1>1. CutsAreSound /\ BreaksAreSound /\ EndIsReal
  BY DEF IInv
<1>2. /\ UNCHANGED <<size, broken, given, buffer, complete, swallowed, levels, base, capped>>
      /\ limit' = max /\ opened' = max /\ phase = "data" /\ phase' = "open"
  BY DEF Open
<1>3. CutsAreSound'
  <2>1. Len(base) = 0 /\ max \in Nat
    <3> limit = 0 /\ Len(base) + limit = opened /\ opened = 0
      BY <1>1, <1>2 DEF CutsAreSound
    <3> QED BY <1>1, DataAssumption DEF CutsAreSound
  <2> QED BY <1>1, <1>2, <2>1 DEF CutsAreSound
<1>4. BreaksAreSound'
  BY <1>1, <1>2 DEF BreaksAreSound, AtEnd
<1>5. EndIsReal'
  BY <1>1, <1>2 DEF EndIsReal, LevelsAreOpen
<1> QED BY <1>3, <1>4, <1>5 DEF IInv

\* The end of the limited reader is final.
LEMMA ReadStep ==
  ASSUME IInv, Read
  PROVE  IInv'
<1>1. CutsAreSound /\ BreaksAreSound /\ EndIsReal
  BY DEF IInv
<1>2. PICK bytes \in IF InnerDone THEN {<<>>} ELSE BaseReads(Space) :
          /\ levels' = Polled(bytes).levels
          /\ base' = base \o bytes
          /\ limit' = limit - Len(bytes)
          /\ Took(bytes)
          /\ phase' = IF Polled(bytes).fresh = <<>> /\ ~Polled(bytes).pending THEN "read" ELSE "open"
  BY DEF Read
<1>3. UNCHANGED <<size, broken, complete, swallowed, opened, capped>> /\ phase = "open"
  BY DEF Read
<1>4. /\ size \in Nat /\ given \in 0 .. size /\ limit \in Nat /\ opened \in Nat
      /\ base \in Seq(Nat) /\ buffer \in Seq(Nat) /\ Len(base) \in Nat /\ Len(buffer) \in Nat
      /\ Len(base) + Len(buffer) = given
      /\ \A i \in 1 .. Len(base) : base[i] = i
      /\ \A i \in 1 .. Len(buffer) : buffer[i] = Len(base) + i
      /\ Len(base) + limit = opened
  BY <1>1 DEF CutsAreSound
<1>5. CASE bytes = <<>>
  <2>1. BaseEnded
    <3>1. CASE InnerDone
      <4>1. DOMAIN levels = 1 .. Len(levels) => ~LevelsAreOpen(levels)
        BY <3>1 DEF InnerDone, LevelsAreOpen, IsOpen
      <4>2. ~LevelsAreOpen(levels)
        BY <4>1 DEF LevelsAreOpen
      <4> QED BY <1>1, <1>3, <4>2 DEF EndIsReal
    <3>2. CASE ~InnerDone
      <4>1. bytes \in BaseReads(Space)
        BY <1>2, <3>2
      <4> QED BY <1>1, <1>5, <4>1, BaseReadsInOrder
    <3> QED BY <3>1, <3>2
  <2>2. Len(bytes) = 0
    BY <1>5
  <2>3. base' = base /\ limit' = limit
    BY <1>2, <1>4, <1>5, <2>2
  <2>4. given' = given /\ buffer' = buffer
    <3>1. CASE buffer # <<>>
      <4>1. buffer' = SubSeq(buffer, 0 + 1, Len(buffer)) /\ given' = given
        BY <1>2, <2>2, <3>1 DEF Took
      <4>2. SubSeq(buffer, 1, Len(buffer)) = buffer
        BY <1>4
      <4> QED BY <4>1, <4>2
    <3>2. CASE buffer = <<>>
      BY <1>2, <1>4, <2>2, <3>2 DEF Took
    <3> QED BY <3>1, <3>2
  <2>5. phase' \in {"open", "read"}
    BY <1>2
  <2>6. CutsAreSound'
    BY <1>1, <1>3, <2>3, <2>4, <2>5 DEF CutsAreSound
  <2>7. BreaksAreSound'
    BY <1>1, <1>3, <2>4 DEF BreaksAreSound, AtEnd
  <2>8. BaseEnded'
    BY <1>3, <2>1, <2>3, <2>4 DEF BaseEnded, AtEnd
  <2>9. EndIsReal'
    BY <2>5, <2>8 DEF EndIsReal
  <2> QED BY <2>6, <2>7, <2>9 DEF IInv
<1>6. CASE bytes # <<>>
  <2>1. bytes \in BaseReads(Space)
    BY <1>2, <1>6
  <2>2. /\ bytes \in Seq(Nat) /\ Len(bytes) \in Nat \ {0} /\ Len(bytes) <= limit
        /\ \A i \in 1 .. Len(bytes) : bytes[i] = Len(base) + i
        /\ buffer # <<>> => Len(bytes) <= Len(buffer)
        /\ buffer = <<>> => /\ given + Len(bytes) <= size
                            /\ broken # -1 => given + Len(bytes) <= broken
    <3> HIDE DEF BaseEnded
    <3> QED BY <1>1, <1>6, <2>1, BaseReadsInOrder
  <2>3. ~BaseEnded /\ (buffer = <<>> => ~AtEnd)
    BY <1>1, <1>6, <2>1, BaseReadsInOrder
  <2>4. PollGoesOn(Polled(bytes))
    BY <1>1, <1>6, <2>3, PolledGoesOn DEF EndIsReal
  <2>5. phase' = "open" /\ LevelsAreOpen(levels)'
    BY <1>2, <2>4 DEF PollGoesOn, LevelsAreOpen
  <2>6. /\ base' \in Seq(Nat) /\ Len(base') = Len(base) + Len(bytes)
        /\ \A i \in 1 .. Len(base') : base'[i] = i
    <3> DEFINE from == 0
    <3>1. from \in Nat /\ \A i \in 1 .. Len(base) : base[i] = from + i
      BY <1>4
    <3>2. \A i \in 1 .. Len(bytes) : bytes[i] = from + Len(base) + i
      BY <1>4, <2>2
    <3> HIDE DEF from
    <3>3. /\ base \o bytes \in Seq(Nat) /\ Len(base \o bytes) = Len(base) + Len(bytes)
          /\ \A i \in 1 .. Len(base \o bytes) : (base \o bytes)[i] = from + i
      BY <1>4, <2>2, <3>1, <3>2, Continues
    <3>4. \A i \in Nat : from + i = i
      BY DEF from
    <3>5. base' = base \o bytes
      BY <1>2
    <3>6. \A i \in 1 .. Len(base') : i \in Nat /\ base'[i] = from + i
      BY <1>4, <2>2, <3>3, <3>5
    <3> QED BY <3>3, <3>4, <3>5, <3>6
  <2>a. /\ given \in Nat /\ given <= size /\ limit \in Nat /\ opened \in Nat /\ size \in Nat
        /\ Len(base) \in Nat /\ Len(buffer) \in Nat /\ Len(bytes) \in Nat \ {0}
        /\ Len(base) + Len(buffer) = given /\ Len(base) + limit = opened
        /\ Len(bytes) <= limit /\ Len(base') = Len(base) + Len(bytes)
    BY <1>4, <2>2, <2>6
  <2>7. limit' \in Nat /\ Len(base') + limit' = opened
    <3> limit' = limit - Len(bytes)
      BY <1>2
    <3> QED BY <2>a
  <2>8. /\ given' \in 0 .. size /\ buffer' \in Seq(Nat)
        /\ Len(base') + Len(buffer') = given'
        /\ \A i \in 1 .. Len(buffer') : buffer'[i] = Len(base') + i
        /\ broken # -1 => given' = given \/ given' <= broken
        /\ AtEnd => given' = given
    <3>1. CASE buffer # <<>>
      <4>1. Len(bytes) \in 0 .. Len(buffer)
        BY <1>4, <2>2, <3>1
      <4>2. buffer' = SubSeq(buffer, Len(bytes) + 1, Len(buffer)) /\ given' = given
        BY <1>2, <3>1 DEF Took
      <4>3. /\ buffer' \in Seq(Nat) /\ Len(buffer') = Len(buffer) - Len(bytes)
            /\ \A i \in 1 .. Len(buffer) - Len(bytes) : buffer'[i] = buffer[Len(bytes) + i]
        BY <1>4, <4>1, <4>2, Rests
      <4>4. \A i \in 1 .. Len(buffer') : Len(bytes) + i \in 1 .. Len(buffer)
        BY <1>4, <2>2, <4>1, <4>3
      <4>5. \A i \in 1 .. Len(buffer') : buffer'[i] = Len(base') + i
        <5> TAKE i \in 1 .. Len(buffer')
        <5>1. buffer'[i] = buffer[Len(bytes) + i] /\ Len(bytes) + i \in 1 .. Len(buffer)
          BY <4>3, <4>4
        <5>2. buffer[Len(bytes) + i] = Len(base) + (Len(bytes) + i)
          BY <1>4, <5>1
        <5> QED BY <1>4, <2>2, <2>6, <4>3, <5>1, <5>2
      <4>6. Len(base') + Len(buffer') = given'
        <5> Len(buffer') = Len(buffer) - Len(bytes) /\ given' = given
          BY <4>2, <4>3
        <5> QED BY <2>a
      <4> QED BY <1>4, <4>2, <4>3, <4>5, <4>6
    <3>2. CASE buffer = <<>>
      <4>1. given' = given + Len(bytes) /\ buffer' = buffer /\ Len(buffer) = 0
        BY <1>2, <3>2 DEF Took
      <4>2. given' \in 0 .. size /\ Len(base') + Len(buffer') = given'
        <5> Len(buffer') = 0 /\ given + Len(bytes) <= size
          BY <2>2, <3>2, <4>1
        <5> QED BY <2>a, <4>1
      <4> QED BY <1>4, <2>2, <2>3, <3>2, <4>1, <4>2
    <3> QED BY <3>1, <3>2
  <2>9. CutsAreSound'
    BY <1>3, <1>4, <2>5, <2>6, <2>7, <2>8 DEF CutsAreSound
  <2>10. BreaksAreSound'
    <3>1. /\ broken \in Int /\ (broken = -1 \/ (given <= broken /\ broken < size))
          /\ swallowed => broken = given
          /\ complete => AtEnd
      BY <1>1 DEF BreaksAreSound
    <3>2. broken = -1 \/ (given' <= broken /\ broken < size)
      BY <2>8, <3>1
    <3>3. swallowed => broken = given'
      BY <2>8, <3>1 DEF AtEnd
    <3>4. complete => given' = size \/ swallowed
      BY <2>8, <3>1 DEF AtEnd
    <3> QED BY <1>3, <3>1, <3>2, <3>3, <3>4 DEF BreaksAreSound, AtEnd
  <2>11. EndIsReal'
    BY <2>5 DEF EndIsReal
  <2> QED BY <2>9, <2>10, <2>11 DEF IInv
<1> QED BY <1>5, <1>6

LEMMA ReadErrStep ==
  ASSUME IInv, ReadErr
  PROVE  IInv'
<1>1. CutsAreSound /\ BreaksAreSound /\ EndIsReal
  BY DEF IInv
<1>2. /\ UNCHANGED <<size, broken, given, buffer, complete, swallowed, limit, opened, levels, base, capped>>
      /\ phase' = "failed" /\ phase \in {"open", "read"}
  BY DEF ReadErr, MustRead
<1>3. CutsAreSound'
  BY <1>1, <1>2 DEF CutsAreSound
<1>4. BreaksAreSound'
  BY <1>1, <1>2 DEF BreaksAreSound, AtEnd
<1>5. EndIsReal'
  BY <1>1, <1>2 DEF EndIsReal, LevelsAreOpen, BaseEnded, AtEnd
<1> QED BY <1>3, <1>4, <1>5 DEF IInv

LEMMA LimitExceededStep ==
  ASSUME IInv, LimitExceeded
  PROVE  IInv'
<1>1. CutsAreSound /\ BreaksAreSound /\ EndIsReal
  BY DEF IInv
<1>2. /\ UNCHANGED <<size, broken, given, buffer, complete, swallowed, limit, opened, levels, base>>
      /\ phase' = "done" /\ phase = "read"
      /\ limit = 0 /\ buffer = <<>> => AtEnd \/ ~Breaks
  BY DEF LimitExceeded
<1>3. CutsAreSound'
  BY <1>1, <1>2 DEF CutsAreSound
<1>4. BreaksAreSound'
  BY <1>1, <1>2 DEF BreaksAreSound, AtEnd
<1>5. EndIsReal'
  <2>1. BaseEnded /\ (~BaseEnded => LevelsAreOpen(levels))
    BY <1>1, <1>2 DEF EndIsReal
  <2>2. BaseEnded'
    BY <1>2, <2>1 DEF BaseEnded, AtEnd
  <2>3. capped' <=> limit > 0 \/ (buffer = <<>> /\ AtEnd)
    BY DEF LimitExceeded
  <2>4. (capped <=> limit > 0 \/ (buffer = <<>> /\ AtEnd))'
    BY <1>2, <2>3 DEF AtEnd
  <2>5. (limit = 0 /\ buffer = <<>> => AtEnd \/ ~Breaks)'
    BY <1>2 DEF AtEnd, Breaks
  <2> QED BY <1>2, <2>2, <2>4, <2>5 DEF EndIsReal
<1> QED BY <1>3, <1>4, <1>5 DEF IInv

LEMMA NextIInv == IInv /\ [Next]_vars => IInv'
<1> SUFFICES ASSUME IInv, [Next]_vars PROVE IInv'
  OBVIOUS
<1>1. ASSUME NEW num \in 1 .. PeekMax + 1, PeekRead(num) \/ PeekEnd(num) \/ PeekErr(num)
      PROVE  IInv'
  BY <1>1, PeekReadStep, PeekEndStep, PeekErrStep
<1>2. ASSUME NEW max \in 0 .. MaxLimit, Open(max) PROVE IInv'
  BY <1>2, OpenStep
<1>3. CASE Read
  BY <1>3, ReadStep
<1>4. CASE ReadErr
  BY <1>4, ReadErrStep
<1>5. CASE LimitExceeded
  BY <1>5, LimitExceededStep
<1>6. CASE UNCHANGED vars
  BY <1>6 DEF vars, IInv, CutsAreSound, BreaksAreSound, EndIsReal, BaseEnded, LevelsAreOpen,
     IsOpen,
              AtEnd, Breaks
<1> QED BY <1>1, <1>2, <1>3, <1>4, <1>5, <1>6 DEF Next

\* The inductive invariant, for every body, limit and chain of transforms: the
\* cuts of the body, its breaks and its ends are sound (peekable.rs, data_stream.rs).
THEOREM Inductive == Spec => []IInv
BY InitIInv, NextIInv, PTL DEF Spec

LEMMA CutsAddUp == IInv => NothingLostOrRepeated
<1> SUFFICES ASSUME IInv PROVE NothingLostOrRepeated
  OBVIOUS
<1>1. /\ size \in Nat /\ given \in 0 .. size /\ limit \in Nat /\ opened \in Nat
      /\ base \in Seq(Nat) /\ buffer \in Seq(Nat) /\ Len(base) \in Nat /\ Len(buffer) \in Nat
      /\ Len(base) + Len(buffer) = given
      /\ \A i \in 1 .. Len(base) : base[i] = i
      /\ \A i \in 1 .. Len(buffer) : buffer[i] = Len(base) + i
      /\ Len(base) + limit = opened
  BY DEF IInv, CutsAreSound
<1>2. Len(base) <= opened
  BY <1>1
<1>3. complete /\ ~swallowed => given = size
  BY DEF IInv, BreaksAreSound, AtEnd
<1> DEFINE read == base \o buffer
           rest == SubSeq(Bytes(size), given + 1, size)
           all == read \o rest
           from == 0
<1>4. from \in Nat /\ \A i \in Nat : from + i = i
  OBVIOUS
<1> HIDE DEF from
<1>5. /\ read \in Seq(Nat) /\ Len(read) = given
      /\ \A i \in 1 .. Len(read) : read[i] = from + i
  <2>1. \A i \in 1 .. Len(base) : base[i] = from + i
    BY <1>1, <1>4
  <2>2. \A i \in 1 .. Len(buffer) : buffer[i] = from + Len(base) + i
    BY <1>1, <1>4
  <2>3. /\ base \o buffer \in Seq(Nat) /\ Len(base \o buffer) = Len(base) + Len(buffer)
        /\ \A i \in 1 .. Len(base \o buffer) : (base \o buffer)[i] = from + i
    BY <1>1, <1>4, <2>1, <2>2, Continues
  <2> QED BY <1>1, <2>3
<1>6. /\ rest \in Seq(Nat) /\ Len(rest) = size - given
      /\ \A i \in 1 .. Len(rest) : rest[i] = given + i
  <2> DEFINE b == Bytes(size)
  <2>1. b \in Seq(Nat) /\ Len(b) = size /\ \A i \in 1 .. size : b[i] = i
    BY <1>1, BytesAre
  <2>2. rest = SubSeq(b, given + 1, Len(b)) /\ given \in 0 .. Len(b)
    BY <1>1, <2>1
  <2> HIDE DEF b, rest
  <2>3. /\ rest \in Seq(Nat) /\ Len(rest) = Len(b) - given
        /\ \A i \in 1 .. Len(b) - given : rest[i] = b[given + i]
    BY <2>1, <2>2, Rests
  <2>4. \A i \in 1 .. size - given : given + i \in 1 .. size
    BY <1>1
  <2> QED BY <2>1, <2>3, <2>4
<1> HIDE DEF read, rest
<1>7. /\ all \in Seq(Nat) /\ Len(all) = given + (size - given)
      /\ \A i \in 1 .. Len(all) : all[i] = from + i
  <2>1. \A i \in 1 .. Len(rest) : rest[i] = from + Len(read) + i
    <3>1. given \in Nat
      BY <1>1
    <3>2. from + given = given
      BY <1>4, <3>1, Zenon
    <3>3. from + Len(read) = given
      BY <1>5, <3>2, Zenon
    <3> QED BY <1>6, <3>3, Zenon
  <2>2. /\ read \o rest \in Seq(Nat) /\ Len(read \o rest) = Len(read) + Len(rest)
        /\ \A i \in 1 .. Len(read \o rest) : (read \o rest)[i] = from + i
    BY <1>4, <1>5, <1>6, <2>1, Continues
  <2> QED BY <1>5, <1>6, <2>2
<1> HIDE DEF all
<1>8. Len(all) = size /\ \A i \in 1 .. size : all[i] = i
  <2>1. given + (size - given) = size
    BY <1>1
  <2>2. Len(all) = size /\ \A i \in 1 .. size : all[i] = from + i
    BY <1>7, <2>1
  <2>3. \A i \in 1 .. size : from + i = i
    <3> \A i \in 1 .. size : i \in Nat
      BY <1>1
    <3> QED BY <1>4, Zenon
  <2> QED BY <2>2, <2>3
<1>9. all = Bytes(size)
  BY <1>1, <1>7, <1>8 DEF Bytes
<1> QED BY <1>2, <1>3, <1>9 DEF NothingLostOrRepeated, all, read, rest

\* No interleaving of peeks, frames and reads loses, repeats or reorders a byte,
\* returns more than the limit, or calls a cut body complete (Peekable::peek,
\* Data::open).
THEOREM BodyIsKept == Spec => []NothingLostOrRepeated
BY Inductive, CutsAddUp, PTL

LEMMA EndsAreExact == IInv => CompleteIsExact
<1> SUFFICES ASSUME IInv, phase = "done"
             PROVE  /\ capped <=> (IF swallowed THEN given ELSE size) <= opened
                    /\ swallowed \/ broken = -1 \/ opened < broken
  BY DEF CompleteIsExact
<1>1. /\ size \in Nat /\ given \in Nat /\ given <= size /\ limit \in Nat /\ opened \in Nat
      /\ Len(base) \in Nat /\ Len(buffer) \in Nat
      /\ Len(base) + Len(buffer) = given
      /\ Len(base) + limit = opened
      /\ buffer = <<>> <=> Len(buffer) = 0
  BY DEF IInv, CutsAreSound
<1>2. /\ broken \in Int
      /\ broken = -1 \/ (given <= broken /\ broken < size)
  BY DEF IInv, BreaksAreSound
<1>3. /\ limit = 0 \/ (buffer = <<>> /\ AtEnd)
      /\ capped <=> limit > 0 \/ (buffer = <<>> /\ AtEnd)
      /\ limit = 0 /\ buffer = <<>> => AtEnd \/ ~Breaks
  BY DEF IInv, EndIsReal, BaseEnded
<1>4. CASE swallowed
  <2>1. AtEnd
    BY <1>4 DEF AtEnd
  <2>2. given <= opened <=> limit > 0 \/ buffer = <<>>
    BY <1>1, <1>3
  <2> QED BY <1>3, <1>4, <2>1, <2>2
<1>5. CASE ~swallowed
  <2>1. AtEnd <=> given = size
    BY <1>5 DEF AtEnd
  <2>2. size <= opened <=> limit > 0 \/ (buffer = <<>> /\ given = size)
    BY <1>1, <1>3, <2>1
  <2>3. broken = -1 \/ opened < broken
    BY <1>1, <1>2, <1>3, <2>1 DEF Breaks
  <2> QED BY <1>3, <1>5, <2>1, <2>2, <2>3
<1> QED BY <1>4, <1>5

\* A capped value is called complete exactly if the body fits the limit, and no
\* connection that broke within the limit gives one (DataStream::limit_exceeded),
\* whatever the transforms consume or add.
THEOREM CompletenessIsExact == Spec => []CompleteIsExact
BY Inductive, EndsAreExact, PTL

-----------------------------------------------------------------------------
(* Sequences of any values                                                 *)

LEMMA SequenceOver ==
  ASSUME NEW s, IsSequence(s), NEW t, IsSequence(t)
  PROVE  \E S : s \in Seq(S) /\ t \in Seq(S)
<1> DEFINE S == {s[i] : i \in 1 .. Len(s)} \cup {t[i] : i \in 1 .. Len(t)}
<1>1. s \in Seq(S) /\ t \in Seq(S)
  BY DEF IsSequence
<1> HIDE DEF S
<1> QED BY <1>1

LEMMA SequenceIs ==
  ASSUME NEW S, NEW s \in Seq(S)
  PROVE  IsSequence(s)
BY DEF IsSequence

Joins(u, s, t) ==
    /\ IsSequence(u) /\ Len(u) = Len(s) + Len(t)
    /\ \A i \in 1 .. Len(s) : u[i] = s[i]
    /\ \A i \in 1 .. Len(t) : u[Len(s) + i] = t[i]

LEMMA ConcatIs ==
  ASSUME NEW s, IsSequence(s), NEW t, IsSequence(t)
  PROVE  Joins(s \o t, s, t) /\ IsSequence(s \o t)
<1>1. PICK S : s \in Seq(S) /\ t \in Seq(S)
  BY SequenceOver, Zenon
<1>2. s \o t \in Seq(S) /\ Len(s \o t) = Len(s) + Len(t)
  BY <1>1
<1>3. IsSequence(s \o t)
  BY <1>2, SequenceIs
<1> QED BY <1>1, <1>2, <1>3 DEF Joins

LEMMA AppendIs ==
  ASSUME NEW s, IsSequence(s), NEW x
  PROVE  /\ IsSequence(Append(s, x)) /\ Len(Append(s, x)) = Len(s) + 1
         /\ \A i \in 1 .. Len(s) : Append(s, x)[i] = s[i]
         /\ Append(s, x)[Len(s) + 1] = x
<1> DEFINE S == {s[i] : i \in 1 .. Len(s)} \cup {x}
<1>1. s \in Seq(S) /\ x \in S
  BY DEF IsSequence
<1> HIDE DEF S
<1>2. Append(s, x) \in Seq(S) /\ Len(Append(s, x)) = Len(s) + 1
  BY <1>1
<1>3. IsSequence(Append(s, x))
  BY <1>2, SequenceIs
<1> QED BY <1>1, <1>2, <1>3

LEMMA NothingIs == IsSequence(<<>>) /\ Len(<<>>) = 0
BY DEF IsSequence

LEMMA SameSequence ==
  ASSUME NEW s, IsSequence(s), NEW t, IsSequence(t), Len(s) = Len(t),
         \A i \in 1 .. Len(s) : s[i] = t[i]
  PROVE  s = t
BY DEF IsSequence

LEMMA ConcatNothing ==
  ASSUME NEW s, IsSequence(s)
  PROVE  s \o <<>> = s /\ <<>> \o s = s
<1>1. PICK S : s \in Seq(S)
  BY SequenceOver, Zenon
<1> QED BY <1>1, ConcatEmptySeq

LEMMA ConcatTwice ==
  ASSUME NEW s, IsSequence(s), NEW t, IsSequence(t), NEW u, IsSequence(u)
  PROVE  (s \o t) \o u = s \o (t \o u)
<1> DEFINE S == {s[i] : i \in 1 .. Len(s)} \cup {t[i] : i \in 1 .. Len(t)} \cup {u[i] : i \in 1 .. Len(u)}
<1>1. s \in Seq(S) /\ t \in Seq(S) /\ u \in Seq(S)
  BY DEF IsSequence
<1> HIDE DEF S
<1> QED BY <1>1, ConcatAssociative

LEMMA ConcatAppend ==
  ASSUME NEW s, IsSequence(s), NEW t, IsSequence(t), NEW x
  PROVE  Append(s \o t, x) = s \o Append(t, x)
<1> DEFINE S == {s[i] : i \in 1 .. Len(s)} \cup {t[i] : i \in 1 .. Len(t)} \cup {x}
<1>1. s \in Seq(S) /\ t \in Seq(S) /\ x \in S
  BY DEF IsSequence
<1> HIDE DEF S
<1>2. /\ s \o t \in Seq(S) /\ Append(t, x) \in Seq(S) /\ <<x>> \in Seq(S)
      /\ Append(s \o t, x) = (s \o t) \o <<x>> /\ Append(t, x) = t \o <<x>>
  BY <1>1, AppendIsConcat
<1> QED BY <1>1, <1>2, ConcatAssociative

\* A sequence is cut in two.
LEMMA CutInTwo ==
  ASSUME NEW s, IsSequence(s), NEW k \in 0 .. Len(s)
  PROVE  /\ IsSequence(SubSeq(s, 1, k)) /\ IsSequence(SubSeq(s, k + 1, Len(s)))
         /\ SubSeq(s, 1, k) \o SubSeq(s, k + 1, Len(s)) = s
         /\ Len(SubSeq(s, 1, k)) = k /\ Len(SubSeq(s, k + 1, Len(s))) = Len(s) - k
<1>1. PICK S : s \in Seq(S)
  BY SequenceOver, Zenon
<1>2. Len(s) \in Nat
  BY DEF IsSequence
<1>3. /\ SubSeq(s, 1, k) \in Seq(S) /\ SubSeq(s, k + 1, Len(s)) \in Seq(S)
      /\ Len(SubSeq(s, 1, k)) = k /\ Len(SubSeq(s, k + 1, Len(s))) = Len(s) - k
  BY <1>1, <1>2
<1>4. IsSequence(SubSeq(s, 1, k)) /\ IsSequence(SubSeq(s, k + 1, Len(s)))
  BY <1>3, SequenceIs
<1>5. SubSeq(s, 1, k) \o SubSeq(s, k + 1, Len(s)) = s
  <2>1. 1 \in 1 .. Len(s) + 1 /\ k \in 1 - 1 .. Len(s) /\ Len(s) \in k .. Len(s)
    BY <1>2
  <2>2. SubSeq(s, 1, k) \o SubSeq(s, k + 1, Len(s)) = SubSeq(s, 1, Len(s))
    BY <1>1, <2>1, ConcatAdjacentSubSeq
  <2> QED BY <1>1, <2>2, SubSeqFull
<1> QED BY <1>3, <1>4, <1>5

-----------------------------------------------------------------------------
(* The filter                                                              *)

\* The equation that the recursive function of Evens satisfies up to place n
IsEvens(g, s, n) ==
    g = [i \in 0 .. n |-> IF i = 0 THEN <<>> ELSE KeepEven(g[i - 1], s[i])]

LEMMA EvensExist ==
  ASSUME NEW s, NEW n \in Nat
  PROVE  \E g : IsEvens(g, s, n)
<1> DEFINE Bad == {k \in Nat : ~\E g : IsEvens(g, s, k)}
<1> SUFFICES ASSUME Bad # {} PROVE FALSE
  OBVIOUS
<1>1. PICK m \in Bad : \A k \in Bad : m <= k
  <2> HIDE DEF Bad
  <2> Bad \in SUBSET Nat
    BY DEF Bad
  <2> QED BY Least
<1>2. CASE m = 0
  <2> DEFINE h == [i \in 0 .. 0 |-> <<>>]
  <2>1. h = [i \in 0 .. 0 |-> IF i = 0 THEN <<>> ELSE KeepEven(h[i - 1], s[i])]
    OBVIOUS
  <2> HIDE DEF h
  <2>2. IsEvens(h, s, 0)
    BY <2>1 DEF IsEvens
  <2> QED BY <1>1, <1>2, <2>2
<1>3. CASE m # 0
  <2>1. m \in Nat /\ m - 1 \in Nat /\ m - 1 \notin Bad
    BY <1>1, <1>3
  <2>2. PICK g : IsEvens(g, s, m - 1)
    BY <2>1
  <2>3. g = [i \in 0 .. m - 1 |-> IF i = 0 THEN <<>> ELSE KeepEven(g[i - 1], s[i])]
    BY <2>2 DEF IsEvens
  <2> DEFINE h == [i \in 0 .. m |-> IF i = m THEN KeepEven(g[m - 1], s[m]) ELSE g[i]]
  <2>4. \A i \in 0 .. m : h[i] = IF i = 0 THEN <<>> ELSE KeepEven(h[i - 1], s[i])
    <3> TAKE i \in 0 .. m
    <3>1. CASE i = m
      <4> h[m - 1] = g[m - 1] /\ h[m] = KeepEven(g[m - 1], s[m])
        BY <2>1
      <4> QED BY <3>1, <1>3
    <3>2. CASE i # m
      <4> i \in 0 .. m - 1 /\ h[i] = g[i]
        BY <2>1, <3>2
      <4>1. g[i] = IF i = 0 THEN <<>> ELSE KeepEven(g[i - 1], s[i])
        BY <2>3
      <4>2. i # 0 => h[i - 1] = g[i - 1]
        BY <2>1, <3>2
      <4> QED BY <4>1, <4>2
    <3> QED BY <3>1, <3>2
  <2>5. h = [i \in 0 .. m |-> h[i]]
    OBVIOUS
  <2> HIDE DEF h
  <2>6. IsEvens(h, s, m)
    BY <2>4, <2>5 DEF IsEvens
  <2> QED BY <2>6, <1>1
<1> QED BY <1>2, <1>3

\* What is kept of a sequence, place by place
Keeps(g, s) ==
    /\ g[0] = <<>> /\ Evens(s) = g[Len(s)]
    /\ \A i \in 1 .. Len(s) : g[i] = KeepEven(g[i - 1], s[i])

LEMMA EvensKeep ==
  ASSUME NEW s, IsSequence(s)
  PROVE  \E g : Keeps(g, s)
<1> DEFINE Is(g) == g = [i \in 0 .. Len(s) |-> IF i = 0 THEN <<>> ELSE KeepEven(g[i - 1], s[i])]
           g == CHOOSE g : Is(g)
<1>1. Evens(s) = g[Len(s)]
  BY Zenon DEF Evens
<1>2. Len(s) \in Nat
  BY DEF IsSequence
<1>3. \E f : Is(f)
  BY <1>2, EvensExist DEF IsEvens
<1> HIDE DEF Is
<1>4. Is(g)
  BY <1>3, Zenon
<1> HIDE DEF g
<1>5. g = [i \in 0 .. Len(s) |-> IF i = 0 THEN <<>> ELSE KeepEven(g[i - 1], s[i])]
  BY <1>4 DEF Is
<1>6. g[0] = <<>>
  BY <1>2, <1>5
<1>7. \A i \in 1 .. Len(s) : g[i] = KeepEven(g[i - 1], s[i])
  <2> TAKE i \in 1 .. Len(s)
  <2>1. i \in 0 .. Len(s) /\ i # 0
    BY <1>2
  <2> QED BY <1>5, <2>1, Zenon
<1> QED BY <1>1, <1>6, <1>7 DEF Keeps

LEMMA KeepEvenType ==
  ASSUME NEW kept, IsSequence(kept), NEW x
  PROVE  IsSequence(KeepEven(kept, x))
BY AppendIs DEF KeepEven

LEMMA KeepEvenAfter ==
  ASSUME NEW s, IsSequence(s), NEW kept, IsSequence(kept), NEW x
  PROVE  KeepEven(s \o kept, x) = s \o KeepEven(kept, x)
BY ConcatAppend DEF KeepEven

LEMMA KeepsType ==
  ASSUME NEW s, IsSequence(s), NEW g, Keeps(g, s), NEW i \in 0 .. Len(s)
  PROVE  IsSequence(g[i])
<1> DEFINE Bad == {k \in 0 .. Len(s) : ~IsSequence(g[k])}
<1>0. Len(s) \in Nat
  BY DEF IsSequence
<1> SUFFICES ASSUME Bad # {} PROVE FALSE
  OBVIOUS
<1>1. PICK m \in Bad : \A k \in Bad : m <= k
  <2> HIDE DEF Bad
  <2> Bad \in SUBSET Nat
    BY <1>0 DEF Bad
  <2> QED BY Least
<1>2. m # 0
  BY <1>1, NothingIs DEF Keeps
<1>3. m \in 1 .. Len(s) /\ m - 1 \in 0 .. Len(s) /\ m - 1 \notin Bad
  BY <1>0, <1>1, <1>2
<1>4. IsSequence(g[m - 1])
  BY <1>3
<1>5. g[m] = KeepEven(g[m - 1], s[m])
  BY <1>3 DEF Keeps
<1>6. IsSequence(g[m])
  BY <1>4, <1>5, KeepEvenType
<1> QED BY <1>1, <1>6

LEMMA EvensType ==
  ASSUME NEW s, IsSequence(s)
  PROVE  IsSequence(Evens(s))
<1>1. PICK g : Keeps(g, s)
  BY EvensKeep
<1>2. Len(s) \in 0 .. Len(s)
  BY DEF IsSequence
<1>3. IsSequence(g[Len(s)])
  BY <1>1, <1>2, KeepsType
<1> QED BY <1>1, <1>3 DEF Keeps

\* Filtering piece by piece is filtering the whole.
LEMMA EvensConcat ==
  ASSUME NEW s, IsSequence(s), NEW t, IsSequence(t)
  PROVE  Evens(s \o t) = Evens(s) \o Evens(t)
<1> DEFINE u == s \o t
           a == Len(s)
           n == Len(t)
<1>1. Joins(u, s, t) /\ IsSequence(u)
  BY ConcatIs
<1>2. a \in Nat /\ n \in Nat
  BY DEF IsSequence
<1>3. /\ Len(u) = a + n
      /\ \A i \in 1 .. a : u[i] = s[i]
      /\ \A i \in 1 .. n : u[a + i] = t[i]
  BY <1>1 DEF Joins
<1> HIDE DEF u
<1>4. PICK gs : Keeps(gs, s)
  BY EvensKeep
<1>5. PICK gt : Keeps(gt, t)
  BY EvensKeep
<1>6. PICK gu : Keeps(gu, u)
  BY <1>1, EvensKeep
<1>7. /\ \A i \in 0 .. a : IsSequence(gs[i])
      /\ \A i \in 0 .. n : IsSequence(gt[i])
  BY <1>4, <1>5, KeepsType
<1> HIDE DEF a, n
<1>8. /\ gs[0] = <<>> /\ Evens(s) = gs[a]
      /\ \A i \in 1 .. a : gs[i] = KeepEven(gs[i - 1], s[i])
      /\ gt[0] = <<>> /\ Evens(t) = gt[n]
      /\ \A i \in 1 .. n : gt[i] = KeepEven(gt[i - 1], t[i])
      /\ gu[0] = <<>> /\ Evens(u) = gu[a + n]
      /\ \A i \in 1 .. a + n : gu[i] = KeepEven(gu[i - 1], u[i])
  BY <1>3, <1>4, <1>5, <1>6 DEF Keeps, a, n
<1>9. \A i \in 0 .. a : gu[i] = gs[i]
  <2> DEFINE Bad == {k \in 0 .. a : gu[k] # gs[k]}
  <2> SUFFICES ASSUME Bad # {} PROVE FALSE
    OBVIOUS
  <2>1. PICK m \in Bad : \A k \in Bad : m <= k
    <3> Bad \in SUBSET Nat
      BY <1>2
    <3> HIDE DEF Bad
    <3> QED BY Least
  <2>2. m # 0
    BY <1>8, <2>1
  <2>3. m \in 1 .. a /\ m \in 1 .. a + n /\ m - 1 \in 0 .. a /\ m - 1 \notin Bad
    BY <1>2, <2>1, <2>2
  <2>4. gu[m - 1] = gs[m - 1]
    BY <2>3
  <2>5. gu[m] = KeepEven(gu[m - 1], u[m]) /\ gs[m] = KeepEven(gs[m - 1], s[m]) /\ u[m] = s[m]
    BY <1>3, <1>8, <2>3
  <2> QED BY <2>1, <2>4, <2>5
<1> DEFINE pre == gs[a]
<1>a. a \in 0 .. a /\ IsSequence(pre) /\ pre = gs[a]
  BY <1>2, <1>7
<1> HIDE DEF pre
<1>b. IsSequence(pre)
  BY <1>a
<1>c. \A v, x : IsSequence(v) => KeepEven(pre \o v, x) = pre \o KeepEven(v, x)
  BY <1>b, KeepEvenAfter
<1>10. \A i \in 0 .. n : gu[a + i] = pre \o gt[i]
  <2> DEFINE Good(k) == gu[a + k] = pre \o gt[k]
             Bad == {k \in 0 .. n : ~Good(k)}
  <2> HIDE DEF Good
  <2> SUFFICES ASSUME Bad # {} PROVE FALSE
    BY DEF Good
  <2>1. PICK m \in Bad : \A k \in Bad : m <= k
    <3> Bad \in SUBSET Nat
      BY <1>2
    <3> HIDE DEF Bad
    <3> QED BY Least
  <2>2. m # 0
    <3>1. pre \o <<>> = pre
      BY <1>a, ConcatNothing
    <3>2. a + 0 = a /\ gu[a] = pre
      BY <1>2, <1>9, <1>a
    <3>3. Good(0)
      BY <1>8, <3>1, <3>2 DEF Good
    <3> QED BY <2>1, <3>3
  <2>3. m \in 1 .. n /\ m - 1 \in 0 .. n /\ m - 1 \notin Bad
    BY <1>2, <2>1, <2>2
  <2>a. a + m \in 1 .. a + n /\ (a + m) - 1 = a + (m - 1)
    BY <1>2, <2>3
  <2>4. gu[a + (m - 1)] = pre \o gt[m - 1]
    BY <2>3 DEF Good
  <2>5. gu[a + m] = KeepEven(gu[(a + m) - 1], u[a + m])
    BY <1>8, <2>a
  <2>6. gt[m] = KeepEven(gt[m - 1], t[m]) /\ u[a + m] = t[m] /\ IsSequence(gt[m - 1])
    BY <1>3, <1>7, <1>8, <2>3
  <2>7. KeepEven(pre \o gt[m - 1], t[m]) = pre \o KeepEven(gt[m - 1], t[m])
    BY <1>c, <2>6
  <2>8. gu[a + m] = pre \o gt[m]
    BY <2>4, <2>5, <2>6, <2>7, <2>a
  <2> QED BY <2>1, <2>8 DEF Good
<1>11. Evens(u) = Evens(s) \o Evens(t)
  <2>1. n \in 0 .. n
    BY <1>2
  <2>2. gu[a + n] = pre \o gt[n]
    BY <1>10, <2>1
  <2> QED BY <1>8, <1>a, <2>2, Zenon
<1> QED BY <1>11 DEF u

LEMMA EvensNothing == Evens(<<>>) = <<>>
<1>1. PICK g : Keeps(g, <<>>)
  BY NothingIs, EvensKeep
<1> QED BY <1>1 DEF Keeps

-----------------------------------------------------------------------------
(* The transforms                                                          *)

LEMMA TransformType ==
  ASSUME NEW kind, NEW s, IsSequence(s)
  PROVE  IsSequence(Transform(kind, s))
<1>1. CASE kind = "digest"
  BY <1>1, NothingIs DEF Transform
<1>2. CASE kind = "filter"
  BY <1>2, EvensType DEF Transform
<1>3. CASE kind # "digest" /\ kind # "filter"
  BY <1>3 DEF Transform
<1> QED BY <1>1, <1>2, <1>3

\* Transforming piece by piece is transforming the whole.
LEMMA TransformConcat ==
  ASSUME NEW kind, NEW s, IsSequence(s), NEW t, IsSequence(t)
  PROVE  Transform(kind, s \o t) = Transform(kind, s) \o Transform(kind, t)
<1>1. CASE kind = "digest"
  BY <1>1, NothingIs, ConcatNothing DEF Transform
<1>2. CASE kind = "filter"
  BY <1>2, EvensConcat DEF Transform
<1>3. CASE kind # "digest" /\ kind # "filter"
  BY <1>3 DEF Transform
<1> QED BY <1>1, <1>2, <1>3

LEMMA TransformNothing ==
  ASSUME NEW kind
  PROVE  Transform(kind, <<>>) = <<>>
BY EvensNothing DEF Transform

LEMMA FinishType ==
  ASSUME NEW kind, NEW s
  PROVE  IsSequence(Finish(kind, s))
<1>1. CASE kind = "digest"
  <2>1. \A x, y : IsSequence(<<x, y>>)
    BY DEF IsSequence
  <2> QED BY <1>1, <2>1 DEF Finish
<1>2. CASE kind = "append"
  <2>1. IsSequence(<<0>>)
    BY DEF IsSequence
  <2> QED BY <1>2, <2>1 DEF Finish
<1>3. CASE kind # "digest" /\ kind # "append"
  BY <1>3, NothingIs DEF Finish
<1> QED BY <1>1, <1>2, <1>3

-----------------------------------------------------------------------------
(* One level more                                                          *)

\* A level that has seen what the levels below have returned continues the flow,
\* unless it met the end before they were drained.
LEMMA FlowsOn ==
  ASSUME NEW ls, NEW b, NEW o, NEW r, NEW level,
         Flows(ls, b, o), IsLevel(level), IsSequence(r),
         level.seen = o, HasReturned(level, r),
         level.inner_done /\ Len(ls) > 0 => Drained(ls[Len(ls)])
  PROVE  Flows(Append(ls, level), b, r)
<1> DEFINE n == Len(ls)
           t == Append(ls, level)
<1>1. /\ IsSequence(ls) /\ IsSequence(b) /\ n \in Nat
      /\ \A i \in 1 .. n : IsLevel(ls[i])
      /\ b = IF n = 0 THEN o ELSE ls[1].seen
      /\ \A i \in 1 .. n : HasReturned(ls[i], IF i = n THEN o ELSE ls[i + 1].seen)
      /\ \A i, k \in 1 .. n : i < k /\ ls[k].inner_done => Drained(ls[i])
  BY DEF Flows, IsSequence
<1>2. IsSequence(t) /\ Len(t) = n + 1 /\ (\A i \in 1 .. n : t[i] = ls[i]) /\ t[n + 1] = level
  BY <1>1, AppendIs
<1> HIDE DEF n, t
<1>3. \A i \in 1 .. n + 1 : i \in 1 .. n \/ i = n + 1
  BY <1>1
<1>4. \A i \in 1 .. n + 1 : IsLevel(t[i])
  BY <1>1, <1>2, <1>3
<1>5. b = t[1].seen
  <2>1. CASE n = 0
    BY <1>1, <1>2, <2>1
  <2>2. CASE n # 0
    <3> 1 \in 1 .. n
      BY <1>1, <2>2
    <3> QED BY <1>1, <1>2, <2>2
  <2> QED BY <2>1, <2>2
<1>6. ASSUME NEW i \in 1 .. n + 1
      PROVE  HasReturned(t[i], IF i = n + 1 THEN r ELSE t[i + 1].seen)
  <2>1. CASE i = n + 1
    BY <1>2, <2>1
  <2>2. CASE i = n /\ i # n + 1
    <3> n \in 1 .. n
      BY <1>1, <1>3, <2>2
    <3> QED BY <1>1, <1>2, <2>2
  <2>3. CASE i # n /\ i # n + 1
    <3> i \in 1 .. n /\ i + 1 \in 1 .. n
      BY <1>1, <2>3
    <3> QED BY <1>1, <1>2, <2>3
  <2> QED BY <2>1, <2>2, <2>3
<1>7. ASSUME NEW i \in 1 .. n + 1, NEW k \in 1 .. n + 1, i < k, t[k].inner_done
      PROVE  Drained(t[i])
  <2>1. i \in 1 .. n /\ t[i] = ls[i]
    BY <1>1, <1>2, <1>7
  <2>2. CASE k = n + 1
    <3>1. n > 0 /\ n \in 1 .. n
      BY <1>1, <2>1
    <3>2. Drained(ls[n])
      BY <1>2, <1>7, <2>2, <3>1 DEF n
    <3>3. i < n => Drained(ls[i])
      BY <1>1, <2>1, <3>1, <3>2 DEF Drained
    <3>4. i = n \/ i < n
      BY <1>1, <2>1
    <3> QED BY <2>1, <3>2, <3>3, <3>4
  <2>3. CASE k # n + 1
    <3> k \in 1 .. n /\ t[k] = ls[k]
      BY <1>1, <1>2, <2>3
    <3> QED BY <1>1, <1>7, <2>1
  <2> QED BY <2>2, <2>3
<1>8. Len(t) # 0
  BY <1>1, <1>2
<1>9. \A i \in 1 .. Len(t) : HasReturned(t[i], IF i = Len(t) THEN r ELSE t[i + 1].seen)
  BY <1>2, <1>6
<1>10. Flows(t, b, r)
  BY <1>1, <1>2, <1>4, <1>5, <1>7, <1>8, <1>9 DEF Flows
<1> QED BY <1>10 DEF t

\* The end of a level, in pieces, adds up to what it finishes with.
LEMMA PollFinishFlows ==
  ASSUME NEW level, IsLevel(level), NEW q, IsSequence(q), HasReturned(level, q),
         NEW f, f = PollFinish(level, Space)
  PROVE  /\ IsSequence(f.fresh) /\ IsLevel(f.level) /\ f.level.seen = level.seen
         /\ f.level.inner_done /\ HasReturned(f.level, q \o f.fresh)
         /\ f.fresh = <<>> => Drained(f.level)
<1> DEFINE all == IF level.finishing THEN level.rest ELSE Finish(level.kind, level.seen)
           k == IF Space < Len(all) THEN Space ELSE Len(all)
           first == SubSeq(all, 1, k)
           rest == SubSeq(all, k + 1, Len(all))
           next == [level EXCEPT !.inner_done = TRUE, !.finishing = TRUE, !.rest = rest]
<1>1. /\ {"kind", "seen", "inner_done", "finishing", "rest"} \subseteq DOMAIN level
      /\ level.inner_done \in BOOLEAN /\ level.finishing = level.inner_done
      /\ IsSequence(level.seen) /\ IsSequence(level.rest)
  BY DEF IsLevel
<1>2. f = [fresh |-> first, level |-> next]
  BY Zenon DEF PollFinish
<1>3. IsSequence(all)
  BY <1>1, FinishType
<1>4. q \o all = Whole(level.seen, level)
  <2>1. CASE level.inner_done
    BY <1>1, <2>1 DEF HasReturned
  <2>2. CASE ~level.inner_done
    BY <1>1, <2>2 DEF HasReturned, Whole
  <2> QED BY <2>1, <2>2
<1> HIDE DEF all
<1>5. k \in 0 .. Len(all) /\ (k = 0 => Len(all) = 0)
  BY <1>3, DataAssumption DEF IsSequence
<1> HIDE DEF k
<1>6. /\ IsSequence(first) /\ IsSequence(rest) /\ first \o rest = all
      /\ Len(first) = k /\ Len(rest) = Len(all) - k
  BY <1>3, <1>5, CutInTwo
<1> HIDE DEF first, rest
<1>7. /\ DOMAIN next = DOMAIN level /\ next.kind = level.kind /\ next.seen = level.seen
      /\ next.inner_done = TRUE /\ next.finishing = TRUE /\ next.rest = rest
  BY <1>1
<1>8. f.fresh = first /\ f.level = next
  BY <1>2
<1> HIDE DEF next
<1>9. IsLevel(next)
  BY <1>1, <1>6, <1>7 DEF IsLevel
<1>10. (q \o first) \o rest = Whole(level.seen, level)
  <2>1. IsSequence(first) /\ IsSequence(rest)
    BY <1>6
  <2>2. (q \o first) \o rest = q \o (first \o rest)
    BY <2>1, ConcatTwice
  <2> QED BY <1>4, <1>6, <2>2
<1>11. HasReturned(next, q \o first)
  BY <1>7, <1>10 DEF HasReturned, Whole
<1>12. first = <<>> => rest = <<>>
  <2> HAVE first = <<>>
  <2>1. k = 0
    BY <1>6, NothingIs
  <2>2. Len(rest) = 0
    BY <1>3, <1>5, <1>6, <2>1 DEF IsSequence
  <2>3. rest = [i \in 1 .. 0 |-> rest[i]]
    BY <1>6, <2>2 DEF IsSequence
  <2> QED BY <2>2, <1>6, NothingIs, SameSequence
<1> QED BY <1>6, <1>7, <1>8, <1>9, <1>11, <1>12 DEF Drained

-----------------------------------------------------------------------------
(* One poll                                                                *)

\* The levels so far have returned o before this poll and hand on acc.fresh now;
\* if that is the end, they have been drained.
HandsOn(acc, b, o) ==
    /\ {"fresh", "pending", "levels"} \subseteq DOMAIN acc
    /\ IsSequence(acc.fresh)
    /\ acc.pending => acc.fresh = <<>>
    /\ Flows(acc.levels, b, o \o acc.fresh)
    /\ Len(acc.levels) > 0 /\ ~acc.pending /\ acc.fresh = <<>> => Drained(acc.levels[Len(acc.levels)])

\* A level and what it hands on
Adds(acc, level, q, p) ==
    /\ IsLevel(level)
    /\ {"fresh", "pending", "levels"} \subseteq DOMAIN p
    /\ p.levels = Append(acc.levels, level) /\ IsSequence(p.fresh)
    /\ p.pending => p.fresh = <<>>
    /\ HasReturned(level, q \o p.fresh)
    /\ level.inner_done => ~acc.pending /\ acc.fresh = <<>>
    /\ ~p.pending /\ p.fresh = <<>> => Drained(level)

LEMMA HandsOnMore ==
  ASSUME NEW acc, NEW b, NEW o, HandsOn(acc, b, o),
         NEW level, level.seen = o \o acc.fresh,
         NEW q, IsSequence(q), NEW p, Adds(acc, level, q, p)
  PROVE  HandsOn(p, b, q) /\ Len(p.levels) = Len(acc.levels) + 1
<1>1. /\ Flows(acc.levels, b, o \o acc.fresh)
      /\ Len(acc.levels) > 0 /\ ~acc.pending /\ acc.fresh = <<>> => Drained(acc.levels[Len(acc.levels)])
  BY DEF HandsOn
<1>2. IsSequence(acc.levels) /\ Len(acc.levels) \in Nat
  BY <1>1 DEF Flows, IsSequence
<1>3. IsSequence(q \o p.fresh)
  BY ConcatIs DEF Adds
<1>4. Flows(p.levels, b, q \o p.fresh)
  BY <1>1, <1>3, FlowsOn DEF Adds
<1>5. Len(p.levels) = Len(acc.levels) + 1 /\ p.levels[Len(acc.levels) + 1] = level
  BY <1>2, AppendIs DEF Adds
<1> QED BY <1>4, <1>5 DEF HandsOn, Adds

LEMMA PollReadFlows ==
  ASSUME NEW acc, NEW b, NEW level, IsLevel(level), HandsOn(acc, b, level.seen),
         NEW q, IsSequence(q), HasReturned(level, q),
         level.inner_done => ~acc.pending /\ acc.fresh = <<>>
  PROVE  /\ HandsOn(PollRead(acc, level), b, q)
         /\ Len(PollRead(acc, level).levels) = Len(acc.levels) + 1
<1>1. /\ {"fresh", "pending", "levels"} \subseteq DOMAIN acc
      /\ IsSequence(acc.fresh) /\ (acc.pending => acc.fresh = <<>>)
      /\ IsSequence(level.seen)
  BY DEF HandsOn, IsLevel
<1>2. CASE acc.pending
  <2> DEFINE p == [acc EXCEPT !.levels = Append(@, level)]
  <2>1. PollRead(acc, level) = p
    BY <1>2 DEF PollRead
  <2>2. /\ DOMAIN p = DOMAIN acc /\ p.levels = Append(acc.levels, level)
        /\ p.fresh = acc.fresh /\ p.pending = acc.pending
    BY <1>1
  <2> HIDE DEF p
  <2>3. acc.fresh = <<>> /\ ~level.inner_done /\ p.pending /\ p.fresh = <<>>
    BY <1>1, <1>2, <2>2
  <2>4. level.seen = level.seen \o acc.fresh /\ q \o p.fresh = q
    BY <1>1, <2>2, <2>3, ConcatNothing
  <2>5. Adds(acc, level, q, p)
    BY <1>1, <2>2, <2>3, <2>4 DEF Adds
  <2> QED BY <2>1, <2>4, <2>5, HandsOnMore
<1>3. CASE ~acc.pending /\ (level.inner_done \/ acc.fresh = <<>>)
  <2> DEFINE f == PollFinish(level, Space)
  <2>1. /\ IsSequence(f.fresh) /\ IsLevel(f.level) /\ f.level.seen = level.seen
        /\ f.level.inner_done /\ HasReturned(f.level, q \o f.fresh)
        /\ f.fresh = <<>> => Drained(f.level)
    BY PollFinishFlows
  <2> HIDE DEF f
  <2> DEFINE p == [acc EXCEPT !.fresh = f.fresh, !.levels = Append(@, f.level)]
  <2>2. PollRead(acc, level) = p
    BY <1>3 DEF PollRead, f
  <2>3. /\ DOMAIN p = DOMAIN acc /\ p.levels = Append(acc.levels, f.level)
        /\ p.fresh = f.fresh /\ p.pending = acc.pending
    BY <1>1
  <2> HIDE DEF p
  <2>4. acc.fresh = <<>>
    BY <1>3
  <2>5. f.level.seen = level.seen \o acc.fresh
    BY <1>1, <2>1, <2>4, ConcatNothing
  <2>6. ~p.pending
    BY <1>3, <2>3
  <2> DEFINE next == f.level
  <2>7. /\ IsLevel(next) /\ next.seen = level.seen \o acc.fresh
        /\ p.levels = Append(acc.levels, next) /\ IsSequence(p.fresh)
        /\ HasReturned(next, q \o p.fresh) /\ (p.fresh = <<>> => Drained(next))
    BY <2>1, <2>3, <2>5
  <2> HIDE DEF next
  <2>8. Adds(acc, next, q, p)
    BY <1>1, <1>3, <2>3, <2>4, <2>6, <2>7 DEF Adds
  <2>9. next.seen = level.seen \o acc.fresh
    BY <2>7
  <2> QED BY <2>2, <2>8, <2>9, HandsOnMore
<1>4. CASE ~acc.pending /\ ~level.inner_done /\ acc.fresh # <<>>
  <2> DEFINE after == Transform(level.kind, acc.fresh)
             next == [level EXCEPT !.seen = @ \o acc.fresh]
             seen == level.seen \o acc.fresh
  <2>1. IsSequence(after) /\ IsSequence(seen)
    BY <1>1, TransformType, ConcatIs
  <2>2. /\ DOMAIN next = DOMAIN level /\ next.kind = level.kind /\ next.seen = seen
        /\ next.inner_done = level.inner_done /\ next.finishing = level.finishing /\ next.rest = level.rest
    BY DEF IsLevel
  <2>3. q \o after = Transform(level.kind, seen)
    <3>1. Transform(level.kind, level.seen \o acc.fresh)
            = Transform(level.kind, level.seen) \o Transform(level.kind, acc.fresh)
      BY <1>1, TransformConcat
    <3>2. q = Transform(level.kind, level.seen)
      BY <1>4 DEF HasReturned
    <3> QED BY <3>1, <3>2, Zenon
  <2> HIDE DEF after, next, seen
  <2>4. IsLevel(next) /\ HasReturned(next, q \o after)
    BY <1>4, <2>1, <2>2, <2>3 DEF IsLevel, HasReturned
  <2> DEFINE p == [acc EXCEPT !.fresh = after, !.pending = after = <<>>, !.levels = Append(@, next)]
  <2>5. PollRead(acc, level) = p
    BY <1>4 DEF PollRead, after, next
  <2>6. DOMAIN p = DOMAIN acc /\ p.levels = Append(acc.levels, next) /\ p.fresh = after
    BY <1>1
  <2>7. p.pending <=> after = <<>>
    <3>1. CASE after = <<>>
      <4>1. (after = <<>>) = TRUE
        BY <3>1, Zenon
      <4>2. p = [acc EXCEPT !.fresh = after, !.pending = TRUE, !.levels = Append(@, next)]
        BY <4>1, Zenon
      <4> HIDE DEF p
      <4>3. p.pending = TRUE
        BY <1>1, <4>2
      <4> QED BY <3>1, <4>3
    <3>2. CASE after # <<>>
      <4>1. (after = <<>>) = FALSE
        BY <3>2, Zenon
      <4>2. p = [acc EXCEPT !.fresh = after, !.pending = FALSE, !.levels = Append(@, next)]
        BY <4>1, Zenon
      <4> HIDE DEF p
      <4>3. p.pending = FALSE
        BY <1>1, <4>2
      <4> QED BY <3>2, <4>3
    <3> QED BY <3>1, <3>2
  <2> HIDE DEF p
  <2>8. next.seen = level.seen \o acc.fresh /\ ~next.inner_done
    BY <1>4, <2>2 DEF seen
  <2>9. Adds(acc, next, q, p)
    BY <1>1, <2>1, <2>4, <2>6, <2>7, <2>8 DEF Adds
  <2>10. next.seen = level.seen \o acc.fresh
    BY <2>8
  <2> QED BY <2>5, <2>9, <2>10, HandsOnMore
<1> QED BY <1>2, <1>3, <1>4

\* What level i has returned
Returned(i) == IF i = Len(levels) THEN out ELSE levels[i + 1].seen

\* One poll has reached level i.
PollReaches(acc, i, bytes) ==
    /\ HandsOn(acc, base \o bytes, Returned(i)) /\ Len(acc.levels) = i
    /\ NotRead(i) => ~acc.pending /\ acc.fresh = <<>>

LEMMA PollStarts ==
  ASSUME FlowInv, NEW bytes, IsSequence(bytes), InnerDone => bytes = <<>>,
         NEW acc, acc = [fresh |-> bytes, pending |-> FALSE, levels |-> <<>>]
  PROVE  PollReaches(acc, 0, bytes)
<1>1. /\ IsSequence(levels) /\ IsSequence(base)
      /\ base = IF Len(levels) = 0 THEN out ELSE levels[1].seen
  BY DEF FlowInv, Flows
<1>2. Returned(0) = base
  BY <1>1 DEF Returned
<1>3. IsSequence(base \o bytes)
  BY <1>1, ConcatIs
<1>4. Flows(<<>>, base \o bytes, base \o bytes)
  BY <1>3, NothingIs DEF Flows
<1>5. DOMAIN acc = {"fresh", "pending", "levels"} /\ acc.fresh = bytes /\ acc.pending = FALSE /\ acc.levels = <<>>
  OBVIOUS
<1>6. NotRead(0) => bytes = <<>>
  <2>1. DOMAIN levels = 1 .. Len(levels) /\ 0 + 1 = 1
    BY <1>1 DEF IsSequence
  <2>2. NotRead(0) => InnerDone
    BY <2>1, Zenon DEF NotRead, InnerDone
  <2> QED BY <2>2
<1>7. HandsOn(acc, base \o bytes, base)
  BY <1>4, <1>5, NothingIs DEF HandsOn
<1> QED BY <1>2, <1>5, <1>6, <1>7, NothingIs DEF PollReaches

LEMMA PollGoesUp ==
  ASSUME FlowInv, NEW bytes, NEW i \in 1 .. Len(levels), NEW acc, PollReaches(acc, i - 1, bytes)
  PROVE  PollReaches(PollLevel(acc, i), i, bytes)
<1> DEFINE n == Len(levels)
           level == levels[i]
           q == Returned(i)
<1>1. /\ IsSequence(levels) /\ IsSequence(out) /\ n \in Nat
      /\ \A k \in 1 .. n : IsLevel(levels[k])
      /\ \A k \in 1 .. n : HasReturned(levels[k], IF k = n THEN out ELSE levels[k + 1].seen)
      /\ \A j, k \in 1 .. n : j < k /\ levels[k].inner_done => Drained(levels[j])
  BY DEF FlowInv, Flows, IsSequence
<1>2. IsLevel(level) /\ HasReturned(level, q)
  BY <1>1 DEF Returned
<1>3. IsSequence(q)
  <2>1. CASE i = n
    BY <1>1, <2>1 DEF Returned
  <2>2. CASE i # n
    <3>1. i + 1 \in 1 .. n
      BY <1>1, <2>2
    <3>2. IsLevel(levels[i + 1])
      BY <1>1, <3>1
    <3> QED BY <2>2, <3>2 DEF Returned, IsLevel
  <2> QED BY <2>1, <2>2
<1>4. Returned(i - 1) = level.seen
  <2>1. i - 1 # n /\ (i - 1) + 1 = i
    BY <1>1
  <2> QED BY <2>1 DEF Returned
<1>5. /\ HandsOn(acc, base \o bytes, level.seen) /\ Len(acc.levels) = i - 1
      /\ NotRead(i - 1) => ~acc.pending /\ acc.fresh = <<>>
  BY <1>4 DEF PollReaches
<1>6. NotRead(i - 1) <=> NotRead(i) \/ level.inner_done
  <2>1. \A k : k \in (i - 1) + 1 .. n <=> k = i \/ k \in i + 1 .. n
    BY <1>1
  <2> QED BY <2>1 DEF NotRead
<1>7. NotRead(i) => Drained(level)
  <2> HAVE NotRead(i)
  <2>1. PICK k \in i + 1 .. n : levels[k].inner_done
    BY DEF NotRead
  <2>2. k \in 1 .. n /\ i < k
    BY <1>1
  <2> QED BY <1>1, <2>1, <2>2
<1> DEFINE p == PollLevel(acc, i)
           b == base \o bytes
<1>8. HandsOn(p, b, q) /\ Len(p.levels) = Len(acc.levels) + 1
      /\ (NotRead(i) => ~p.pending /\ p.fresh = <<>>)
  <2>1. CASE NotRead(i)
    <3>1. {"fresh", "pending", "levels"} \subseteq DOMAIN acc /\ ~acc.pending /\ acc.fresh = <<>>
      BY <1>5, <1>6, <2>1 DEF HandsOn
    <3> HIDE DEF level, q, b
    <3>2. p = [acc EXCEPT !.levels = Append(@, level)]
      BY <2>1 DEF PollLevel, level
    <3> HIDE DEF p
    <3>3. /\ DOMAIN p = DOMAIN acc /\ p.levels = Append(acc.levels, level)
          /\ p.fresh = acc.fresh /\ p.pending = acc.pending
      BY <3>1, <3>2
    <3>4. IsSequence(level.seen)
      BY <1>2 DEF IsLevel
    <3>5. q \o p.fresh = q /\ level.seen = level.seen \o acc.fresh
      BY <1>3, <3>1, <3>3, <3>4, ConcatNothing
    <3>6. Adds(acc, level, q, p)
      BY <1>2, <1>7, <2>1, <3>1, <3>3, <3>5, NothingIs DEF Adds
    <3>7. HandsOn(p, b, q) /\ Len(p.levels) = Len(acc.levels) + 1
      <4>1. HandsOn(acc, b, level.seen)
        BY <1>5 DEF b
      <4> QED BY <1>3, <3>5, <3>6, <4>1, HandsOnMore
    <3> QED BY <3>1, <3>3, <3>7
  <2>2. CASE ~NotRead(i)
    <3>1. p = PollRead(acc, level)
      BY <2>2 DEF PollLevel
    <3>2. level.inner_done => ~acc.pending /\ acc.fresh = <<>>
      BY <1>5, <1>6
    <3>3. HandsOn(acc, b, level.seen)
      BY <1>5
    <3> HIDE DEF level, q, b, p
    <3>4. HandsOn(PollRead(acc, level), b, q) /\ Len(PollRead(acc, level).levels) = Len(acc.levels) + 1
      BY <1>2, <1>3, <3>2, <3>3, PollReadFlows
    <3> QED BY <2>2, <3>1, <3>4
  <2> QED BY <2>1, <2>2
<1> HIDE DEF p
<1>9. Len(p.levels) = i
  BY <1>5, <1>8
<1>10. PollReaches(p, i, bytes)
  BY <1>8, <1>9 DEF PollReaches
<1> QED BY <1>10 DEF p

LEMMA PolledFlows ==
  ASSUME FlowInv, NEW bytes, IsSequence(bytes), InnerDone => bytes = <<>>
  PROVE  PollReaches(Polled(bytes), Len(levels), bytes)
<1> DEFINE g == Polls(bytes)
           n == Len(levels)
           Bad == {k \in 0 .. n : ~PollReaches(g[k], k, bytes)}
<1>1. n \in Nat
  BY DEF FlowInv, Flows, IsSequence
<1>2. PollsInTurn(g, bytes)
  BY <1>1, PollsAre
<1>3. Polled(bytes) = g[n]
  BY DEF Polled
<1> HIDE DEF g
<1> SUFFICES ASSUME Bad # {} PROVE FALSE
  BY <1>1, <1>3
<1>5. PICK m \in Bad : \A k \in Bad : m <= k
  <2>1. Bad \in SUBSET Nat
    OBVIOUS
  <2> HIDE DEF Bad
  <2> QED BY <2>1, Least
<1>6. m # 0
  <2>1. g[0] = [fresh |-> bytes, pending |-> FALSE, levels |-> <<>>]
    BY <1>2 DEF PollsInTurn
  <2>2. PollReaches(g[0], 0, bytes)
    BY <2>1, PollStarts
  <2> QED BY <1>5, <2>2
<1>7. m \in 1 .. n /\ m - 1 \in 0 .. n /\ m - 1 \notin Bad
  BY <1>1, <1>5, <1>6
<1>8. PollReaches(g[m - 1], m - 1, bytes)
  BY <1>7
<1>9. g[m] = PollLevel(g[m - 1], m)
  BY <1>2, <1>7 DEF PollsInTurn
<1>10. PollReaches(PollLevel(g[m - 1], m), m, bytes)
  BY <1>7, <1>8, PollGoesUp
<1> QED BY <1>5, <1>9, <1>10

-----------------------------------------------------------------------------
(* Every step                                                              *)

LEMMA FlowInit == Init => FlowInv
<1> SUFFICES ASSUME Init PROVE FlowInv
  OBVIOUS
<1>1. PICK chain \in Chains : levels = [i \in DOMAIN chain |-> NewLevel(chain[i])]
  BY DEF Init
<1>2. base = <<>> /\ out = <<>> /\ phase = "data"
  BY DEF Init
<1> DEFINE n == Len(chain)
<1>3. n \in Nat /\ DOMAIN chain = 1 .. n
  BY <1>1, DataAssumption
<1> HIDE DEF n
<1>4. IsSequence(levels) /\ Len(levels) = n
  <2>1. levels \in Seq({NewLevel(chain[i]) : i \in 1 .. n}) /\ Len(levels) = n
    BY <1>1, <1>3
  <2> QED BY <2>1, SequenceIs
<1>5. \A i \in 1 .. n : levels[i] = NewLevel(chain[i])
  BY <1>1, <1>3
<1>6. ASSUME NEW kind
      PROVE  /\ IsLevel(NewLevel(kind)) /\ NewLevel(kind).seen = <<>> /\ ~NewLevel(kind).inner_done
             /\ HasReturned(NewLevel(kind), <<>>)
  <2>1. /\ DOMAIN NewLevel(kind) = {"kind", "seen", "inner_done", "finishing", "rest"}
        /\ NewLevel(kind).seen = <<>> /\ NewLevel(kind).rest = <<>>
        /\ NewLevel(kind).inner_done = FALSE /\ NewLevel(kind).finishing = FALSE
        /\ NewLevel(kind).kind = kind
    BY DEF NewLevel
  <2> DEFINE level == NewLevel(kind)
  <2> HIDE DEF level
  <2>2. HasReturned(level, <<>>)
    BY <2>1, TransformNothing DEF HasReturned, level
  <2> QED BY <2>1, <2>2, NothingIs DEF IsLevel, level
<1>7. \A i \in 1 .. n : /\ IsLevel(levels[i]) /\ levels[i].seen = <<>> /\ ~levels[i].inner_done
                        /\ HasReturned(levels[i], <<>>)
  BY <1>5, <1>6
<1>8. \A i \in 1 .. n : HasReturned(levels[i], IF i = n THEN out ELSE levels[i + 1].seen)
  <2> TAKE i \in 1 .. n
  <2>1. i # n => i + 1 \in 1 .. n
    BY <1>3
  <2>2. (IF i = n THEN out ELSE levels[i + 1].seen) = <<>>
    BY <1>2, <1>7, <2>1
  <2> QED BY <1>7, <2>2
<1>9. base = IF n = 0 THEN out ELSE levels[1].seen
  <2>1. n # 0 => 1 \in 1 .. n
    BY <1>3
  <2> QED BY <1>2, <1>7, <2>1
<1> QED BY <1>2, <1>4, <1>7, <1>8, <1>9, NothingIs DEF FlowInv, Flows

\* A poll of the stream: what it takes from the limited reader flows through the
\* levels, and the end is reported once the last level has been drained.
LEMMA ReadFlows ==
  ASSUME IInv, FlowInv, Read
  PROVE  FlowInv'
<1>1. PICK bytes \in IF InnerDone THEN {<<>>} ELSE BaseReads(Space) :
          /\ levels' = Polled(bytes).levels
          /\ out' = out \o Polled(bytes).fresh
          /\ base' = base \o bytes
          /\ phase' = IF Polled(bytes).fresh = <<>> /\ ~Polled(bytes).pending THEN "read" ELSE "open"
  BY DEF Read
<1>2. IsSequence(bytes) /\ (InnerDone => bytes = <<>>)
  <2>1. CASE InnerDone
    BY <1>1, <2>1, NothingIs
  <2>2. CASE ~InnerDone
    <3>1. bytes \in BaseReads(Space)
      BY <1>1, <2>2
    <3>2. bytes \in Seq(Nat)
      BY <3>1, BaseReadsInOrder DEF IInv
    <3> QED BY <2>2, <3>2, SequenceIs
  <2> QED BY <2>1, <2>2
<1> DEFINE p == Polled(bytes)
           n == Len(levels)
<1>3. PollReaches(p, n, bytes)
  BY <1>2, PolledFlows
<1> HIDE DEF p
<1>4. Returned(n) = out
  BY DEF Returned
<1>5. /\ Flows(p.levels, base \o bytes, out \o p.fresh)
      /\ Len(p.levels) > 0 /\ ~p.pending /\ p.fresh = <<>> => Drained(p.levels[Len(p.levels)])
  BY <1>3, <1>4 DEF PollReaches, HandsOn
<1>6. Flows(levels', base', out')
  BY <1>1, <1>5 DEF p
<1>7. phase' \in {"read", "done"} /\ Len(levels') > 0 => Drained(levels'[Len(levels')])
  BY <1>1, <1>5 DEF p
<1> QED BY <1>6, <1>7 DEF FlowInv, Flows, Drained, IsLevel, HasReturned, IsSequence

LEMMA FlowNext == IInv /\ FlowInv /\ [Next]_vars => FlowInv'
<1> SUFFICES ASSUME IInv, FlowInv, [Next]_vars PROVE FlowInv'
  OBVIOUS
<1>1. ASSUME UNCHANGED <<levels, base, out>>, phase' \in {"read", "done"} => phase \in {"read", "done"}
      PROVE  FlowInv'
  BY <1>1 DEF FlowInv, Flows, Drained, IsLevel, HasReturned, IsSequence
<1>2. CASE \E num \in 1 .. PeekMax + 1 : PeekRead(num) \/ PeekEnd(num) \/ PeekErr(num)
  BY <1>1, <1>2 DEF PeekRead, PeekEnd, PeekErr
<1>3. CASE \E max \in 0 .. MaxLimit : Open(max)
  BY <1>1, <1>3 DEF Open
<1>4. CASE Read
  BY <1>4, ReadFlows
<1>5. CASE ReadErr
  BY <1>1, <1>5 DEF ReadErr
<1>6. CASE LimitExceeded
  BY <1>1, <1>6 DEF LimitExceeded
<1>7. CASE UNCHANGED vars
  BY <1>1, <1>7 DEF vars
<1> QED BY <1>2, <1>3, <1>4, <1>5, <1>6, <1>7 DEF Next

\* A chain of drained levels has returned what its transforms make of the whole.
LEMMA FlowComposes == FlowInv => TransformsCompose
<1> SUFFICES ASSUME FlowInv, phase \in {"read", "done"} PROVE TransformsCompose
  BY DEF TransformsCompose
<1> DEFINE n == Len(levels)
           Is(g) == g = [i \in 0 .. n |-> IF i = 0 THEN base ELSE Whole(g[i - 1], levels[i])]
           stage == [i \in 0 .. n |-> Returned(i)]
           whole == CHOOSE g : Is(g)
<1>1. /\ IsSequence(levels) /\ IsSequence(out) /\ n \in Nat
      /\ base = IF n = 0 THEN out ELSE levels[1].seen
      /\ \A k \in 1 .. n : IsLevel(levels[k])
      /\ \A k \in 1 .. n : HasReturned(levels[k], IF k = n THEN out ELSE levels[k + 1].seen)
      /\ \A j, k \in 1 .. n : j < k /\ levels[k].inner_done => Drained(levels[j])
      /\ n > 0 => Drained(levels[n])
  BY DEF FlowInv, Flows, IsSequence
<1>2. \A k \in 1 .. n : Drained(levels[k])
  <2> TAKE k \in 1 .. n
  <2>1. n > 0 /\ n \in 1 .. n /\ (k = n \/ k < n)
    BY <1>1
  <2> QED BY <1>1, <2>1 DEF Drained
<1>3. \A i \in 0 .. n : stage[i] = IF i = 0 THEN base ELSE Whole(stage[i - 1], levels[i])
  <2> TAKE i \in 0 .. n
  <2>1. CASE i = 0
    <3>1. Returned(0) = base
      BY <1>1 DEF Returned
    <3> QED BY <1>1, <2>1, <3>1
  <2>2. CASE i # 0
    <3>1. i \in 1 .. n /\ i - 1 \in 0 .. n /\ i - 1 # n /\ (i - 1) + 1 = i
      BY <1>1, <2>2
    <3>2. stage[i - 1] = levels[i].seen
      BY <3>1 DEF Returned
    <3>3. HasReturned(levels[i], Returned(i)) /\ Drained(levels[i])
      BY <1>1, <1>2, <3>1 DEF Returned
    <3>4. Returned(i) \o <<>> = Whole(levels[i].seen, levels[i])
      BY <3>3 DEF HasReturned, Drained
    <3>5. IsSequence(Returned(i))
      <4>1. CASE i = n
        BY <1>1, <4>1 DEF Returned
      <4>2. CASE i # n
        <5>1. i + 1 \in 1 .. n
          BY <1>1, <4>2
        <5>2. IsLevel(levels[i + 1])
          BY <1>1, <5>1
        <5> QED BY <4>2, <5>2 DEF Returned, IsLevel
      <4> QED BY <4>1, <4>2
    <3>6. Returned(i) = Whole(levels[i].seen, levels[i])
      BY <3>4, <3>5, ConcatNothing
    <3> QED BY <2>2, <3>2, <3>6
  <2> QED BY <2>1, <2>2
<1>4. stage = [i \in 0 .. n |-> stage[i]] /\ stage[n] = out
  BY <1>1 DEF Returned
<1> HIDE DEF stage
<1>5. Is(stage)
  BY <1>3, <1>4
<1>6. \E g : Is(g)
  BY <1>5
<1> HIDE DEF Is
<1>7. Is(whole)
  BY <1>6, Zenon
<1>8. TransformsCompose <=> out = whole[n]
  BY Zenon DEF TransformsCompose, Is
<1> HIDE DEF whole
<1>9. whole = [i \in 0 .. n |-> IF i = 0 THEN base ELSE Whole(whole[i - 1], levels[i])]
  BY <1>7 DEF Is
<1> DEFINE Bad == {k \in 0 .. n : whole[k] # stage[k]}
<1>10. Bad = {}
  <2> SUFFICES ASSUME Bad # {} PROVE FALSE
    OBVIOUS
  <2>1. PICK m \in Bad : \A k \in Bad : m <= k
    <3>1. Bad \in SUBSET Nat
      OBVIOUS
    <3> HIDE DEF Bad
    <3> QED BY <3>1, Least
  <2>2. m # 0
    BY <1>1, <1>3, <1>9, <2>1
  <2>3. m \in 0 .. n /\ m - 1 \in 0 .. n /\ m - 1 \notin Bad
    BY <1>1, <2>1, <2>2
  <2>4. whole[m - 1] = stage[m - 1]
    BY <2>3
  <2>5. whole[m] = Whole(whole[m - 1], levels[m])
    BY <1>9, <2>2, <2>3, Zenon
  <2>6. stage[m] = Whole(stage[m - 1], levels[m])
    BY <1>3, <2>2, <2>3, Zenon
  <2> QED BY <2>1, <2>4, <2>5, <2>6
<1>11. whole[n] = stage[n]
  BY <1>1, <1>10
<1> QED BY <1>4, <1>8, <1>11

\* However a body is cut into reads, and however often a transform consumes a
\* whole read or returns its end in pieces, the levels hand on, in order, what
\* their transforms make of what they were given (TransformReader::poll_read).
THEOREM FlowInductive == Spec => []FlowInv
BY Inductive, FlowInit, FlowNext, PTL DEF Spec

\* A stream that has ended has returned what its transforms make of the limited
\* body in one piece, for every chain of transforms.
THEOREM StreamedTransformsCompose == Spec => []TransformsCompose
BY FlowInductive, FlowComposes, PTL

-----------------------------------------------------------------------------
(* Templates                                                               *)

\* A partial function, with one entry more or another one
IsPut(g, f, k, v) ==
    /\ DOMAIN g = DOMAIN f \cup {k} /\ g[k] = v
    /\ \A x \in DOMAIN f : x # k => g[x] = f[x]

LEMMA PutIsPartial ==
    ASSUME NEW S, NEW T, NEW f \in Partial(S, T), NEW k \in S, NEW v \in T
    PROVE  Put(f, k, v) \in Partial(S, T) /\ IsPut(Put(f, k, v), f, k, v)
<1> DEFINE d == DOMAIN f \cup {k}
<1>1. f \in [DOMAIN f -> T] /\ DOMAIN f \in SUBSET S
  BY DEF Partial
<1>2. Put(f, k, v) \in [d -> T] /\ d \in SUBSET S
  BY <1>1 DEF Put
<1> QED
  BY <1>1, <1>2 DEF Partial, Put, IsPut

\* A partial function's entries
LEMMA PartialType ==
    ASSUME NEW S, NEW T, NEW f \in Partial(S, T)
    PROVE  DOMAIN f \subseteq S /\ \A x \in DOMAIN f : f[x] \in T
BY DEF Partial

\* The Context that a load begins with is empty.
LEMMA NoContextType ==
    /\ NoContext \in Context
    /\ DOMAIN NoContext.templates = {} /\ DOMAIN NoContext.engines = {} /\ NoContext.ticket = 0
<1> DEFINE none == <<>>
<1>1. DOMAIN none = {}
  OBVIOUS
<1>2. ASSUME NEW S, NEW T PROVE none \in Partial(S, T)
  <2>1. none \in [{} -> T]
    BY <1>1
  <2> QED
    BY <2>1 DEF Partial
<1> HIDE DEF none
<1>3. NoContext = [ticket |-> 0, templates |-> none, engines |-> none]
  BY DEF NoContext, none
<1> QED
  BY <1>1, <1>2, <1>3 DEF Context

\* The fields of a Context
LEMMA ContextType ==
    ASSUME NEW c \in Context
    PROVE  /\ c.ticket \in Nat
           /\ c.templates \in Partial(Names, Files) /\ c.engines \in Partial(Files, Contents)
           /\ DOMAIN c.templates \subseteq Names /\ DOMAIN c.engines \subseteq Files
           /\ \A n \in DOMAIN c.templates : c.templates[n] \in Files
           /\ \A f \in DOMAIN c.engines : c.engines[f] \in Contents
BY PartialType DEF Context

\* The walk visits every file.
LEMMA WalkType ==
    /\ Len(Walk) \in Nat /\ DOMAIN Walk = 1 .. Len(Walk)
    /\ \A i \in 1 .. Len(Walk) : Walk[i] \in Files /\ NameOf[Walk[i]] \in Names
    /\ \A f \in Files : NameOf[f] \in Names
BY TemplatesAssumption DEF Names

\* Before the launch
LEMMA TemplatesInitInv == TemplatesInit => TemplatesInv
<1> SUFFICES ASSUME TemplatesInit PROVE TemplatesInv
  OBVIOUS
<1>1. {[ver |-> 1, ok |-> TRUE], [ver |-> 1, ok |-> FALSE]} \subseteq Contents
  BY TemplatesAssumption DEF Contents
<1>2. clock = 0 /\ raw = 0 /\ queue = 0 /\ tickets = 0 /\ newest = 0
  BY Zenon DEF TemplatesInit
<1>3. /\ watcher = "off" /\ ctxt = NoContext /\ missed \in BOOLEAN
      /\ pc = [t \in Tasks |-> "idle"] /\ load = [t \in Tasks |-> NoContext]
      /\ at = [t \in Tasks |-> 1] /\ wanted = [r \in Requests |-> "none"]
  BY Zenon DEF TemplatesInit
<1>4. disk \in [Files -> Contents \cup {Gone}]
  BY <1>1 DEF TemplatesInit
<1>5. TemplatesTypeOK
  <2>1. 1 \in 1 .. Len(Walk) + 1
    BY WalkType
  <2>2. clock \in 0 .. MaxChanges /\ newest \in 0 .. tickets
    BY <1>2, TemplatesAssumption
  <2> QED
    BY <1>2, <1>3, <1>4, <2>1, <2>2, NoContextType DEF TemplatesTypeOK
<1>6. LaunchInv
  BY <1>2, <1>3 DEF LaunchInv, Loading, Tasks
<1>7. Sound(NoContext) /\ Unread(NoContext) = {}
  <2>1. NoContext.ticket <= tickets
    BY <1>2, NoContextType
  <2> QED
    BY <2>1, NoContextType DEF Sound, Unread
<1>8. WholeInv
  BY <1>2, <1>3, <1>7 DEF WholeInv, Loading
<1>9. SyncInv
  <2>1. ~(newest > 0) /\ ~(newest < tickets)
    BY <1>2
  <2>2. \A t \in Tasks : ~Loading(t)
    BY <1>3 DEF Loading
  <2> QED
    BY <2>1, <2>2 DEF SyncInv, LastLoad, Newest
<1> QED
  BY <1>5, <1>6, <1>8, <1>9 DEF TemplatesInv

\* What is on disk decides both.
LEMMA SameDisk ==
    ASSUME disk' = disk
    PROVE  (Loadable' <=> Loadable) /\ \A c, k : Agrees(c, k)' <=> Agrees(c, k)
<1>1. Loadable' <=> Loadable
  BY DEF Loadable, IsFirst, Present
<1>2. \A c, k : Agrees(c, k)' <=> Agrees(c, k)
  BY DEF Agrees, IsFirst, Present
<1> QED
  BY <1>1, <1>2

\* A step that leaves disk, Context and loads alone, and lets nothing settle
LEMMA SyncKept ==
    ASSUME SyncInv, UNCHANGED <<disk, ctxt, load, at, tickets, newest>>, Settled' => Settled,
           \A t \in Tasks : Loading(t)' <=> Loading(t)
    PROVE  SyncInv'
<1>1. (Loadable' <=> Loadable) /\ \A c, k : Agrees(c, k)' <=> Agrees(c, k)
  BY SameDisk
<1> QED
  BY <1>1 DEF SyncInv, LastLoad, Newest

\* Someone edits, adds or removes a file.
LEMMA ChangeKeeps ==
    ASSUME TemplatesInv, NEW f \in Files,
           NEW c \in {[ver |-> clock + 2, ok |-> TRUE], [ver |-> clock + 2, ok |-> FALSE], Gone},
           Change(f, c)
    PROVE  TemplatesInv'
<1> USE DEF TemplatesInv
<1>1. TemplatesTypeOK'
  <2>1. clock < MaxChanges /\ clock \in Nat
    BY TemplatesAssumption DEF TemplatesTypeOK, Change
  <2>2. c \in Contents \cup {Gone}
    <3>1. clock + 2 \in 1 .. MaxChanges + 1
      BY <2>1, TemplatesAssumption
    <3>2. /\ [ver |-> clock + 2, ok |-> TRUE] \in Contents
          /\ [ver |-> clock + 2, ok |-> FALSE] \in Contents
      BY <3>1 DEF Contents
    <3> QED
      BY <3>2
  <2>3. missed' \in BOOLEAN
    BY DEF Change
  <2> QED
    BY <2>1, <2>2, <2>3, TemplatesAssumption DEF TemplatesTypeOK, Change
<1>2. LaunchInv'
  BY DEF Change, TemplatesTypeOK, LaunchInv, Loading, Tasks
<1>3. WholeInv'
  BY DEF Change, TemplatesTypeOK, WholeInv, Sound, Unread, Loading, Tasks
<1>4. ~Settled'
  <2>1. CASE watcher = "on"
    <3>1. raw' # 0 /\ watcher' = "on"
      BY <2>1 DEF Change, TemplatesTypeOK
    <3> QED
      BY <3>1 DEF Settled
  <2>2. CASE watcher = "off"
    <3>1. missed'
      BY <2>2 DEF Change
    <3> QED
      BY <3>1 DEF Settled
  <2>3. CASE watcher = "none"
    BY <2>3 DEF Change, Settled
  <2> QED
    BY <2>1, <2>2, <2>3 DEF TemplatesTypeOK
<1> QED
  BY <1>1, <1>2, <1>3, <1>4 DEF SyncInv

\* The watcher sends an event.
LEMMA DeliverKeeps ==
    ASSUME TemplatesInv, Deliver
    PROVE  TemplatesInv'
<1> USE DEF TemplatesInv
<1>1. TemplatesTypeOK'
  BY DEF Deliver, TemplatesTypeOK, history
<1>2. LaunchInv'
  BY DEF Deliver, TemplatesTypeOK, LaunchInv, Loading, history
<1>3. WholeInv'
  BY DEF Deliver, WholeInv, Sound, Unread, Loading, history
<1>4. ~Settled'
  <2>1. raw > 0 /\ queue' # 0 /\ watcher' = watcher
    BY DEF Deliver, TemplatesTypeOK
  <2>2. watcher # "off"
    BY <2>1 DEF LaunchInv
  <2> QED
    BY <2>1, <2>2 DEF Settled
<1> QED
  BY <1>1, <1>2, <1>3, <1>4 DEF SyncInv

\* Context::initialize() begins: its load is now the one that began last.
LEMMA BeginKeeps ==
    ASSUME TemplatesInv, NEW t \in Tasks, Begin(t)
    PROVE  TemplatesInv'
<1> USE DEF TemplatesInv
<1> DEFINE fresh == [NoContext EXCEPT !.ticket = tickets + 1]
<1>1. /\ tickets \in Nat /\ newest <= tickets
      /\ \A s \in Tasks : load[s].ticket <= tickets /\ load[s].ticket \in Nat
  BY ContextType DEF TemplatesTypeOK, WholeInv, Sound
<1>2. /\ fresh \in Context /\ fresh.ticket = tickets + 1
      /\ DOMAIN fresh.templates = {} /\ DOMAIN fresh.engines = {}
  BY <1>1, NoContextType DEF Context
<1> HIDE DEF fresh
<1>3. /\ pc' = [pc EXCEPT ![t] = "walk"] /\ load' = [load EXCEPT ![t] = fresh]
      /\ at' = [at EXCEPT ![t] = 1] /\ tickets' = tickets + 1
      /\ pc[t] = IF t = Boot THEN "idle" ELSE "reload"
      /\ UNCHANGED <<disk, clock, raw, queue, watcher, ctxt, wanted, newest, missed>>
  BY DEF Begin, Goto, fresh, files
<1>4. TemplatesTypeOK'
  BY <1>1, <1>2, <1>3, WalkType DEF TemplatesTypeOK
<1>5. LaunchInv'
  BY <1>1, <1>2, <1>3, WalkType, TemplatesAssumption DEF TemplatesTypeOK, LaunchInv, Tasks,
     Loading
<1>6. WholeInv'
  <2>1. Sound(ctxt)' /\ Unread(ctxt)' = {}
    BY <1>1, <1>3, ContextType DEF TemplatesTypeOK, WholeInv, Sound, Unread
  <2>2. \A s \in Tasks : Sound(load[s])'
    BY <1>1, <1>2, <1>3 DEF TemplatesTypeOK, WholeInv, Sound
  <2>3. \A s \in Tasks : Loading(s)' => load'[s].ticket > 0
    BY <1>1, <1>2, <1>3 DEF TemplatesTypeOK, WholeInv, Loading
  <2> QED
    BY <2>1, <2>2, <2>3 DEF WholeInv
<1>7. LastLoad'
  <2>1. \A s \in Tasks : Newest(s)' <=> s = t
    BY <1>1, <1>2, <1>3 DEF TemplatesTypeOK, Newest, Loading
  <2>2. load'[t] = fresh /\ at'[t] - 1 = 0
    BY <1>3 DEF TemplatesTypeOK
  <2>3. Agrees(load[t], at[t] - 1)'
    BY <1>2, <2>2 DEF Agrees
  <2>4. newest' # tickets'
    BY <1>1, <1>3
  <2> QED
    BY <2>1, <2>2, <2>3, <2>4 DEF LastLoad
<1> QED
  BY <1>4, <1>5, <1>6, <1>7 DEF SyncInv

\* The walk is over.
LEMMA WalkEndKeeps ==
    ASSUME TemplatesInv, NEW t \in Tasks, WalkEnd(t)
    PROVE  TemplatesInv'
<1> USE DEF TemplatesInv
<1>1. TemplatesTypeOK'
  BY DEF WalkEnd, Goto, TemplatesTypeOK, files, history
<1>2. LaunchInv'
  BY DEF WalkEnd, Goto, TemplatesTypeOK, LaunchInv, Loading, Tasks, files, history
<1>3. WholeInv'
  BY DEF WalkEnd, Goto, TemplatesTypeOK, WholeInv, Sound, Unread, Loading, files, history
<1>4. (Settled' => Settled) /\ \A s \in Tasks : Loading(s)' <=> Loading(s)
  BY DEF WalkEnd, Goto, TemplatesTypeOK, Settled, Loading, Tasks, files, history
<1>5. SyncInv'
  BY <1>4, SyncKept DEF WalkEnd, files, history
<1> QED
  BY <1>1, <1>2, <1>3, <1>5

\* A load fails: if it read the disk as it is, that cannot be loaded.
LEMMA LoadErrKeeps ==
    ASSUME TemplatesInv, NEW t \in Tasks, LoadErr(t)
    PROVE  TemplatesInv'
<1> USE DEF TemplatesInv
<1>1. TemplatesTypeOK'
  BY DEF LoadErr, Goto, TemplatesTypeOK, files, history
<1>2. LaunchInv'
  BY TemplatesAssumption DEF LoadErr, Goto, TemplatesTypeOK, LaunchInv, Loading, Tasks, files,
     history
<1>3. WholeInv'
  BY DEF LoadErr, Goto, TemplatesTypeOK, WholeInv, Sound, Unread, Loading, files, history
<1>4. SUFFICES ASSUME Settled' PROVE LastLoad'
  BY <1>1, <1>2, <1>3 DEF SyncInv
<1>5. UNCHANGED <<disk, ctxt, load, at, tickets, newest>>
  BY DEF LoadErr, files, history
<1>6. Settled /\ \A s \in Tasks : Loading(s)' <=> Loading(s) /\ s # t
  BY <1>4 DEF LoadErr, Goto, TemplatesTypeOK, Settled, Loading, Tasks, files, history
<1>7. (Loadable' <=> Loadable) /\ \A c, k : Agrees(c, k)' <=> Agrees(c, k)
  BY <1>5, SameDisk
<1>8. Newest(t) => ~Loadable
  <2> SUFFICES ASSUME Newest(t) PROVE ~Loadable
    OBVIOUS
  <2>1. Agrees(load[t], at[t] - 1)
    BY <1>6 DEF SyncInv, LastLoad
  <2>2. PICK f \in Unread(load[t]) : ~disk[f].ok
    BY DEF LoadErr
  <2>3. f \in Files /\ f \notin Lazy /\ NameOf[f] \in Names /\ IsFirst(f, NameOf[f])
    BY <2>1, <2>2, WalkType DEF Unread, Agrees
  <2> QED
    BY <2>2, <2>3 DEF Loadable
<1>9. \A s \in Tasks : Newest(s)' <=> Newest(s) /\ s # t
  BY <1>5, <1>6 DEF Newest
<1> QED
  BY <1>5, <1>6, <1>7, <1>8, <1>9 DEF SyncInv, LastLoad

\* A load that finds no directory leaves everything as it is.
LEMMA NoRootKeeps ==
    ASSUME TemplatesInv, NEW t \in Tasks, NoRoot(t)
    PROVE  TemplatesInv'
<1> USE DEF TemplatesInv
<1>1. TemplatesTypeOK'
  BY DEF NoRoot, Goto, TemplatesTypeOK, files
<1>2. LaunchInv'
  BY TemplatesAssumption DEF NoRoot, Goto, TemplatesTypeOK, LaunchInv, Loading, Tasks, files
<1>3. WholeInv'
  BY DEF NoRoot, Goto, TemplatesTypeOK, WholeInv, Sound, Unread, Loading, files
<1>4. ~Settled'
  BY DEF NoRoot, Settled
<1> QED
  BY <1>1, <1>2, <1>3, <1>4 DEF SyncInv

\* ContextManager::new
LEMMA ManageKeeps ==
    ASSUME TemplatesInv, NEW w \in {"on", "none"}, Manage(w)
    PROVE  TemplatesInv'
<1> USE DEF TemplatesInv
<1>1. /\ Boot \in Tasks /\ load[Boot] \in Context /\ load[Boot].ticket \in Nat /\ tickets \in Nat
      /\ load[Boot].ticket = tickets /\ tickets > 0 /\ Newest(Boot)
      /\ at[Boot] - 1 = Len(Walk) /\ watcher = "off" /\ \A r \in Requests : pc[r] = "idle"
  BY WalkType, ContextType DEF Manage, Loaded, TemplatesTypeOK, LaunchInv, WholeInv, Newest,
     Loading, Tasks
<1>2. TemplatesTypeOK'
  BY <1>1 DEF Manage, Goto, TemplatesTypeOK, files
<1>3. LaunchInv'
  BY <1>1, TemplatesAssumption DEF Manage, Goto, TemplatesTypeOK, LaunchInv, Loading, Tasks, files
<1>4. WholeInv'
  BY <1>1 DEF Manage, Loaded, Goto, TemplatesTypeOK, WholeInv, Sound, Unread, Loading, files
<1>5. SUFFICES ASSUME Settled' PROVE LastLoad'
  BY <1>2, <1>3, <1>4 DEF SyncInv
<1>6. Settled
  BY <1>1, <1>5 DEF Manage, Settled
<1>7. Agrees(load[Boot], Len(Walk))
  BY <1>1, <1>6 DEF SyncInv, LastLoad
<1>8. disk' = disk /\ ctxt' = load[Boot] /\ newest' = tickets /\ tickets' = tickets
  BY <1>1 DEF Manage, files
<1>9. Agrees(ctxt, Len(Walk))'
  BY <1>7, <1>8 DEF Agrees, IsFirst, Present
<1>10. \A s \in Tasks : ~Newest(s)'
  BY <1>1 DEF Manage, Goto, TemplatesTypeOK, Newest, Loading, Tasks
<1> QED
  BY <1>1, <1>8, <1>9, <1>10 DEF LastLoad

\* The events are taken out of the channel: a reload is due if there were any.
LEMMA DrainKeeps ==
    ASSUME TemplatesInv, NEW r \in Requests, Drain(r)
    PROVE  TemplatesInv'
<1> USE DEF TemplatesInv
<1>1. TemplatesTypeOK'
  BY DEF Drain, Goto, TemplatesTypeOK, Tasks, files, history
<1>2. LaunchInv'
  BY TemplatesAssumption DEF Drain, Goto, TemplatesTypeOK, LaunchInv, Loading, Tasks, files,
     history
<1>3. WholeInv'
  BY DEF Drain, Goto, TemplatesTypeOK, WholeInv, Sound, Unread, Loading, Tasks, files, history
<1>4. (Settled' => Settled) /\ \A s \in Tasks : Loading(s)' <=> Loading(s)
  BY DEF Drain, Goto, TemplatesTypeOK, LaunchInv, Settled, Loading, Tasks, files, history
<1>5. SyncInv'
  BY <1>4, SyncKept DEF Drain, files, history
<1> QED
  BY <1>1, <1>2, <1>3, <1>5

\* A new Context is put in the place of the old one.
LEMMA ReplaceKeeps ==
    ASSUME TemplatesInv, NEW r \in Requests, Replace(r)
    PROVE  TemplatesInv'
<1> USE DEF TemplatesInv
<1>1. /\ r \in Tasks /\ load[r] \in Context /\ load[r].ticket \in Nat
      /\ tickets \in Nat /\ newest \in 0 .. tickets
      /\ load[r].ticket <= tickets /\ load[r].ticket > 0 /\ Loading(r)
      /\ at[r] - 1 = Len(Walk) /\ pc[Boot] = "up" /\ Unread(load[r]) = {} /\ Sound(load[r])
  BY WalkType, ContextType DEF Replace, Loaded, TemplatesTypeOK, LaunchInv, WholeInv, Sound,
     Loading, Tasks
<1>2. /\ UNCHANGED <<disk, clock, raw, queue, watcher, load, at, wanted, tickets, missed>>
      /\ ctxt' = load[r] /\ pc' = [pc EXCEPT ![r] = "render"]
      /\ newest' = IF load[r].ticket > newest THEN load[r].ticket ELSE newest
      /\ \A s \in Requests : pc[s] # "rendering"
  BY DEF Replace, Goto, Rendering, files
<1>3. TemplatesTypeOK'
  BY <1>1, <1>2 DEF TemplatesTypeOK
<1>4. LaunchInv'
  BY <1>1, <1>2, TemplatesAssumption DEF TemplatesTypeOK, LaunchInv, Loading, Tasks
<1>5. WholeInv'
  BY <1>1, <1>2 DEF TemplatesTypeOK, WholeInv, Sound, Unread, Loading
<1>6. SUFFICES ASSUME Settled' PROVE LastLoad'
  BY <1>3, <1>4, <1>5 DEF SyncInv
<1>7. LastLoad
  BY <1>1, <1>2, <1>6 DEF TemplatesTypeOK, Loading, Settled, SyncInv, Tasks
<1>8. (Loadable' <=> Loadable) /\ \A c, k : Agrees(c, k)' <=> Agrees(c, k)
  BY <1>2, SameDisk
<1>9. \A s \in Tasks : Newest(s)' <=> Newest(s) /\ s # r
  BY <1>1, <1>2 DEF TemplatesTypeOK, Newest, Loading
<1>10. load[r].ticket = tickets => Newest(r) /\ newest' = tickets'
  BY <1>1, <1>2 DEF Newest
<1>11. newest' > 0 /\ newest' = tickets' /\ ctxt'.ticket = newest' => Agrees(ctxt, Len(Walk))'
  BY <1>1, <1>2, <1>7, <1>8, <1>10 DEF LastLoad
<1>12. newest' < tickets' /\ Loadable' => \E s \in Tasks : Newest(s)'
  BY <1>1, <1>2, <1>7, <1>8, <1>9, <1>10 DEF LastLoad, Newest
<1>13. \A s \in Tasks : Newest(s)' => Agrees(load[s], at[s] - 1)'
  BY <1>2, <1>7, <1>8, <1>9 DEF LastLoad
<1> QED
  BY <1>11, <1>12, <1>13 DEF LastLoad

\* A request looks a name up.
LEMMA LockKeeps ==
    ASSUME TemplatesInv, NEW r \in Requests, NEW n \in Names, Lock(r, n)
    PROVE  TemplatesInv'
<1> USE DEF TemplatesInv
<1>1. TemplatesTypeOK'
  BY DEF Lock, Goto, TemplatesTypeOK, Tasks, files, history
<1>2. LaunchInv'
  BY TemplatesAssumption DEF Lock, Goto, TemplatesTypeOK, LaunchInv, Loading, Tasks, files,
     history
<1>3. WholeInv'
  BY DEF Lock, Goto, TemplatesTypeOK, WholeInv, Sound, Unread, Loading, Tasks, files, history
<1>4. (Settled' => Settled) /\ \A s \in Tasks : Loading(s)' <=> Loading(s)
  BY DEF Lock, Goto, TemplatesTypeOK, Settled, Loading, Tasks, files, history
<1>5. SyncInv'
  BY <1>4, SyncKept DEF Lock, files, history
<1> QED
  BY <1>1, <1>2, <1>3, <1>5

\* One file of the walk: it is the first of its name if none was found before.
LEMMA WalkOneKeeps ==
    ASSUME TemplatesInv, NEW t \in Tasks, WalkOne(t)
    PROVE  TemplatesInv'
<1> USE DEF TemplatesInv
<1> DEFINE c == load[t]
           i == at[t]
           f == Walk[i]
           new == Found(c.templates, f)
<1>1. /\ i \in 1 .. Len(Walk) /\ f \in Files /\ NameOf[f] \in Names
      /\ c \in Context /\ c.templates \in Partial(Names, Files) /\ pc[t] = "walk"
  BY WalkType, ContextType DEF WalkOne, TemplatesTypeOK
<1>2. /\ load' = [load EXCEPT ![t].templates = new] /\ at' = [at EXCEPT ![t] = i + 1]
      /\ UNCHANGED <<disk, clock, raw, queue, watcher, ctxt, pc, wanted, tickets, newest, missed>>
  BY DEF WalkOne, files, history, TemplatesTypeOK
<1>3. /\ new \in Partial(Names, Files)
      /\ \A n : n \in DOMAIN new <=> n \in DOMAIN c.templates \/ (n = NameOf[f] /\ disk[f] # Gone)
      /\ \A n \in DOMAIN c.templates : new[n] = c.templates[n]
      /\ \A n \in DOMAIN new \ DOMAIN c.templates : new[n] = f
  <2>1. CASE disk[f] = Gone \/ NameOf[f] \in DOMAIN c.templates
    BY <1>1, <2>1 DEF Found
  <2>2. CASE ~(disk[f] = Gone \/ NameOf[f] \in DOMAIN c.templates)
    <3>1. new = Put(c.templates, NameOf[f], f)
      BY <2>2 DEF Found
    <3>2. new \in Partial(Names, Files) /\ IsPut(new, c.templates, NameOf[f], f)
      BY <1>1, <3>1, PutIsPartial
    <3> QED
      BY <2>2, <3>2 DEF IsPut
  <2> QED
    BY <2>1, <2>2
<1> HIDE DEF new
<1>4. /\ load'[t] \in Context /\ load'[t].templates = new
      /\ load'[t].engines = c.engines /\ load'[t].ticket = c.ticket
  BY <1>1, <1>2, <1>3 DEF TemplatesTypeOK, Context
<1>5. \A s \in Tasks : s # t => load'[s] = load[s] /\ at'[s] = at[s]
  BY <1>2 DEF TemplatesTypeOK
<1>6. at'[t] = i + 1 /\ at'[t] - 1 = i /\ i - 1 \in Nat
  BY <1>1, <1>2 DEF TemplatesTypeOK
<1>7. TemplatesTypeOK'
  <2>1. load' \in [Tasks -> Context]
    BY <1>2, <1>4, <1>5 DEF TemplatesTypeOK
  <2>2. at' \in [Tasks -> 1 .. Len(Walk) + 1]
    BY <1>1, <1>2, WalkType DEF TemplatesTypeOK
  <2> QED
    BY <1>2, <2>1, <2>2 DEF TemplatesTypeOK
<1>8. LaunchInv'
  BY <1>1, <1>2, <1>4, <1>5, <1>6 DEF LaunchInv, Loading, Tasks
<1>9. WholeInv'
  <2>1. Sound(load[t])'
    BY <1>2, <1>3, <1>4 DEF WholeInv, Sound
  <2>2. \A s \in Tasks : s # t => Sound(load[s])'
    BY <1>2, <1>5 DEF WholeInv, Sound
  <2>3. Sound(ctxt)' /\ Unread(ctxt)' = {}
    BY <1>2 DEF WholeInv, Sound, Unread
  <2>4. \A s \in Tasks : Loading(s)' => load'[s].ticket > 0
    BY <1>2, <1>4, <1>5 DEF WholeInv, Loading
  <2> QED
    BY <2>1, <2>2, <2>3, <2>4 DEF WholeInv
<1>10. SUFFICES ASSUME Settled' PROVE LastLoad'
  BY <1>7, <1>8, <1>9 DEF SyncInv
<1>11. LastLoad
  BY <1>2, <1>10 DEF Settled, SyncInv
<1>12. \A s \in Tasks : Newest(s)' <=> Newest(s)
  BY <1>2, <1>4, <1>5 DEF Newest, Loading
<1>13. (Loadable' <=> Loadable) /\ \A d, k : Agrees(d, k)' <=> Agrees(d, k)
  BY <1>2, SameDisk
<1>14. ASSUME Newest(t) PROVE Agrees(load[t], at[t] - 1)'
  <2>1. Agrees(c, i - 1)
    BY <1>11, <1>14 DEF LastLoad
  <2>2. \A n : Present(n) \cap 1 .. i # {} <=> Present(n) \cap 1 .. i - 1 # {} \/ i \in Present(n)
    <3>1. 1 .. i = (1 .. i - 1) \cup {i}
      BY <1>1
    <3> QED
      BY <3>1
  <2>3. \A n : i \in Present(n) <=> n = NameOf[f] /\ disk[f] # Gone
    BY <1>1 DEF Present
  <2>4. \A n : n \in DOMAIN new <=> n \in Names /\ Present(n) \cap 1 .. i # {}
    BY <1>1, <1>3, <2>1, <2>2, <2>3 DEF Agrees
  <2>5. ASSUME NEW n \in DOMAIN new PROVE IsFirst(new[n], n)
    <3>1. CASE n \in DOMAIN c.templates
      BY <1>3, <2>1, <3>1 DEF Agrees
    <3>2. CASE n \notin DOMAIN c.templates
      <4>1. new[n] = f /\ i \in Present(n) /\ Present(n) \cap 1 .. i - 1 = {}
        BY <1>1, <1>3, <2>1, <2>3, <2>5, <3>2 DEF Agrees
      <4>2. \A j \in Present(n) : j \in 1 .. Len(Walk)
        BY DEF Present
      <4>3. \A j \in Present(n) : i <= j
        BY <1>1, <4>1, <4>2, WalkType
      <4> QED
        BY <4>1, <4>3 DEF IsFirst
    <3> QED
      BY <3>1, <3>2
  <2>6. Agrees(load'[t], i)
    BY <1>4, <2>1, <2>4, <2>5 DEF Agrees
  <2> QED
    BY <1>6, <1>13, <2>6
<1>15. \A s \in Tasks : Newest(s)' => Agrees(load[s], at[s] - 1)'
  BY <1>5, <1>11, <1>12, <1>13, <1>14 DEF LastLoad
<1> QED
  BY <1>2, <1>11, <1>12, <1>13, <1>15 DEF LastLoad

\* Engines::init reads a file.
LEMMA ReadOneKeeps ==
    ASSUME TemplatesInv, NEW t \in Tasks, ReadOne(t)
    PROVE  TemplatesInv'
<1> USE DEF TemplatesInv
<1> DEFINE c == load[t]
<1>1. PICK f \in Unread(c) :
         disk[f].ok /\ load' = [load EXCEPT ![t].engines = Put(c.engines, f, disk[f])]
  BY DEF ReadOne, TemplatesTypeOK
<1> DEFINE new == Put(c.engines, f, disk[f])
<1>2. UNCHANGED <<disk, clock, raw, queue, watcher, ctxt, pc, at, wanted, tickets, newest, missed>>
  BY DEF ReadOne, files, history
<1>3. /\ f \in Files /\ c \in Context /\ c.engines \in Partial(Files, Contents) /\ disk[f] \in Contents
  BY <1>1, ContextType DEF TemplatesTypeOK, Unread, Gone
<1>4. /\ new \in Partial(Files, Contents)
      /\ DOMAIN new = DOMAIN c.engines \cup {f} /\ new[f] = disk[f]
      /\ \A g \in DOMAIN c.engines : g # f => new[g] = c.engines[g]
  <2>1. new \in Partial(Files, Contents) /\ IsPut(new, c.engines, f, disk[f])
    BY <1>3, PutIsPartial
  <2> QED
    BY <2>1 DEF IsPut
<1> HIDE DEF new
<1>5. /\ load'[t] \in Context /\ load'[t].engines = new
      /\ load'[t].templates = c.templates /\ load'[t].ticket = c.ticket
  BY <1>1, <1>3, <1>4 DEF TemplatesTypeOK, Context, new
<1>6. \A s \in Tasks : s # t => load'[s] = load[s]
  BY <1>1 DEF TemplatesTypeOK
<1>7. TemplatesTypeOK'
  <2>1. load' \in [Tasks -> Context]
    BY <1>1, <1>5, <1>6 DEF TemplatesTypeOK
  <2> QED
    BY <1>2, <2>1 DEF TemplatesTypeOK
<1>8. LaunchInv'
  BY <1>2, <1>5, <1>6 DEF LaunchInv, Loading, Tasks
<1>9. WholeInv'
  <2>1. Sound(load[t])'
    BY <1>1, <1>2, <1>4, <1>5 DEF WholeInv, Sound
  <2>2. \A s \in Tasks : s # t => Sound(load[s])'
    BY <1>2, <1>6 DEF WholeInv, Sound
  <2>3. Sound(ctxt)' /\ Unread(ctxt)' = {}
    BY <1>2 DEF WholeInv, Sound, Unread
  <2>4. \A s \in Tasks : Loading(s)' => load'[s].ticket > 0
    BY <1>2, <1>5, <1>6 DEF WholeInv, Loading
  <2> QED
    BY <2>1, <2>2, <2>3, <2>4 DEF WholeInv
<1>10. SUFFICES ASSUME Settled' PROVE LastLoad'
  BY <1>7, <1>8, <1>9 DEF SyncInv
<1>11. LastLoad
  BY <1>2, <1>10 DEF Settled, SyncInv
<1>12. \A s \in Tasks : Newest(s)' <=> Newest(s)
  BY <1>2, <1>5, <1>6 DEF Newest, Loading
<1>13. (Loadable' <=> Loadable) /\ \A d, k : Agrees(d, k)' <=> Agrees(d, k)
  BY <1>2, SameDisk
<1>14. \A k : Agrees(c, k) => Agrees(load'[t], k)
  BY <1>4, <1>5 DEF Agrees
<1>15. \A s \in Tasks : Newest(s)' => Agrees(load[s], at[s] - 1)'
  BY <1>2, <1>6, <1>11, <1>12, <1>13, <1>14 DEF LastLoad
<1> QED
  BY <1>2, <1>11, <1>12, <1>13, <1>15 DEF LastLoad

\* A request renders: a lazy file is read now.
LEMMA RenderKeeps ==
    ASSUME TemplatesInv, NEW r \in Requests, Render(r)
    PROVE  TemplatesInv'
<1> USE DEF TemplatesInv
<1> DEFINE f == ctxt.templates[wanted[r]]
           text == IF f \in DOMAIN ctxt.engines THEN ctxt.engines[f] ELSE disk[f]
           new == Put(ctxt.engines, f, text)
<1>1. /\ UNCHANGED <<disk, clock, raw, queue, watcher, load, at, wanted, tickets, newest, missed>>
      /\ pc' = [pc EXCEPT ![r] = "done"] /\ pc[r] = "rendering" /\ r \in Tasks
      /\ ctxt' = IF text.ok THEN [ctxt EXCEPT !.engines = new] ELSE ctxt
  BY DEF Render, Rendering, Goto, files, history, Tasks
<1>2. /\ f \in Files /\ ctxt \in Context /\ ctxt.engines \in Partial(Files, Contents)
      /\ text \in Contents \cup {Gone}
  BY <1>1, ContextType DEF LaunchInv, TemplatesTypeOK
<1>3. text.ok => text \in Contents
  BY <1>2 DEF Gone
<1>4. text.ok =>
        /\ new \in Partial(Files, Contents)
        /\ DOMAIN new = DOMAIN ctxt.engines \cup {f} /\ new[f] = text
        /\ \A g \in DOMAIN ctxt.engines : g # f => new[g] = ctxt.engines[g]
  <2>1. text.ok => new \in Partial(Files, Contents) /\ IsPut(new, ctxt.engines, f, text)
    BY <1>2, <1>3, PutIsPartial
  <2> QED
    BY <2>1 DEF IsPut
<1> HIDE DEF new
<1>5. /\ ctxt' \in Context /\ ctxt'.templates = ctxt.templates /\ ctxt'.ticket = ctxt.ticket
      /\ ctxt'.engines = IF text.ok THEN new ELSE ctxt.engines
  BY <1>1, <1>2, <1>4 DEF Context
<1>6. TemplatesTypeOK'
  BY <1>1, <1>5 DEF TemplatesTypeOK
<1>7. LaunchInv'
  BY <1>1, <1>5, TemplatesAssumption DEF TemplatesTypeOK, LaunchInv, Loading, Tasks
<1>8. WholeInv'
  <2>1. Sound(ctxt)'
    BY <1>1, <1>4, <1>5 DEF WholeInv, Sound
  <2>2. \A s \in Tasks : Sound(load[s])'
    BY <1>1 DEF WholeInv, Sound
  <2>3. Unread(ctxt)' = {}
    BY <1>4, <1>5 DEF WholeInv, Unread
  <2>4. \A s \in Tasks : Loading(s)' => load'[s].ticket > 0
    BY <1>1 DEF TemplatesTypeOK, WholeInv, Loading
  <2> QED
    BY <2>1, <2>2, <2>3, <2>4 DEF WholeInv
<1>9. SUFFICES ASSUME Settled' PROVE LastLoad'
  BY <1>6, <1>7, <1>8 DEF SyncInv
<1>10. LastLoad
  BY <1>1, <1>9 DEF TemplatesTypeOK, Settled, SyncInv
<1>11. \A s \in Tasks : Newest(s)' <=> Newest(s)
  BY <1>1 DEF TemplatesTypeOK, Newest, Loading
<1>12. (Loadable' <=> Loadable) /\ \A d, k : Agrees(d, k)' <=> Agrees(d, k)
  BY <1>1, SameDisk
<1>13. \A k : Agrees(ctxt, k) => Agrees(ctxt', k)
  BY <1>4, <1>5 DEF Agrees
<1> QED
  BY <1>1, <1>5, <1>10, <1>11, <1>12, <1>13 DEF LastLoad

\* Every step of the files, the watcher, the loads and the requests
LEMMA TemplatesNextInv == TemplatesInv /\ [TemplatesNext]_templateVars => TemplatesInv'
<1> SUFFICES ASSUME TemplatesInv, [TemplatesNext]_templateVars PROVE TemplatesInv'
  OBVIOUS
<1>1. ASSUME NEW t \in Tasks, Loads(t) PROVE TemplatesInv'
  BY <1>1, BeginKeeps, NoRootKeeps, WalkOneKeeps, WalkEndKeeps, ReadOneKeeps, LoadErrKeeps DEF Loads
<1>2. ASSUME NEW r \in Requests, Serve(r) PROVE TemplatesInv'
  BY <1>2, DrainKeeps, ReplaceKeeps, RenderKeeps, LockKeeps DEF Serve
<1>3. CASE UNCHANGED templateVars
  <2>1. UNCHANGED <<disk, clock, raw, queue, watcher, ctxt, pc, load, at, wanted>>
        /\ UNCHANGED <<tickets, newest, missed>>
    BY <1>3 DEF templateVars
  <2>2. (Settled' => Settled) /\ \A t \in Tasks : Loading(t)' <=> Loading(t)
    BY <2>1 DEF Settled, Loading
  <2>3. SyncInv'
    BY <2>1, <2>2, SyncKept DEF TemplatesInv
  <2>4. TemplatesTypeOK' /\ LaunchInv' /\ WholeInv'
    BY <2>1 DEF TemplatesInv, TemplatesTypeOK, LaunchInv, WholeInv, Sound, Unread, Loading
  <2> QED
    BY <2>3, <2>4 DEF TemplatesInv
<1> QED
  BY <1>1, <1>2, <1>3, ChangeKeeps, DeliverKeeps, ManageKeeps DEF TemplatesNext, Ignite

\* The inductive invariant holds, whatever happens to the files and when.
THEOREM TemplatesInductive == TemplatesSpec => []TemplatesInv
  BY TemplatesInitInv, TemplatesNextInv, PTL DEF TemplatesSpec

\* What Context::initialize() and reload_if_needed() put in place can be rendered: a
\* file that cannot be read, or goes between walk and read, never leaves a Context
\* with a name that no engine has.
THEOREM ServedContextIsWhole == TemplatesSpec => []ContextIsWhole
<1>1. TemplatesInv => ContextIsWhole
  <2> SUFFICES ASSUME TemplatesInv, NEW n \in DOMAIN ctxt.templates, ctxt.templates[n] \notin Lazy
               PROVE  /\ ctxt.templates[n] \in DOMAIN ctxt.engines
                      /\ ctxt.engines[ctxt.templates[n]].ok
    BY DEF ContextIsWhole
  <2>1. ctxt.templates[n] \in Files
    BY ContextType DEF TemplatesInv, TemplatesTypeOK
  <2> QED
    BY <2>1 DEF TemplatesInv, WholeInv, Sound, Unread
<1> QED
  BY <1>1, TemplatesInductive, PTL

\* No event of the watcher is lost by reload_if_needed(): when none is left, the
\* Context is the directory's, unless that cannot be loaded, a file has changed
\* before the watch, or an older load has overwritten a newer one.
THEOREM TemplatesCatchUp == TemplatesSpec => []CaughtUp
<1>1. TemplatesInv => CaughtUp
  <2> SUFFICES ASSUME TemplatesInv, Quiet, ~missed, Loadable, ctxt.ticket = newest
               PROVE  Agrees(ctxt, Len(Walk))
    BY DEF CaughtUp
  <2>1. Settled
    BY DEF Quiet, Settled
  <2>2. \A t \in Tasks : ~Newest(t)
    BY DEF TemplatesInv, LaunchInv, Quiet, Newest, Loading, Tasks
  <2>3. newest > 0 /\ newest \in 0 .. tickets /\ tickets \in Nat
    BY DEF TemplatesInv, TemplatesTypeOK, LaunchInv, Quiet
  <2> QED
    BY <2>1, <2>2, <2>3 DEF TemplatesInv, SyncInv, LastLoad
<1> QED
  BY <1>1, TemplatesInductive, PTL
=============================================================================
