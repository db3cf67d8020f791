-------------------------------- MODULE Data --------------------------------
(***************************************************************************)
(* core/lib/src/data: the body of a request, from the first peek to a      *)
(* capped value.                                                           *)
(*                                                                         *)
(* Fairings and guards may peek: what has been read ahead stays in a       *)
(* buffer.  open() chains the buffer and the rest of the body, limits the  *)
(* result and wraps it into the transforms that fairings have attached;    *)
(* the stream is read to its end and, if the limit was reached, one byte   *)
(* more is tried to learn whether something was cut off.                   *)
(*                                                                         *)
(* A body of n bytes is 1 .. n in order.  How much one read returns is up  *)
(* to the transport (hyper's frames, external) and to the reader's buffer. *)
(***************************************************************************)
EXTENDS Integers, Sequences, SequencesExt

CONSTANTS
    MaxBody,    \* bound: bytes of a body
    PeekMax,    \* how much can be peeked at least: 512 in the code
    Space,      \* bound: bytes that one read of the stream asks for
    MaxLimit,   \* bound: limits given to open()
    Chains      \* the sequences of transforms that fairings attach

Kinds == {"inspect", "filter", "digest", "append"}

ASSUME DataAssumption ==
    /\ Chains \subseteq Seq(Kinds)
    /\ MaxBody \in Nat /\ MaxLimit \in Nat
    /\ PeekMax \in Nat \ {0} /\ Space \in Nat \ {0}

VARIABLES
    size,       \* the bytes the client meant to send
    broken,     \* the position at which the connection breaks, or -1
    given,      \* how many bytes the transport has handed out
    buffer,     \* Peekable: what has been read ahead
    complete,   \* Peekable: the end of the body was met while peeking
    swallowed,  \* an error was met while peeking
    phase,      \* "data", "open", "read", then "done" or "failed"
    limit,      \* Take: what may still be read
    opened,     \* the limit given to open()
    levels,     \* the transforms, innermost first, and their state
    base,       \* everything the limited reader has returned
    out,        \* everything the stream has returned
    capped      \* the result's flag: the stream was complete

vars == <<size, broken, given, buffer, complete, swallowed, phase, limit, opened,
          levels, base, out, capped>>

Bytes(n) == [i \in 1 .. n |-> i]

Level == [kind : Kinds, seen : Seq(Nat), inner_done : BOOLEAN, finishing : BOOLEAN, rest : Seq(Nat)]

TypeOK ==
    /\ size \in 0 .. MaxBody /\ broken \in -1 .. MaxBody
    /\ given \in 0 .. size
    /\ buffer \in Seq(1 .. MaxBody)
    /\ complete \in BOOLEAN /\ swallowed \in BOOLEAN /\ capped \in BOOLEAN
    /\ phase \in {"data", "open", "read", "done", "failed"}
    /\ limit \in 0 .. MaxLimit /\ opened \in 0 .. MaxLimit
    /\ levels \in Seq(Level)
    /\ base \in Seq(1 .. MaxBody) /\ out \in Seq(Nat)

NewLevel(kind) ==
    [kind |-> kind, seen |-> <<>>, inner_done |-> FALSE, finishing |-> FALSE, rest |-> <<>>]

\* Data::from: nothing is read yet.  Data::local: all of it is in the buffer.
Init ==
    /\ size \in 0 .. MaxBody
    /\ \/ /\ broken \in -1 .. size - 1
          /\ given = 0 /\ buffer = <<>> /\ complete = FALSE
       \/ /\ broken = -1
          /\ given = size /\ buffer = Bytes(size) /\ complete = TRUE
    /\ swallowed = FALSE /\ phase = "data" /\ limit = 0 /\ opened = 0
    /\ \E chain \in Chains : levels = [i \in DOMAIN chain |-> NewLevel(chain[i])]
    /\ base = <<>> /\ out = <<>> /\ capped = FALSE

-----------------------------------------------------------------------------
\* RawStream and StreamReader: what a read with room for n bytes may return.
\* After an error it may report the end, or the error again.
Breaks == broken = given

Arrives(n) ==
    {SubSeq(Bytes(size), given + 1, given + k) :
        k \in {k \in 1 .. n : k <= (IF broken >= 0 THEN broken ELSE size) - given}}

AtEnd == given = size \/ swallowed

-----------------------------------------------------------------------------
(* Peekable::peek                                                          *)

\* One turn of the loop.  The spare capacity is filled, so that more may come
\* than was asked for.  The reader's future may be dropped between two turns.
Peeks(num) == phase = "data" /\ ~complete
              /\ Len(buffer) < (IF num < PeekMax THEN num ELSE PeekMax)

PeekRead(num) ==
    /\ Peeks(num)
    /\ \E bytes \in Arrives(PeekMax - Len(buffer)) :
          /\ buffer' = buffer \o bytes
          /\ given' = given + Len(bytes)
    /\ UNCHANGED <<size, broken, complete, swallowed, phase, limit, opened, levels, base, out, capped>>

\* Ok(0)
PeekEnd(num) ==
    /\ Peeks(num) /\ AtEnd
    /\ complete' = TRUE
    /\ UNCHANGED <<size, broken, given, buffer, swallowed, phase, limit, opened, levels, base, out, capped>>

\* Err(e) is logged and the loop left.
PeekErr(num) ==
    /\ Peeks(num) /\ Breaks
    /\ swallowed' = TRUE
    /\ UNCHANGED <<size, broken, given, buffer, complete, phase, limit, opened, levels, base, out, capped>>

-----------------------------------------------------------------------------
(* Data::open, DataStream::new                                             *)

Open(max) ==
    /\ phase = "data"
    /\ phase' = "open" /\ limit' = max /\ opened' = max
    /\ UNCHANGED <<size, broken, given, buffer, complete, swallowed, levels, base, out, capped>>

\* The rest of the body goes first.
BaseReadsReversed(n) ==
    LET room == IF n < limit THEN n ELSE limit IN
    IF room = 0 THEN {<<>>}
    ELSE IF AtEnd
         THEN {SubSeq(buffer, 1, IF room < Len(buffer) THEN room ELSE Len(buffer))}
         ELSE Arrives(room)

\* Take and Chain: what a read with room for n bytes returns.  At the limit
\* nothing is read; the buffer comes first; <<>> is the end.
BaseReads(n) ==
    LET room == IF n < limit THEN n ELSE limit IN
    IF room = 0 THEN {<<>>}
    ELSE IF buffer # <<>>
         THEN {SubSeq(buffer, 1, IF room < Len(buffer) THEN room ELSE Len(buffer))}
         ELSE IF AtEnd THEN {<<>>} ELSE Arrives(room)

\* What reading `bytes` does to the reader.
Took(bytes) ==
    IF buffer # <<>> THEN buffer' = SubSeq(buffer, Len(bytes) + 1, Len(buffer)) /\ UNCHANGED given
    ELSE given' = given + Len(bytes) /\ UNCHANGED buffer

-----------------------------------------------------------------------------
(* The transforms, external: an inspector lets everything pass, a filter   *)
(* drops the odd values, a digest replaces everything by two values at the *)
(* end, and one appends a value at the end.                                *)

Digest(s) == FoldLeft(LAMBDA h, x : 3 * h + x, 1, s)

KeepEven(kept, x) == IF x % 2 = 0 THEN Append(kept, x) ELSE kept

Evens(s) ==
    LET evens[i \in 0 .. Len(s)] == IF i = 0 THEN <<>> ELSE KeepEven(evens[i - 1], s[i])
    IN evens[Len(s)]

Transform(kind, fresh) ==
    CASE kind = "digest" -> <<>>
      [] kind = "filter" -> Evens(fresh)
      [] OTHER -> fresh

Finish(kind, seen) ==
    CASE kind = "digest" -> <<Digest(seen), Digest(seen) + 1>>
      [] kind = "append" -> <<0>>
      [] OTHER -> <<>>

\* Transform::poll_finish: what is left is returned in pieces.
PollFinish(level, n) ==
    LET all == IF level.finishing THEN level.rest ELSE Finish(level.kind, level.seen)
        k == IF n < Len(all) THEN n ELSE Len(all)
    IN [fresh |-> SubSeq(all, 1, k),
        level |-> [level EXCEPT !.inner_done = TRUE, !.finishing = TRUE,
                                !.rest = SubSeq(all, k + 1, Len(all))]]

\* A read that a transform has emptied is taken for the end of the stream.
PollReadForgetsPending(acc, level) ==
    IF level.inner_done \/ acc.fresh = <<>>
    THEN LET f == PollFinish(level, Space)
         IN [acc EXCEPT !.fresh = f.fresh, !.levels = Append(@, f.level)]
    ELSE [acc EXCEPT !.fresh = Transform(level.kind, acc.fresh),
                     !.levels = Append(@, [level EXCEPT !.seen = @ \o acc.fresh])]

\* TransformReader::poll_read of one level, given what the level below returned
\* in `acc`: [fresh, pending, levels].  Pending goes straight up; a level whose
\* inner stream has ended does not read it again.
PollRead(acc, level) ==
    IF acc.pending THEN [acc EXCEPT !.levels = Append(@, level)]
    ELSE IF level.inner_done \/ acc.fresh = <<>>
    THEN LET f == PollFinish(level, Space)
         IN [acc EXCEPT !.fresh = f.fresh, !.levels = Append(@, f.level)]
    ELSE LET after == Transform(level.kind, acc.fresh)
         IN [acc EXCEPT !.fresh = after, !.pending = after = <<>>,
                        !.levels = Append(@, [level EXCEPT !.seen = @ \o acc.fresh])]

\* The base is read unless some level has met the end already.
InnerDone == \E i \in DOMAIN levels : levels[i].inner_done

\* A level above level i has met the end, and does not read what is below it.
NotRead(i) == \E k \in i + 1 .. Len(levels) : levels[k].inner_done

PollLevel(acc, i) ==
    IF NotRead(i) THEN [acc EXCEPT !.levels = Append(@, levels[i])] ELSE PollRead(acc, levels[i])

\* One poll of the levels, each given what the one below it has returned.
Polls(bytes) ==
    LET poll[i \in 0 .. Len(levels)] ==
            IF i = 0 THEN [fresh |-> bytes, pending |-> FALSE, levels |-> <<>>]
            ELSE PollLevel(poll[i - 1], i)
    IN poll

Polled(bytes) == Polls(bytes)[Len(levels)]

\* A transform that has consumed everything does not wake the task.
ReadNotWoken ==
    /\ phase = "open"
    /\ \E bytes \in IF InnerDone THEN {<<>>} ELSE BaseReads(Space) :
          LET p == Polled(bytes) IN
          /\ ~p.pending
          /\ levels' = p.levels
          /\ out' = out \o p.fresh
          /\ base' = base \o bytes
          /\ limit' = limit - Len(bytes)
          /\ Took(bytes)
          /\ phase' = IF p.fresh = <<>> THEN "read" ELSE "open"
    /\ UNCHANGED <<size, broken, complete, swallowed, opened, capped>>

\* One poll of the stream by tokio::io::copy or read_to_end.  Pending has been
\* preceded by a wake-up, so that the poll is repeated.
Read ==
    /\ phase = "open"
    /\ \E bytes \in IF InnerDone THEN {<<>>} ELSE BaseReads(Space) :
          LET p == Polled(bytes) IN
          /\ levels' = p.levels
          /\ out' = out \o p.fresh
          /\ base' = base \o bytes
          /\ limit' = limit - Len(bytes)
          /\ Took(bytes)
          /\ phase' = IF p.fresh = <<>> /\ ~p.pending THEN "read" ELSE "open"
    /\ UNCHANGED <<size, broken, complete, swallowed, opened, capped>>

\* The transport is read while copying and when one byte more is tried.
MustRead == (phase = "open" /\ ~InnerDone /\ limit > 0) \/ (phase = "read" /\ limit = 0)

\* Its errors are passed on.
ReadErr ==
    /\ MustRead /\ buffer = <<>> /\ Breaks
    /\ phase' = "failed"
    /\ UNCHANGED <<size, broken, given, buffer, complete, swallowed, limit, opened, levels, base, out, capped>>

\* The limit alone decides.
LimitReached ==
    /\ phase = "read"
    /\ phase' = "done" /\ capped' = (limit > 0)
    /\ UNCHANGED <<size, broken, given, buffer, complete, swallowed, limit, opened, levels, base, out>>

\* DataStream::limit_exceeded: at the limit, one byte more is tried.
LimitExceeded ==
    /\ phase = "read"
    /\ limit = 0 /\ buffer = <<>> => AtEnd \/ ~Breaks
    /\ phase' = "done"
    /\ capped' = (limit > 0 \/ (buffer = <<>> /\ AtEnd))
    /\ UNCHANGED <<size, broken, given, buffer, complete, swallowed, limit, opened, levels, base, out>>

Next ==
    \/ \E num \in 1 .. PeekMax + 1 : PeekRead(num) \/ PeekEnd(num) \/ PeekErr(num)
    \/ \E max \in 0 .. MaxLimit : Open(max)
    \/ Read \/ ReadErr \/ LimitExceeded

\* An opened stream is read on; the client sends on or the connection breaks.
Spec == Init /\ [][Next]_vars /\ WF_vars(Read \/ ReadErr \/ LimitExceeded)

-----------------------------------------------------------------------------
\* However peeks, frames and reads cut the body: what the limited reader has
\* returned, what is in the buffer and what the transport has not handed out
\* are the body, in order; nothing beyond the limit was returned; and
\* peek_complete() means the whole body, if no error was swallowed.
NothingLostOrRepeated ==
    /\ base \o buffer \o SubSeq(Bytes(size), given + 1, size) = Bytes(size)
    /\ Len(base) <= opened
    /\ complete /\ ~swallowed => given = size

\* A capped value says that it is complete exactly if the body fits the limit,
\* at the boundary too, and a connection that broke within the limit is never a
\* success.  The exception is a body that broke while it was peeked at: the error
\* was swallowed, and the piece passes for the whole.
CompleteIsExact ==
    phase = "done" =>
        /\ capped <=> (IF swallowed THEN given ELSE size) <= opened
        /\ swallowed \/ broken = -1 \/ opened < broken

-----------------------------------------------------------------------------
(* The inductive invariant behind these two                                *)

\* The body is cut in two between what was returned and what was read ahead;
\* the limit counts down what is returned.
CutsAreSound ==
    /\ size \in Nat /\ given \in 0 .. size /\ limit \in Nat /\ opened \in Nat
    /\ base \in Seq(Nat) /\ buffer \in Seq(Nat)
    /\ Len(base) + Len(buffer) = given
    /\ \A i \in 1 .. Len(base) : base[i] = i
    /\ \A i \in 1 .. Len(buffer) : buffer[i] = Len(base) + i
    /\ Len(base) + limit = opened
    /\ phase = "data" => limit = 0 /\ opened = 0

\* Where the connection breaks nothing more arrives, and the end is only
\* reported for the end or after an error.
BreaksAreSound ==
    /\ broken \in Int
    /\ broken = -1 \/ (given <= broken /\ broken < size)
    /\ swallowed => broken = given
    /\ complete => AtEnd

BaseEnded == limit = 0 \/ (buffer = <<>> /\ AtEnd)

\* No level has met the end of the stream below it.
IsOpen(level) == {"seen", "inner_done"} \subseteq DOMAIN level /\ ~level.inner_done

LevelsAreOpen(ls) ==
    /\ Len(ls) \in Nat /\ ls = [i \in 1 .. Len(ls) |-> ls[i]]
    /\ \A i \in 1 .. Len(ls) : IsOpen(ls[i])

\* A level meets the end only once the limited reader has ended, and with no
\* level at the end the stream does not end either.
EndIsReal ==
    /\ phase \in {"data", "open", "read", "done", "failed"}
    /\ phase = "data" \/ ~BaseEnded => LevelsAreOpen(levels)
    /\ phase \in {"read", "done"} => BaseEnded
    /\ phase = "done" =>
          /\ capped <=> limit > 0 \/ (buffer = <<>> /\ AtEnd)
          /\ limit = 0 /\ buffer = <<>> => AtEnd \/ ~Breaks

IInv == CutsAreSound /\ BreaksAreSound /\ EndIsReal

-----------------------------------------------------------------------------
\* What the transforms make of a whole body, given at once
Whole(s, level) == Transform(level.kind, s) \o Finish(level.kind, s)

\* Streamed through a chain of transforms that consume and add data, the body
\* becomes what the same transforms make of it in one piece.
TransformsCompose ==
    phase \in {"read", "done"} =>
        LET whole[i \in 0 .. Len(levels)] ==
                IF i = 0 THEN base ELSE Whole(whole[i - 1], levels[i])
        IN out = whole[Len(levels)]

-----------------------------------------------------------------------------
(* The inductive invariant behind the composition                          *)

IsSequence(s) == Len(s) \in Nat /\ s = [i \in 1 .. Len(s) |-> s[i]]

IsLevel(level) ==
    /\ {"kind", "seen", "inner_done", "finishing", "rest"} \subseteq DOMAIN level
    /\ level.inner_done \in BOOLEAN /\ level.finishing = level.inner_done
    /\ IsSequence(level.seen) /\ IsSequence(level.rest)

\* A level has returned what it makes of what it has seen, and after the end of
\* the stream below all of it but what is left to return.
HasReturned(level, o) ==
    IF level.inner_done THEN o \o level.rest = Whole(level.seen, level)
    ELSE o = Transform(level.kind, level.seen)

Drained(level) == level.inner_done /\ level.rest = <<>>

\* From the limited reader, which has returned b, to the stream, which has
\* returned o: each level has seen what the one below it has returned, and meets
\* the end only after all those below it have been drained.
Flows(ls, b, o) ==
    /\ IsSequence(ls) /\ IsSequence(b) /\ IsSequence(o)
    /\ \A i \in 1 .. Len(ls) : IsLevel(ls[i])
    /\ b = IF Len(ls) = 0 THEN o ELSE ls[1].seen
    /\ \A i \in 1 .. Len(ls) : HasReturned(ls[i], IF i = Len(ls) THEN o ELSE ls[i + 1].seen)
    /\ \A i, k \in 1 .. Len(ls) : i < k /\ ls[k].inner_done => Drained(ls[i])

FlowInv ==
    /\ Flows(levels, base, out)
    /\ phase \in {"read", "done"} /\ Len(levels) > 0 => Drained(levels[Len(levels)])

-----------------------------------------------------------------------------
\* A stream that is read ends, also when transforms consume everything.
ReadingEnds == phase = "open" ~> phase \in {"done", "failed"}
=============================================================================
