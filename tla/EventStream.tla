---------------------------- MODULE EventStream -----------------------------
(***************************************************************************)
(* core/lib/src/response/stream and util/join.rs: server-sent events.      *)
(*                                                                         *)
(* An Event becomes a stream of RawLinedEvents, one for each field and one *)
(* for the blank line.  The events of the application are flattened and    *)
(* joined with a stream of heartbeats, and a ReaderStream makes one reader *)
(* out of the many.  Each is a state machine that stops wherever the       *)
(* buffer of a poll is full or its source is pending.  The other end is a  *)
(* client that parses what it gets by the grammar quoted in raw_sse.rs.    *)
(*                                                                         *)
(* A text is a sequence of characters, of which only ":", CR and LF matter *)
(* and are told apart from the others; a name is short but has two         *)
(* characters, so that a read may end inside.  An optional field is a set  *)
(* of at most one text.                                                    *)
(***************************************************************************)
EXTENDS Naturals, Sequences

CONSTANTS
    Chars,      \* the characters of texts
    Scripts,    \* the sequences of events an application may produce
    MaxRead     \* the largest buffer of a poll

ASSUME CharsAssumption ==
    {"r", "e", "i", "d", "v", "a", ":", "space", "lf", "cr"} \subseteq Chars

Text == Seq(Chars)
AnEvent == [comment : SUBSET Text, retry : SUBSET Text, id : SUBSET Text,
            event : SUBSET Text, data : SUBSET Text]

ASSUME ScriptsAssumption == Scripts \subseteq Seq(AnEvent)
ASSUME MaxReadAssumption == MaxRead \in Nat

Newline == {"lf", "cr"}
Farm(v) == [i \in DOMAIN v |-> IF v[i] \in Newline THEN "space" ELSE v[i]]

VARIABLES
    script, sent, closed,   \* the application: its events, how many it has yielded
    due,                    \* a tick of the interval is due
    inner,                  \* the lines left of the event being flattened
    taken,                  \* events taken from the application
    b,                      \* Join::b: "ticks", "empty" (no heartbeat) or "None"
    done,                   \* Join::done
    reader,                 \* State of ReaderStream: "Pending", "Reading", "Done"
    line,                   \* the RawLinedEvent being read
    room,                   \* what is left of the buffer of the current poll
    read,                   \* whether this poll has read from the current reader
    task,                   \* "ready", "polling", "asleep" or "ended"
    waits,                  \* what will wake the task
    client                  \* what the client has understood

app == <<script, sent, closed>>
join == <<inner, taken, b, done>>
poll == <<room, read, task, waits>>
streams == <<app, due, join, reader, line, poll, client>>

-----------------------------------------------------------------------------
(* raw_sse.rs                                                              *)

\* advance(): the distance from pos to the next newline, or to the end.
Advance(v, pos) ==
    LET stops == {i \in pos + 1 .. Len(v) : v[i] \in Newline}
    IN IF stops = {} THEN Len(v) - pos
       ELSE (CHOOSE i \in stops : \A j \in stops : i <= j) - (pos + 1)

\* Mutant: a CR LF counts as two ends of lines.
SkipOne(v, pos) == IF pos < Len(v) /\ v[pos + 1] \in Newline THEN pos + 1 ELSE pos

\* skip(): the position after the newline at pos, if there is one.
Skip(v, pos) ==
    IF pos + 1 < Len(v) /\ v[pos + 1] = "cr" /\ v[pos + 2] = "lf" THEN pos + 2
    ELSE IF pos < Len(v) /\ v[pos + 1] \in Newline THEN pos + 1
    ELSE pos

\* pos and limit are those of Take<Cursor<_>>, npos is the cursor of the name.
Prefarmed(n, v) ==
    [name |-> n, npos |-> 0, value |-> v, pos |-> 0, limit |-> Advance(v, 0), st |-> "Name"]
One(n, v) == Prefarmed(n, Farm(v))
Many(n, v) == Prefarmed(n, v)
Raw(v) == [name |-> <<>>, npos |-> 0, value |-> v, pos |-> 0, limit |-> Len(v), st |-> "Value"]
NoLine == Raw(<<>>)

\* An optional field, and what becomes of it if it is there
Of(o) == CHOOSE v \in o : TRUE
Opt(o, x) == IF o = {} THEN <<>> ELSE <<x>>

\* Event::into_stream(), from the field at hand on
FromData(e) == Opt(e.data, Many(<<"d", "a">>, Of(e.data))) \o <<Raw(<<>>)>>
FromEvent(e) == Opt(e.event, One(<<"e", "v">>, Of(e.event))) \o FromData(e)
FromId(e) == Opt(e.id, One(<<"i", "d">>, Of(e.id))) \o FromEvent(e)
FromRetry(e) == Opt(e.retry, One(<<"r", "e">>, Of(e.retry))) \o FromId(e)
IntoStream(e) == Opt(e.comment, Many(<<>>, Of(e.comment))) \o FromRetry(e)

-----------------------------------------------------------------------------
(* The client                                                              *)

NewClient == [text |-> <<>>, cr |-> FALSE, fields |-> <<>>, events |-> <<>>]

\* colon [ space ] *any-char: one space at the start of a value is not part of it.
Unpadded(t) == IF t # <<>> /\ t[1] = "space" THEN Tail(t) ELSE t

\* The name of a field, and its value
Field(t) ==
    LET k == CHOOSE i \in 1 .. Len(t) + 1 : (i = Len(t) + 1 \/ t[i] = ":")
                                            /\ \A j \in 1 .. i - 1 : t[j] # ":"
    IN <<SubSeq(t, 1, k - 1), Unpadded(SubSeq(t, k + 1, Len(t)))>>

\* A line has ended: a blank one completes an event, a comment is skipped.
EndOfLine(c) ==
    IF c.text = <<>>
    THEN [c EXCEPT !.events = IF c.fields = <<>> THEN @ ELSE Append(@, c.fields),
                   !.fields = <<>>]
    ELSE [c EXCEPT !.fields = IF c.text[1] = ":" THEN @ ELSE Append(@, Field(c.text)),
                   !.text = <<>>]

Receive(c, x) ==
    CASE x = "lf" /\ c.cr -> [c EXCEPT !.cr = FALSE]
      [] x \in Newline /\ ~(x = "lf" /\ c.cr) -> [EndOfLine(c) EXCEPT !.cr = (x = "cr")]
      [] OTHER -> [c EXCEPT !.text = Append(@, x), !.cr = FALSE]

-----------------------------------------------------------------------------
(* The application, the clock, and the task that polls the body            *)

StreamInit ==
    /\ script \in Scripts /\ sent = 0 /\ closed = FALSE
    /\ due = FALSE
    /\ inner = <<>> /\ taken = 0 /\ b \in {"ticks", "empty"} /\ done = FALSE
    /\ reader = "Pending" /\ line = NoLine
    /\ room = 0 /\ read = FALSE /\ task = "ready" /\ waits = {}
    /\ client = NewClient

Wake(what) ==
    IF task = "asleep" /\ what \in waits
    THEN task' = "ready" /\ waits' = {} ELSE UNCHANGED <<task, waits>>

Yield ==
    /\ sent < Len(script) /\ sent' = sent + 1
    /\ Wake("a")
    /\ UNCHANGED <<script, closed, due, join, reader, line, room, read, client>>

Close ==
    /\ sent = Len(script) /\ ~closed /\ closed' = TRUE
    /\ Wake("a")
    /\ UNCHANGED <<script, sent, due, join, reader, line, room, read, client>>

Tick ==
    /\ b = "ticks" /\ ~due /\ task # "ended"
    /\ due' = TRUE /\ Wake("b")
    /\ UNCHANGED <<app, join, reader, line, room, read, client>>

Poll(n) ==
    /\ task = "ready" /\ task' = "polling"
    /\ room' = n /\ read' = FALSE
    /\ UNCHANGED <<app, due, join, reader, line, waits, client>>

-----------------------------------------------------------------------------
(* Join::poll_next, called by ReaderStream in state Pending                *)

Polling(st) == task = "polling" /\ reader = st
AReady == inner # <<>> \/ taken < sent \/ closed
ReadFrom(l) == reader' = "Reading" /\ line' = l /\ read' = FALSE
Sleep(on) == task' = "asleep" /\ waits' = on

\* `a` has a line: of the event at hand, or the first of the next one.
NextOfA ==
    /\ Polling("Pending") /\ ~done /\ (inner # <<>> \/ taken < sent)
    /\ LET lines == IF inner # <<>> THEN inner ELSE IntoStream(script[taken + 1])
       IN ReadFrom(Head(lines)) /\ inner' = Tail(lines)
    /\ taken' = IF inner # <<>> THEN taken ELSE taken + 1
    /\ UNCHANGED <<app, due, b, done, room, task, waits, client>>

\* `a` is at its end, and so is the joined stream, whatever `b` has.
AEnds ==
    /\ Polling("Pending") /\ (done \/ (inner = <<>> /\ taken = sent /\ closed))
    /\ done' = TRUE /\ reader' = "Done"
    /\ UNCHANGED <<app, due, inner, taken, b, line, poll, client>>

\* Mutant: the heartbeat is looked at first.
HeartbeatFirst ==
    /\ Polling("Pending") /\ ~done
    /\ b = "ticks" /\ due
    /\ due' = FALSE /\ ReadFrom(Raw(<<":">>))
    /\ UNCHANGED <<app, join, room, task, waits, client>>

\* `a` is pending and a tick is due.
Heartbeat ==
    /\ Polling("Pending") /\ ~done /\ ~AReady
    /\ b = "ticks" /\ due
    /\ due' = FALSE /\ ReadFrom(Raw(<<":">>))
    /\ UNCHANGED <<app, join, room, task, waits, client>>

\* Both are pending, or `b` turns out to have ended and is dropped.
BothPending ==
    /\ Polling("Pending") /\ ~done /\ ~AReady
    /\ ~(b = "ticks" /\ due)
    /\ b' = IF b = "empty" THEN "None" ELSE b
    /\ Sleep(IF b = "ticks" THEN {"a", "b"} ELSE {"a"})
    /\ UNCHANGED <<app, due, inner, taken, done, reader, line, room, read, client>>

-----------------------------------------------------------------------------
(* RawLinedEvent::poll_read, called by ReaderStream in state Reading.  The *)
(* copies are taken byte by byte.                                          *)

Put(x) ==
    /\ room > 0 /\ room' = room - 1 /\ read' = TRUE
    /\ client' = Receive(client, x)

In(st) == Polling("Reading") /\ room > 0 /\ line.st = st
Keep == UNCHANGED <<app, due, join, reader, task, waits>>

ReadName ==
    /\ In("Name") /\ Keep
    /\ IF line.npos < Len(line.name)
       THEN Put(line.name[line.npos + 1]) ELSE UNCHANGED <<room, read, client>>
    /\ line' = IF line.npos + 1 >= Len(line.name)
               THEN [line EXCEPT !.npos = 0, !.st = "Colon"]
               ELSE [line EXCEPT !.npos = @ + 1]

ReadColon ==
    /\ In("Colon") /\ Keep
    /\ Put(":") /\ line' = [line EXCEPT !.st = "Value"]

ReadValue ==
    /\ In("Value") /\ Keep
    /\ IF line.limit > 0
       THEN /\ Put(line.value[line.pos + 1])
            /\ line' = [line EXCEPT !.pos = @ + 1, !.limit = @ - 1,
                                    !.st = IF line.limit = 1 THEN "NewLine" ELSE @]
       ELSE line' = [line EXCEPT !.st = "NewLine"] /\ UNCHANGED <<room, read, client>>

ReadNewLine ==
    /\ In("NewLine") /\ Keep
    /\ Put("lf")
    /\ line' = IF line.pos < Len(line.value)
               THEN LET q == Skip(line.value, line.pos)
                    IN [line EXCEPT !.pos = q, !.limit = Advance(line.value, q), !.st = "Name"]
               ELSE [line EXCEPT !.st = "Done"]

\* The line's poll_read returns.  If it has read nothing the reader is dropped and
\* the loop goes on, otherwise the poll is over.
PollReturns ==
    /\ Polling("Reading") /\ (room = 0 \/ line.st = "Done")
    /\ \/ read /\ task' = "ready" /\ UNCHANGED reader
       \/ ~read /\ reader' = "Pending" /\ UNCHANGED task
    /\ UNCHANGED <<app, due, join, line, room, read, waits, client>>

\* State::Done: nothing is read, which the caller takes for the end.
Ends ==
    /\ Polling("Done") /\ task' = "ended"
    /\ UNCHANGED <<app, due, join, reader, line, room, read, waits, client>>

StreamServer ==
    \/ NextOfA \/ AEnds \/ Heartbeat \/ BothPending
    \/ ReadName \/ ReadColon \/ ReadValue \/ ReadNewLine
    \/ PollReturns \/ Ends
    \/ \E n \in 1 .. MaxRead : Poll(n)

StreamNext == Yield \/ Close \/ Tick \/ StreamServer

StreamSpec == StreamInit /\ [][StreamNext]_streams /\ WF_streams(StreamServer)

-----------------------------------------------------------------------------
(* Properties                                                              *)

\* The lines of a text, with CR, LF and CR LF as their ends: those that have ended
\* before its i-th character and the one that it is in
BreakAt(v, i, before) ==
    IF v[i] \notin Newline THEN [ended |-> before.ended, last |-> Append(before.last, v[i])]
    ELSE IF v[i] = "lf" /\ i > 1 /\ v[i - 1] = "cr" THEN before
    ELSE [ended |-> Append(before.ended, before.last), last |-> <<>>]
Breaks(v) ==
    LET f[i \in 0 .. Len(v)] ==
            IF i = 0 THEN [ended |-> <<>>, last |-> <<>>] ELSE BreakAt(v, i, f[i - 1])
    IN f
Lines(v) == Append(Breaks(v)[Len(v)].ended, Breaks(v)[Len(v)].last)

\* What a client makes of an event: its fields, in order.  RawLinedEvent puts nothing
\* between the colon and the value, so a line that starts with a space loses it.
Named(n, ls) == [i \in DOMAIN ls |-> <<n, Unpadded(ls[i])>>]
ToRetry(e) == Opt(e.retry, <<<<"r", "e">>, Unpadded(Farm(Of(e.retry)))>>)
ToId(e) == ToRetry(e) \o Opt(e.id, <<<<"i", "d">>, Unpadded(Farm(Of(e.id)))>>)
ToEvent(e) == ToId(e) \o Opt(e.event, <<<<"e", "v">>, Unpadded(Farm(Of(e.event)))>>)
Meaning(e) ==
    ToEvent(e) \o IF e.data = {} THEN <<>> ELSE Named(<<"d", "a">>, Lines(Of(e.data)))

\* And of the first i events of a script: an event without a field is no event.
Tell(e, told) == IF Meaning(e) = <<>> THEN told ELSE Append(told, Meaning(e))
Told(s) ==
    LET f[i \in 0 .. Len(s)] == IF i = 0 THEN <<>> ELSE Tell(s[i], f[i - 1])
    IN f
Expected == Told(script)[Len(script)]

\* The client understands the events of the application, in order and unbroken: no
\* heartbeat, end of a buffer or newline inside a text splits, joins or drops a line,
\* and of the text of a line nothing but one space at its start is lost
\* (RawLinedEvent, ReaderStream and Join together).  At the end it has all of them.
ClientUnderstands ==
    /\ \E k \in 0 .. Len(Expected) : client.events = SubSeq(Expected, 1, k)
    /\ task = "ended" =>
          client.events = Expected /\ client.fields = <<>> /\ client.text = <<>>

\* An event with nothing but data, in which LF is the only end of a line
LfMessage(e) ==
    /\ e.comment = {} /\ e.retry = {} /\ e.id = {} /\ e.event = {} /\ e.data # {}
    /\ \A i \in DOMAIN Of(e.data) : Of(e.data)[i] # "cr"

\* `For messages that only contain new lines \n, the conversion is lossless`
\* (sse.rs:465): the client has the lines of the data as the application gave them,
\* from which it puts the message together.  It does not hold: see Unpadded.
LfIsLossless ==
    task = "ended" /\ (\A i \in DOMAIN script : LfMessage(script[i])) =>
        client.events = [i \in DOMAIN script |->
                           LET lines == Lines(Of(script[i].data))
                           IN [j \in DOMAIN lines |-> <<<<"d", "a">>, lines[j]>>]]

\* When the application's stream ends the response does, however often a heartbeat
\* is due meanwhile: `a` comes first.
StreamEnds == closed ~> task = "ended"

\* A heartbeat that is due is sent once the application is silent, or the stream
\* ends: the task is never asleep without the timer that would wake it.
HeartbeatsAreSent == due ~> ~due \/ task = "ended"

\* Both: Join neither starves the end of the events nor forgets the timer.
StreamIsLive == StreamEnds /\ HeartbeatsAreSent

-----------------------------------------------------------------------------
(* The inductive invariant behind ClientUnderstands                        *)

Names == {<<>>, <<"r", "e">>, <<"i", "d">>, <<"e", "v">>, <<"d", "a">>}
Fields == Seq(Text \X Text)
ALine == [name : Names, npos : Nat, value : Text, pos : Nat, limit : Nat,
          st : {"Name", "Colon", "Value", "NewLine", "Done"}]
AClient == [text : Text, cr : {FALSE}, fields : Fields, events : Seq(Fields)]

\* The types of the stream.
StreamTypeOK ==
    /\ script \in Seq(AnEvent) /\ sent \in 0 .. Len(script) /\ taken \in 0 .. sent
    /\ closed \in BOOLEAN /\ due \in BOOLEAN /\ done \in BOOLEAN
    /\ b \in {"ticks", "empty", "None"} /\ waits \subseteq {"a", "b"}
    /\ room \in Nat /\ read \in BOOLEAN
    /\ task \in {"ready", "polling", "asleep", "ended"}
    /\ reader \in {"Pending", "Reading", "Done"}
    /\ line \in ALine /\ client \in AClient

\* The lines `rest` of event e are left, and the others mean `fields`.
AtStage(e, rest, fields) ==
    \/ rest = IntoStream(e) /\ fields = <<>>
    \/ rest = FromRetry(e) /\ fields = <<>>
    \/ rest = FromId(e) /\ fields = ToRetry(e)
    \/ rest = FromEvent(e) /\ fields = ToId(e)
    \/ rest = FromData(e) /\ fields = ToEvent(e)
    \/ rest = <<Raw(<<>>)>> /\ fields = Meaning(e)

\* No line is being read: nothing of one is left with the client.
BetweenLines ==
    /\ client.text = <<>>
    /\ \/ inner = <<>> /\ client.fields = <<>> /\ client.events = Told(script)[taken]
       \/ /\ taken > 0 /\ AtStage(script[taken], inner, client.fields)
          /\ client.events = Told(script)[taken - 1]

\* The limit is the end of a line, and the cursor is not between CR and LF.
TakesALine(l) ==
    /\ l.pos + l.limit <= Len(l.value)
    /\ \A i \in l.pos + 1 .. l.pos + l.limit : l.value[i] \notin Newline
    /\ l.pos + l.limit < Len(l.value) => l.value[l.pos + l.limit + 1] \in Newline
    /\ l.pos < Len(l.value) /\ l.value[l.pos + 1] = "lf" => l.pos = 0 \/ l.value[l.pos] # "cr"

\* A comment states nothing.
Stated(n, ls) == IF n = <<>> THEN <<>> ELSE Named(n, ls)

\* What the client has of the line in the value of the field l, up to the cursor
TextAt(l, last) ==
    CASE l.st = "Name" -> SubSeq(l.name, 1, l.npos)
      [] l.st = "Colon" -> l.name
      [] OTHER -> Append(l.name, ":") \o last

\* The client has the fields before the one that is being read, and the lines of it
\* that have ended.
HasFields(ended) ==
    LET e == script[taken]
    IN /\ taken > 0 /\ client.events = Told(script)[taken - 1]
       /\ \E before \in {<<>>, ToRetry(e), ToId(e), ToEvent(e)} :
             /\ AtStage(e, inner, before \o Stated(line.name, Lines(line.value)))
             /\ client.fields = before \o Stated(line.name, ended)

\* A line of a field is being read.
InField ==
    LET here == Breaks(line.value)[line.pos]
    IN /\ HasFields(here.ended)
       /\ client.text = TextAt(line, here.last)
       /\ TakesALine(line)
       /\ line.npos = 0 \/ (line.st = "Name" /\ line.npos < Len(line.name))
       /\ line.st \in {"Name", "Colon"} => here.last = <<>>
       /\ line.st = "NewLine" => line.limit = 0

\* The blank line is being read, which completes an event.
InBlank ==
    /\ inner = <<>> /\ taken > 0 /\ line.value = <<>> /\ line.pos = 0 /\ line.limit = 0
    /\ line.st \in {"Value", "NewLine"}
    /\ client.text = <<>> /\ client.fields = Meaning(script[taken])
    /\ client.events = Told(script)[taken - 1]

\* A heartbeat is being read, which comes between events.
InHeartbeat ==
    /\ inner = <<>> /\ line.value = <<":">> /\ line.pos + line.limit = 1
    /\ line.st = "Value" \/ (line.st = "NewLine" /\ line.pos = 1)
    /\ client.text = SubSeq(line.value, 1, line.pos) /\ client.fields = <<>>
    /\ client.events = Told(script)[taken]

\* A poll that has read nothing has room, and the end is the end of the events.
PollsAreSound ==
    /\ task = "polling" => (reader = "Pending" => ~read) /\ (~read => room > 0)
    /\ closed => sent = Len(script)
    /\ done => closed /\ inner = <<>> /\ taken = sent
    /\ reader = "Done" => done
    /\ task = "ended" => reader = "Done"

\* The client is where the reader is.
ClientFollows ==
    IF reader = "Reading" /\ line.st # "Done"
    THEN InField \/ InBlank \/ InHeartbeat ELSE BetweenLines

StreamInv == StreamTypeOK /\ PollsAreSound /\ ClientFollows
=============================================================================
