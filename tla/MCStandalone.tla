---------------------------- MODULE MCStandalone ----------------------------
(***************************************************************************)
(* Five parts that share nothing with each other, checked in one run: a    *)
(* behaviour picks one of them and is a behaviour of it, while the         *)
(* variables of the others stay at an initial value.                       *)
(***************************************************************************)
EXTENDS LocalCache, UnixListener, OriginCalls, TempFile, EventStream, TLC

CONSTANTS
    a, a_encoded                                \* texts, for OriginCalls

VARIABLE part

-----------------------------------------------------------------------------
\* Three texts: the empty one, a plain one, and one whose percent-decoding is the
\* plain one ("%61" and "a").
MCDecode(t) == IF t = a_encoded THEN a ELSE t

\* The texts are those of the tests in sse.rs, cut short, and one with a line that
\* starts with spaces.
MCChars == {"r", "e", "i", "d", "v", "a", ":", "space", "lf", "cr", "x"}
NoFields == [comment |-> {}, retry |-> {}, id |-> {}, event |-> {}, data |-> {}]
EventTexts == {<<>>, <<"x", "lf">>, <<"cr", "lf", "x">>, <<"lf", "cr">>, <<"x", "cr", "x">>,
               <<"x", "lf", "space", "space">>}
Events ==
    {[NoFields EXCEPT !.data = {t}] : t \in EventTexts}
    \cup {[NoFields EXCEPT !.id = {<<"cr", ":">>}, !.data = {<<"x">>}],
          [NoFields EXCEPT !.comment = {<<"x", "lf", "x">>}],
          [NoFields EXCEPT !.comment = {<<>>}, !.retry = {<<"x">>}, !.event = {<<"lf">>}]}
MCScripts == UNION {[1 .. n -> Events] : n \in 0 .. 2}

-----------------------------------------------------------------------------
Parts == {"cache", "uris", "files", "servers", "streams"}
Rest(p) == part # p

StandaloneInit ==
    /\ part \in Parts
    /\ Init
    /\ UriInit /\ (Rest("uris") => parsed = [path |-> <<Empty>>, query |-> NoQuery])
    /\ FileInit /\ (Rest("files") => link[CHOOSE p \in Dests : TRUE] = 2)
    /\ ServerInit
    /\ StreamInit /\ (Rest("streams") => script = <<>> /\ b = "empty")

StandaloneNext ==
    \/ /\ part = "cache" /\ Next
       /\ UNCHANGED <<part, uris, fileVars, serverVars, streams>>
    \/ /\ part = "uris" /\ UriNext
       /\ UNCHANGED <<part, vars, fileVars, serverVars, streams>>
    \/ /\ part = "files" /\ FileNext
       /\ UNCHANGED <<part, vars, uris, serverVars, streams>>
    \/ /\ part = "servers" /\ ServerNext
       /\ UNCHANGED <<part, vars, uris, fileVars, streams>>
    \/ /\ part = "streams" /\ StreamNext
       /\ UNCHANGED <<part, vars, uris, fileVars, serverVars>>

\* The fairness of UnixListener and of EventStream
StandaloneSpec ==
    /\ StandaloneInit
    /\ [][StandaloneNext]_<<part, vars, uris, fileVars, serverVars, streams>>
    /\ \A p \in Procs : WF_serverVars(part = "servers" /\ Step(p))
    /\ WF_streams(part = "streams" /\ StreamServer)

=============================================================================
