-------------------------- MODULE LifecycleProofs --------------------------
(***************************************************************************)
(* Proofs about Lifecycle for any routes, any tables of matching routes    *)
(* and any responses; and about Cookies for any requests of a client, any  *)
(* cookies and any operations on the jars.                                 *)
(***************************************************************************)
EXTENDS Lifecycle, Cookies, FiniteSetTheorems, SequenceTheorems, WellFoundedInduction, TLAPS

\* A response is not the absence of one.
LEMMA ResponsesAreResponses == NoResponse \notin Response
<1>1. ASSUME NEW x \in Response PROVE "status" \in DOMAIN x
  BY DEF Response
<1>2. "status" \notin DOMAIN NoResponse
  BY DEF NoResponse
<1> QED
  BY <1>1, <1>2

\* The handlers among the first n are finitely many.
LEMMA CallsType ==
    ASSUME NEW m, NEW n \in Nat
    PROVE  /\ IsFiniteSet({k \in 1..n : log[k].method = m})
           /\ Calls(m, n) \in Nat /\ Calls(m, n) <= n
<1>1. IsFiniteSet(1..n) /\ Cardinality(1..n) = n
  BY FS_Interval
<1>2. {k \in 1..n : log[k].method = m} \subseteq 1..n
  OBVIOUS
<1> QED
  BY <1>1, <1>2, FS_Subset, FS_CardinalityType DEF Calls

\* Before the first call
LEMMA NoCalls == ASSUME NEW m PROVE Calls(m, 0) = 0
<1>1. {k \in 1..0 : log[k].method = m} = {}
  OBVIOUS
<1> QED
  BY <1>1, FS_EmptySet DEF Calls

\* One more call counts for its own method and for no other.
LEMMA CallsAppend ==
    ASSUME HistoryOK, NEW c \in Call, log' = Append(log, c), NEW m
    PROVE  /\ \A n \in 0..Len(log) : Calls(m, n)' = Calls(m, n)
           /\ Calls(m, Len(log))' = Calls(m, Len(log)) + (IF c.method = m THEN 1 ELSE 0)
<1> DEFINE of(n) == {k \in 1..n : log[k].method = m}
<1>1. /\ Len(log) \in Nat /\ Len(log') = Len(log) + 1 /\ log'[Len(log) + 1] = c
      /\ \A k \in 1..Len(log) : log'[k] = log[k]
  BY DEF HistoryOK
<1>2. \A n \in 0..Len(log) : of(n)' = of(n)
  BY <1>1
<1>3. \A n \in 0..Len(log) : Calls(m, n)' = Calls(m, n)
  BY <1>2 DEF Calls
<1>4. CASE c.method = m
  <2>1. of(Len(log))' = of(Len(log)) \cup {Len(log) + 1}
    <3>1. 1..Len(log') = (1..Len(log)) \cup {Len(log) + 1}
      BY <1>1
    <3>2. \A k \in 1..Len(log) : log'[k].method = m <=> log[k].method = m
      BY <1>1
    <3>3. log'[Len(log) + 1].method = m
      BY <1>1, <1>4
    <3>4. of(Len(log))' = {k \in (1..Len(log)) \cup {Len(log) + 1} : log'[k].method = m}
      BY <3>1
    <3> QED
      BY <3>2, <3>3, <3>4
  <2>2. IsFiniteSet(of(Len(log)))
    BY <1>1, CallsType, Zenon
  <2>3. Len(log) + 1 \notin of(Len(log))
    BY <1>1
  <2>4. Cardinality(of(Len(log))') = Cardinality(of(Len(log))) + 1
    BY <2>1, <2>2, <2>3, FS_AddElement
  <2> QED
    BY <1>3, <1>4, <2>4 DEF Calls
<1>5. CASE c.method # m
  <2>1. of(Len(log))' = of(Len(log))
    BY <1>1, <1>5
  <2>2. Calls(m, Len(log)) \in Nat
    BY <1>1, CallsType
  <2> QED
    BY <1>3, <1>5, <2>1, <2>2 DEF Calls
<1> QED BY <1>4, <1>5
\* A step that calls no handler changes no count.
LEMMA CallsSame ==
    ASSUME UNCHANGED <<log, table>>
    PROVE  (\A m, n : Calls(m, n)' = Calls(m, n)) /\ (\A m : Tried(m)' = Tried(m))
BY DEF Calls, Tried

\* A request arrives.
LEMMA InitIInv == Init => IInv
<1> SUFFICES ASSUME Init PROVE IInv
  OBVIOUS
<1>1. TypeOK
  <2>1. /\ pc = "preprocess" /\ resp = NoResponse /\ was_head = FALSE /\ status = 404
        /\ method \in Methods /\ todo = <<>> /\ jar = {}
    BY DEF Init
  <2> QED
    <3>1. todo \in Seq(Routes) /\ jar \subseteq Owners /\ status \in Nat
      BY <2>1
    <3>2. resp \in Response \cup {NoResponse}
      BY <2>1
    <3>3. pc \in {"finish", "response", "strip", "upgrade", "sent"} <=> resp # NoResponse
      BY <2>1
    <3>4. was_head \in BOOLEAN
      BY <2>1
    <3> QED
      BY <2>1, <3>1, <3>2, <3>3, <3>4 DEF TypeOK
<1>2. RequestOK /\ HistoryOK
  BY DEF Init, RequestOK, HistoryOK
<1>3. RouteInv /\ PassInv /\ ErrorInv
  BY DEF Init, RouteInv, PassInv, ErrorInv, Idle
<1>4. CatchInv /\ ResponseInv
  BY DEF Init, CatchInv, CatcherChain, ResponseInv, NoRouteCookiesInErrors, FramedUnlessRenamed, Idle
<1> QED
  BY <1>1, <1>2, <1>3, <1>4 DEF IInv

\* preprocess() and the beginning of dispatch(): nothing has been tried yet.
LEMMA ArrivalKeeps ==
    ASSUME IInv,
           \/ \E m \in Methods : Preprocess(m)
           \/ \E m \in Methods, cookies \in BOOLEAN : RequestFairings(m, cookies)
           \/ Dispatch
    PROVE  IInv'
<1>1. /\ pc \in {"preprocess", "fairings", "dispatch"} /\ UNCHANGED <<request, resp, log, caught>>
      /\ method' \in Methods /\ was_head' \in BOOLEAN
  BY DEF Preprocess, RequestFairings, Dispatch, IInv, TypeOK
<1>2. log = <<>> /\ caught = <<>> /\ resp = NoResponse
  BY <1>1 DEF IInv, RouteInv, CatchInv, TypeOK, Idle, Final
<1>3. \/ pc' = "fairings" /\ UNCHANGED <<todo, status, jar>>
      \/ /\ pc' = IF malformed THEN "error" ELSE "dispatch"
         /\ status' = IF malformed THEN 400 ELSE status
         /\ jar' \subseteq Owners /\ todo' = todo
      \/ /\ pc = "dispatch" /\ pc' = "route" /\ todo' = table[method] /\ status' = 404
         /\ jar' = jar /\ was_head' = (method = "HEAD") /\ method' = method
  BY DEF Preprocess, RequestFairings, Dispatch, Pending, Owners, IInv, TypeOK
<1>4. table[method] \in Seq(Routes)
  BY TablesAssumption DEF IInv, RequestOK, TypeOK, Methods
<1>5. TypeOK'
  BY <1>1, <1>2, <1>3, <1>4 DEF IInv, TypeOK, Final
<1>6. RequestOK' /\ HistoryOK'
  BY <1>1 DEF IInv, RequestOK, HistoryOK, request
<1>7. \A m \in Methods : Calls(m, Len(log))' = 0
  BY <1>1, <1>2, NoCalls, CallsSame DEF request
<1>8. RouteInv'
  <2>1. log' = <<>> /\ DOMAIN log' = {} /\ Len(log') = 0
    BY <1>1, <1>2
  <2>2. pc' \in {"dispatch", "route"} => ~malformed'
    BY <1>1, <1>3 DEF IInv, RouteInv, request
  <2>3. ASSUME pc' = "route" PROVE todo' = table'[method'] /\ Calls(method, Len(log))' = 0
    BY <1>1, <1>3, <1>7, <2>3 DEF request
  <2>4. pc' = "route" => todo' \in Seq(Routes)
    BY <1>5 DEF TypeOK
  <2> QED
    BY <2>1, <2>2, <2>3, <2>4 DEF RouteInv
<1>9. PassInv'
  <2>1. ASSUME pc' \notin Idle, ~malformed'
        PROVE  pc' = "route" /\ was_head' = (method' = "HEAD")
    BY <1>1, <1>3, <2>1 DEF Idle, request
  <2>2. DOMAIN log' = {}
    BY <1>1, <1>2
  <2> QED
    BY <2>1, <2>2 DEF PassInv
<1>10. ErrorInv'
  <2>1. log' = <<>> /\ caught' = <<>> /\ malformed' = malformed
    BY <1>1, <1>2 DEF request
  <2>2. pc' \in {"route", "error"} => status' = FirstStatus'
    BY <1>3, <2>1 DEF FirstStatus, IInv, RouteInv
  <2>3. pc' = "error" => malformed'
    BY <1>3, <2>1
  <2>4. pc' # "catch"
    BY <1>3
  <2> QED
    BY <2>1, <2>2, <2>3, <2>4 DEF ErrorInv
<1>11. CatchInv' /\ ResponseInv'
  BY <1>1, <1>2, <1>3 DEF CatchInv, CatcherChain, ResponseInv, NoRouteCookiesInErrors,
     FramedUnlessRenamed
<1> QED
  BY <1>5, <1>6, <1>8, <1>9, <1>10, <1>11 DEF IInv

\* The task is dropped: by a panic of a fairing, or with its connection.
LEMMA DroppedKeeps == ASSUME IInv, Panic \/ Disconnect PROVE IInv'
<1>1. Dropped
  BY DEF Panic, Disconnect
<1>2. TypeOK' /\ RequestOK' /\ HistoryOK'
  BY <1>1 DEF IInv, Dropped, TypeOK, RequestOK, HistoryOK, request, Final
<1>3. RouteInv' /\ PassInv' /\ ErrorInv'
  BY <1>1 DEF Dropped, RouteInv, PassInv, ErrorInv, Idle
<1>4. CatchInv' /\ ResponseInv'
  BY <1>1 DEF Dropped, CatchInv, CatcherChain, ResponseInv, NoRouteCookiesInErrors, FramedUnlessRenamed
<1> QED
  BY <1>2, <1>3, <1>4 DEF IInv

\* What route() did is history once it is over.
LEMMA RoutingIsOver ==
    ASSUME IInv, UNCHANGED <<request, method, was_head, log>>,
           pc \notin Idle, pc' \notin Idle \cup {"route"}
    PROVE  RouteInv' /\ PassInv' /\ HistoryOK' = (HistoryOK /\ caught' \in Seq(Catch))
           /\ RequestOK' /\ FirstStatus' = FirstStatus /\ \A m : Tried(m)' = Tried(m)
<1>1. malformed' = malformed /\ table' = table /\ log' = log
  BY DEF request
<1>2. (\A m, n : Calls(m, n)' = Calls(m, n)) /\ (\A m : Tried(m)' = Tried(m))
  BY <1>1, CallsSame
<1>3. RouteInv'
  BY <1>1, <1>2 DEF IInv, RouteInv, Idle
<1>4. PassInv'
  BY <1>1, <1>2 DEF IInv, PassInv
<1>5. RequestOK'
  BY DEF IInv, RequestOK, request
<1>6. FirstStatus' = FirstStatus
  BY <1>1 DEF FirstStatus
<1> QED
  BY <1>1, <1>2, <1>3, <1>4, <1>5, <1>6 DEF IInv, HistoryOK

\* Every route has forwarded, and the method is not (or no longer) HEAD.
LEMMA ExhaustedKeeps == ASSUME IInv, Exhausted PROVE IInv'
<1>1. /\ pc = "route" /\ todo = <<>> /\ method # "HEAD" /\ pc' = "error"
      /\ UNCHANGED <<request, method, was_head, todo, status, jar, resp, log, caught>>
  BY DEF Exhausted
<1>2. /\ RouteInv' /\ PassInv' /\ HistoryOK' /\ RequestOK' /\ FirstStatus' = FirstStatus
      /\ \A m : Tried(m)' = Tried(m)
  BY <1>1, RoutingIsOver DEF IInv, HistoryOK, Idle
<1>3. TypeOK'
  BY <1>1 DEF IInv, TypeOK, Final
<1>4. Tried(method)
  <2>1. Calls(method, Len(log)) + 0 = Len(table[method])
    BY <1>1 DEF IInv, RouteInv
  <2>2. Calls(method, Len(log)) \in Nat
    <3>1. Len(log) \in Nat
      BY DEF IInv, HistoryOK
    <3> QED BY <3>1, CallsType, Zenon
  <2> QED
    BY <2>1, <2>2 DEF Tried
<1>5. ErrorInv'
  BY <1>1, <1>2, <1>4 DEF IInv, ErrorInv
<1>6. resp = NoResponse
  BY <1>1 DEF IInv, TypeOK, Final
<1>7. CatchInv' /\ ResponseInv'
  BY <1>1, <1>6 DEF IInv, CatchInv, CatcherChain, CatcherFor, ResponseInv, NoRouteCookiesInErrors,
     FramedUnlessRenamed, request
<1> QED
  BY <1>2, <1>3, <1>5, <1>7 DEF IInv

\* dispatch_error() forgets what routes and fairings did to the jar.
LEMMA ResetKeeps == ASSUME IInv, ResetDelta PROVE IInv'
<1>1. /\ pc = "error" /\ pc' = "catch" /\ jar' = {}
      /\ UNCHANGED <<request, method, was_head, todo, status, resp, log, caught>>
  BY DEF ResetDelta
<1>2. /\ RouteInv' /\ PassInv' /\ HistoryOK' /\ RequestOK' /\ FirstStatus' = FirstStatus
      /\ \A m : Tried(m)' = Tried(m)
  BY <1>1, RoutingIsOver DEF IInv, HistoryOK, Idle
<1>3. TypeOK' /\ resp = NoResponse
  BY <1>1 DEF IInv, TypeOK, Final
<1>4. ErrorInv'
  BY <1>1, <1>2 DEF IInv, ErrorInv, request
<1>5. CatchInv' /\ ResponseInv'
  BY <1>1, <1>3 DEF IInv, CatchInv, CatcherChain, CatcherFor, ResponseInv, NoRouteCookiesInErrors,
     FramedUnlessRenamed, request
<1> QED
  BY <1>2, <1>3, <1>4, <1>5 DEF IInv

\* The end of dispatch() and of service(): the response is completed.
LEMMA CompletionKeeps ==
    ASSUME IInv, TakeDelta \/ ResponseFairings \/ StripBody \/ Send
    PROVE  IInv'
<1>1. /\ pc \in {"finish", "response", "strip", "upgrade"}
      /\ pc' \in {"response", "strip", "upgrade", "sent"}
      /\ UNCHANGED <<request, method, was_head, todo, status, log, caught>>
  BY DEF TakeDelta, ResponseFairings, StripBody, Send
<1>2. /\ RouteInv' /\ PassInv' /\ HistoryOK' /\ RequestOK' /\ FirstStatus' = FirstStatus
      /\ \A m : Tried(m)' = Tried(m)
  BY <1>1, RoutingIsOver DEF IInv, HistoryOK, Idle
<1>3. resp \in Response /\ resp # NoResponse
  BY <1>1 DEF IInv, TypeOK
<1>4. /\ resp' \in Response /\ resp'.by = resp.by /\ jar' \subseteq Owners
      /\ \A c \in resp'.cookies : c \in resp.cookies \/ (pc = "finish" /\ c \in jar)
  <2>1. CASE TakeDelta
    BY <1>3, <2>1 DEF TakeDelta, Response, IInv, TypeOK
  <2>2. CASE ResponseFairings
    <3>1. PICK s \in {resp.status, 204}, body \in {resp.body, "empty"} :
              resp' = [resp EXCEPT !.status = s, !.body = body]
      BY <2>2 DEF ResponseFairings
    <3>2. s \in Nat /\ body \in Bodies
      BY <1>3 DEF Response, Bodies
    <3>3. jar' = jar
      BY <2>2 DEF ResponseFairings
    <3> QED
      BY <1>3, <3>1, <3>2, <3>3 DEF Response, IInv, TypeOK
  <2>3. CASE StripBody
    <3>1. PICK body, length : resp' = [resp EXCEPT !.body = body, !.length = length]
                              /\ body \in Bodies /\ length \in {"unset", "zero", "size"}
      <4> DEFINE stripped == IF was_head \/ resp.status = 304 THEN Stripped(resp.body) ELSE resp.body
                 b == IF resp.status = 204 THEN "unsized_none" ELSE stripped
      <4>1. resp.body \in Bodies
        BY <1>3 DEF Response
      <4>2. Stripped(resp.body) \in Bodies
        BY DEF Stripped, Bodies
      <4>3. b \in Bodies /\ LengthOf(b) \in {"unset", "zero", "size"}
        BY <4>1, <4>2 DEF Bodies, LengthOf
      <4>4. resp' = [resp EXCEPT !.body = b, !.length = LengthOf(b)]
        BY <2>3 DEF StripBody
      <4> HIDE DEF b
      <4> QED BY <4>3, <4>4
    <3>2. jar' = jar
      BY <2>3 DEF StripBody
    <3> QED
      BY <1>3, <3>1, <3>2 DEF Response, IInv, TypeOK
  <2>4. CASE Send
    <3>1. PICK s \in Nat : resp' = [resp EXCEPT !.status = s]
      BY <1>3, <2>4 DEF Send, Response
    <3>2. jar' = jar
      BY <2>4 DEF Send
    <3> QED
      BY <1>3, <3>1, <3>2 DEF Response, IInv, TypeOK
  <2> QED BY <2>1, <2>2, <2>3, <2>4
<1>5. resp' # NoResponse
  BY <1>4, ResponsesAreResponses
<1>6. TypeOK'
  BY <1>1, <1>4, <1>5 DEF IInv, TypeOK, Final
<1>7. ErrorInv'
  BY <1>1, <1>2 DEF IInv, ErrorInv, request
<1>8. CatchInv'
  BY <1>1, <1>3, <1>4 DEF IInv, CatchInv, CatcherChain, CatcherFor, Idle, request
<1>9. NoRouteCookiesInErrors'
  BY <1>3, <1>4 DEF IInv, ResponseInv, NoRouteCookiesInErrors
<1>10. ASSUME pc' \in {"response", "strip"}
       PROVE  ~malformed' /\ resp'.body \in {"empty", "seekable", "unsized"}
  <2>1. CASE TakeDelta
    BY <1>3, <2>1 DEF TakeDelta, Response, IInv, ResponseInv, request
  <2>2. CASE ResponseFairings
    BY <1>3, <2>2 DEF ResponseFairings, Response, IInv, ResponseInv, request
  <2>3. CASE StripBody \/ Send
    BY <1>10, <2>3 DEF StripBody, Send
  <2> QED BY <2>1, <2>2, <2>3
<1>11. FramedUnlessRenamed'
  <2> SUFFICES ASSUME StripBody, was_head <=> wire = "HEAD" PROVE WellFramed'
    BY <1>1 DEF FramedUnlessRenamed, TakeDelta, ResponseFairings, Send, request
  <2> DEFINE stripped == IF was_head \/ resp.status = 304 THEN Stripped(resp.body) ELSE resp.body
             body == IF resp.status = 204 THEN "unsized_none" ELSE stripped
  <2>1. resp.body \in {"empty", "seekable", "unsized"}
    BY DEF StripBody, IInv, ResponseInv
  <2>2. /\ resp'.body = body /\ resp'.length = LengthOf(body) /\ resp'.status = resp.status
        /\ wire' = wire /\ was_head' = was_head
    BY <1>3 DEF StripBody, Response, request
  <2> QED
    BY <2>1, <2>2 DEF WellFramed, Readable, LengthOf, Stripped
<1>12. ResponseInv'
  BY <1>1, <1>3, <1>4, <1>9, <1>10, <1>11 DEF IInv, ResponseInv
<1> QED
  BY <1>2, <1>6, <1>7, <1>8, <1>12 DEF IInv

\* A registered catcher is an owner of cookies; the built-in one sets none.
LEMMA CatcherForType ==
    ASSUME IInv
    PROVE  /\ CatcherFor(status) \in {AnyStatus, 404, 500, Builtin}
           /\ CatcherFor(status) # Builtin => <<"catcher", CatcherFor(status)>> \in Owners
<1>1. catchers \subseteq {0, 404, 500} /\ status \in Nat
  BY DEF IInv, RequestOK, TypeOK, AnyStatus
<1>2. CatcherFor(status) \in {0, 404, 500, 1}
  BY <1>1 DEF CatcherFor, AnyStatus, Builtin
<1> QED
  BY <1>2 DEF Owners, AnyStatus, Builtin

\* The loop of dispatch_error(): a catcher runs, and answers or fails.
LEMMA CatcherKeeps ==
    ASSUME IInv, NEW cookies \in BOOLEAN, Catcher(cookies)
    PROVE  IInv'
<1> DEFINE owner == CatcherFor(status)
           answer(s, body, by) ==
             [status |-> s, body |-> body, by |-> <<"catcher", by>>, cookies |-> {},
              length |-> "unset", upgrade |-> FALSE]
           answered ==
             /\ caught' = Append(caught, [status |-> status, owner |-> owner, ok |-> TRUE])
             /\ pc' = AfterCatch /\ status' = status
             /\ \E body \in {"seekable", "unsized"} : resp' = answer(status, body, owner)
           failed ==
             /\ caught' = Append(caught, [status |-> status, owner |-> owner, ok |-> FALSE])
             /\ owner # Builtin
             /\ \/ status # 500 /\ status' = 500 /\ UNCHANGED <<pc, resp>>
                \/ /\ status = 500 /\ pc' = AfterCatch /\ status' = status
                   /\ resp' = answer(500, "seekable", Builtin)
<1>1. /\ pc = "catch" /\ resp = NoResponse
      /\ UNCHANGED <<request, method, was_head, todo, log>>
  BY DEF Catcher, CatcherSucceeds, CatcherFails, IInv, TypeOK, Final
<1>2. jar' = IF cookies THEN jar \cup {<<"catcher", owner>>} ELSE jar
  BY DEF Catcher, CatcherSucceeds, CatcherFails, Pending
<1>3. cookies => owner # Builtin
  BY DEF Catcher, CatcherSucceeds, CatcherFails
<1>4. answered \/ failed
  <2>1. CASE CatcherFails(cookies)
    <3>1. failed
      BY <2>1 DEF CatcherFails, NewResponse
    <3> QED BY <3>1
  <2>2. ASSUME NEW body \in {"seekable", "unsized"}, CatcherSucceeds(cookies, body)
        PROVE  answered
    BY <2>2 DEF CatcherSucceeds, NewResponse
  <2> QED
    BY <2>1, <2>2 DEF Catcher
<1>5. owner \in Nat /\ status \in Nat /\ caught \in Seq(Catch) /\ Len(caught) \in Nat
  BY CatcherForType DEF AnyStatus, Builtin, Catch, IInv, TypeOK, HistoryOK
<1> HIDE DEF owner
<1>6. PICK e \in Catch :
        /\ caught' = Append(caught, e) /\ e.status = status
        /\ failed => ~e.ok
  <2> DEFINE entry(ok) == [status |-> status, owner |-> owner, ok |-> ok]
  <2>1. entry(TRUE) \in Catch /\ entry(FALSE) \in Catch
    BY <1>5 DEF Catch
  <2>2. CASE failed
    <3>1. caught' = Append(caught, entry(FALSE)) /\ entry(FALSE).status = status
      BY <2>2
    <3>2. ~entry(FALSE).ok
      OBVIOUS
    <3> QED BY <2>1, <3>1, <3>2
  <2>3. CASE answered /\ ~failed
    <3>1. caught' = Append(caught, entry(TRUE)) /\ entry(TRUE).status = status
      BY <2>3
    <3> HIDE DEF answered, failed
    <3> QED BY <2>1, <2>3, <3>1
  <2> HIDE DEF answered, failed
  <2> QED BY <1>4, <2>2, <2>3
<1>7. /\ caught' \in Seq(Catch) /\ Len(caught') = Len(caught) + 1 /\ caught' # <<>>
      /\ Last(caught') = e /\ caught'[Len(caught) + 1] = e
      /\ \A k \in 1..Len(caught) : caught'[k] = caught[k]
  BY <1>5, <1>6 DEF Last
<1>8. pc' \in {"catch", "upgrade", "finish"} /\ (pc' = "finish" => ~malformed)
      /\ (pc' = "upgrade" => malformed)
  BY <1>1, <1>4 DEF AfterCatch
<1>9. /\ RouteInv' /\ PassInv' /\ HistoryOK' /\ RequestOK' /\ FirstStatus' = FirstStatus
      /\ \A m : Tried(m)' = Tried(m)
  BY <1>1, <1>7, <1>8, RoutingIsOver DEF IInv, HistoryOK, Idle
<1>10. /\ pc' = "catch" <=> resp' = NoResponse
       /\ pc' # "catch" => /\ resp' \in Response /\ resp'.by[1] = "catcher" /\ resp'.cookies = {}
                           /\ resp'.body \in {"seekable", "unsized"}
                           /\ \/ answered /\ resp'.by[2] = owner
                              \/ failed /\ status = 500
  <2>1. CASE pc' = "catch"
    BY <1>1, <1>4, <2>1 DEF AfterCatch
  <2>2. CASE pc' # "catch"
    <3>1. PICK s \in Nat, body \in {"seekable", "unsized"}, by \in Nat :
            /\ resp' = answer(s, body, by)
            /\ \/ answered /\ by = owner
               \/ failed /\ by = Builtin /\ status = 500
      <4>1. CASE answered
        <5>1. PICK body \in {"seekable", "unsized"} : resp' = answer(status, body, owner)
          BY <4>1
        <5> HIDE DEF answered, failed, answer
        <5> QED BY <1>5, <4>1, <5>1
      <4>2. CASE failed
        <5>1. status = 500 /\ resp' = answer(500, "seekable", Builtin) /\ Builtin \in Nat
          BY <1>1, <2>2, <4>2 DEF Builtin
        <5> HIDE DEF answered, failed, answer
        <5> QED BY <4>2, <5>1
      <4> QED BY <1>4, <4>1, <4>2
    <3> HIDE DEF answered, failed
    <3>2. <<"catcher", by>> \in Owners \cup {<<"catcher", Builtin>>}
      BY <3>1, CatcherForType DEF owner
    <3>3. resp' \in Response
      BY <3>1, <3>2 DEF Response, Bodies
    <3>4. resp' # NoResponse
      BY <3>3, ResponsesAreResponses
    <3>5. /\ resp'.by = <<"catcher", by>> /\ resp'.cookies = {} /\ resp'.body = body
      BY <3>1
    <3> QED
      BY <2>2, <3>1, <3>3, <3>4, <3>5
  <2> QED BY <2>1, <2>2
<1>11. TypeOK'
  <2>1. jar' \subseteq Owners
    BY <1>2, <1>3, CatcherForType DEF IInv, TypeOK, owner
  <2>2. status' \in Nat
    BY <1>4, <1>5
  <2> HIDE DEF answered, failed
  <2> QED
    BY <1>1, <1>8, <1>10, <2>1, <2>2 DEF IInv, TypeOK, Final
<1>12. caught'[1].status = FirstStatus
  <2>1. CASE caught = <<>>
    <3>1. status = FirstStatus
      BY <1>1, <2>1 DEF IInv, ErrorInv
    <3>2. caught'[1] = e
      BY <1>7, <2>1
    <3> QED BY <1>6, <3>1, <3>2
  <2>2. CASE caught # <<>>
    BY <1>5, <1>7, <2>2 DEF IInv, ErrorInv
  <2> QED BY <2>1, <2>2
<1>13. ErrorInv'
  <2> HIDE DEF answered, failed
  <2> QED
    BY <1>1, <1>7, <1>8, <1>9, <1>12 DEF IInv, ErrorInv, request
<1>14. CatchInv'
  <2>1. \/ caught = <<>>
        \/ Len(caught) = 1 /\ ~caught[1].ok /\ caught[1].status # 500 /\ status = 500
    BY <1>1 DEF IInv, CatchInv
  <2>2. Len(caught') <= 2
    BY <1>7, <2>1
  <2>3. Len(caught') = 2 =>
          ~caught'[1].ok /\ caught'[1].status # 500 /\ caught'[2].status = 500
    BY <1>5, <1>6, <1>7, <2>1
  <2>4. pc' = "catch" =>
          Len(caught') = 1 /\ ~caught'[1].ok /\ caught'[1].status # 500 /\ status' = 500
    <3>1. pc' = "catch" => failed /\ status # 500 /\ status' = 500
      BY <1>4 DEF AfterCatch
    <3> HIDE DEF answered, failed
    <3> QED
      BY <1>5, <1>6, <1>7, <2>1, <3>1
  <2> HIDE DEF answered, failed
  <2>5. resp' # NoResponse /\ resp'.by = <<"catcher", Builtin>> =>
          \/ CatcherFor(status) = Builtin
          \/ ~e.ok /\ status = 500
    BY <1>6, <1>10 DEF owner
  <2>6. Last(caught').status = status /\ Last(caught') = e
    BY <1>6, <1>7
  <2>7. CatcherFor(Last(caught).status)' = CatcherFor(status)
    BY <1>1, <2>6 DEF CatcherFor, request
  <2>8. CatcherChain'
    BY <2>2, <2>3, <2>5, <2>6, <2>7 DEF CatcherChain
  <2> QED
    BY <1>7, <1>8, <2>4, <2>8 DEF CatchInv, Idle
<1>15. ResponseInv'
  <2> HIDE DEF answered, failed
  <2>1. \A c \in jar' : c[1] = "catcher"
    BY <1>1, <1>2 DEF IInv, ResponseInv
  <2>2. FramedUnlessRenamed'
    BY <1>1, <1>8 DEF FramedUnlessRenamed, request
  <2> QED
    BY <1>1, <1>8, <1>10, <2>1, <2>2 DEF ResponseInv, NoRouteCookiesInErrors, request
<1> QED
  BY <1>9, <1>11, <1>13, <1>14, <1>15 DEF IInv
\* One turn of the loop of route(): the handler of the next route is called.
LEMMA HandlerKeeps ==
    ASSUME IInv, NEW cookies \in BOOLEAN, Handler(cookies)
    PROVE  IInv'
<1> DEFINE Outcome == [kind : {"success", "error", "panic", "forward"}, status : Nat]
           N == Calls(method, Len(log))
<1>1. /\ pc = "route" /\ todo # <<>> /\ todo \in Seq(Routes) /\ Head(todo) = todo[1]
      /\ Head(todo) \in Routes /\ Len(todo) \in Nat \ {0} /\ ~malformed /\ resp = NoResponse
      /\ caught = <<>> /\ UNCHANGED <<request, method, was_head, caught>>
      /\ jar' \subseteq Owners
  <2>1. /\ pc = "route" /\ todo # <<>> /\ UNCHANGED <<request, method, was_head, caught>>
        /\ jar' = Pending(<<"route", Head(todo)>>, cookies)
    BY DEF Handler, Succeed, Fail, HandlerPanics, Forward, Called
  <2>2. /\ todo \in Seq(Routes) /\ Head(todo) = todo[1] /\ Head(todo) \in Routes
        /\ Len(todo) \in Nat \ {0}
    BY <2>1 DEF IInv, TypeOK
  <2>3. jar' \subseteq Owners
    BY <2>1, <2>2 DEF Pending, Owners, IInv, TypeOK
  <2> QED
    BY <2>1, <2>2, <2>3 DEF IInv, RouteInv, CatchInv, TypeOK, Final
<1>2. PICK o \in Outcome :
        /\ log' = Append(log, [method |-> method, route |-> Head(todo), outcome |-> o])
        /\ \/ /\ o.kind = "success" /\ pc' = "finish" /\ UNCHANGED <<todo, status>>
              /\ \E r \in Responses :
                    resp' = NewResponse(r.status, r.body, <<"route", Head(todo)>>, r.upgrade)
           \/ /\ o.kind \in {"error", "panic"} /\ pc' = "error" /\ status' = o.status
              /\ UNCHANGED <<todo, resp>>
           \/ /\ o.kind = "forward" /\ pc' = pc /\ status' = o.status /\ todo' = Tail(todo)
              /\ resp' = resp
  <2>1. ASSUME NEW r \in Responses, Succeed(cookies, r)
        PROVE  /\ [kind |-> "success", status |-> r.status] \in Outcome
               /\ log' = Append(log, [method |-> method, route |-> Head(todo),
                                      outcome |-> [kind |-> "success", status |-> r.status]])
               /\ pc' = "finish" /\ UNCHANGED <<todo, status>>
               /\ resp' = NewResponse(r.status, r.body, <<"route", Head(todo)>>, r.upgrade)
    BY <2>1, ResponsesAssumption DEF Succeed, Called
  <2>2. ASSUME NEW s \in Forwards, Fail(cookies, s)
        PROVE  /\ [kind |-> "error", status |-> s] \in Outcome
               /\ log' = Append(log, [method |-> method, route |-> Head(todo),
                                      outcome |-> [kind |-> "error", status |-> s]])
               /\ pc' = "error" /\ status' = s /\ UNCHANGED <<todo, resp>>
    BY <2>2, ForwardsAssumption DEF Fail, Called
  <2>3. ASSUME NEW s \in Forwards, Forward(cookies, s)
        PROVE  /\ [kind |-> "forward", status |-> s] \in Outcome
               /\ log' = Append(log, [method |-> method, route |-> Head(todo),
                                      outcome |-> [kind |-> "forward", status |-> s]])
               /\ pc' = pc /\ status' = s /\ todo' = Tail(todo) /\ resp' = resp
    BY <2>3, ForwardsAssumption DEF Forward, Called
  <2>4. ASSUME HandlerPanics(cookies)
        PROVE  /\ [kind |-> "panic", status |-> 500] \in Outcome
               /\ log' = Append(log, [method |-> method, route |-> Head(todo),
                                      outcome |-> [kind |-> "panic", status |-> 500]])
               /\ pc' = "error" /\ status' = 500 /\ UNCHANGED <<todo, resp>>
    BY <2>4 DEF HandlerPanics, Called
  <2> HIDE DEF Outcome
  <2>5. CASE \E r \in Responses : Succeed(cookies, r)
    <3>1. PICK r \in Responses : Succeed(cookies, r)
      BY <2>5
    <3> DEFINE u == [kind |-> "success", status |-> r.status]
    <3>2. u.kind = "success"
      OBVIOUS
    <3> QED
      BY <2>1, <3>1, <3>2
  <2>6. CASE \E s \in Forwards : Fail(cookies, s)
    <3>1. PICK s \in Forwards : Fail(cookies, s)
      BY <2>6
    <3> DEFINE u == [kind |-> "error", status |-> s]
    <3>2. u.kind = "error" /\ u.status = s
      OBVIOUS
    <3> QED
      BY <2>2, <3>1, <3>2
  <2>7. CASE \E s \in Forwards : Forward(cookies, s)
    <3>1. PICK s \in Forwards : Forward(cookies, s)
      BY <2>7
    <3> DEFINE u == [kind |-> "forward", status |-> s]
    <3>2. u.kind = "forward" /\ u.status = s
      OBVIOUS
    <3> QED
      BY <2>3, <3>1, <3>2
  <2>8. CASE HandlerPanics(cookies)
    <3> DEFINE u == [kind |-> "panic", status |-> 500]
    <3>1. u.kind = "panic" /\ u.status = 500
      OBVIOUS
    <3> QED
      BY <2>4, <2>8, <3>1
  <2> QED
    BY <2>5, <2>6, <2>7, <2>8 DEF Handler
<1> DEFINE c == [method |-> method, route |-> Head(todo), outcome |-> o]
<1>3. c \in Call /\ c.method = method /\ c.route = Head(todo) /\ c.outcome = o
      /\ log' = Append(log, c)
  BY <1>1, <1>2 DEF Call, IInv, TypeOK
<1> HIDE DEF c, Outcome
<1>4. /\ log \in Seq(Call) /\ Len(log) \in Nat /\ log' \in Seq(Call) /\ Len(log') = Len(log) + 1
      /\ log'[Len(log) + 1] = c /\ Last(log') = c /\ log' # <<>>
      /\ \A k \in 1..Len(log) : log'[k] = log[k]
      /\ DOMAIN log = 1..Len(log) /\ DOMAIN log' = 1..(Len(log) + 1)
  BY <1>3 DEF IInv, HistoryOK, Last
<1>5. /\ \A m : \A n \in 0..Len(log) : Calls(m, n)' = Calls(m, n)
      /\ \A m : Calls(m, Len(log))' = Calls(m, Len(log)) + (IF method = m THEN 1 ELSE 0)
  BY <1>3, CallsAppend DEF IInv
<1>6. /\ N \in Nat /\ N + Len(todo) = Len(table[method])
      /\ \A i \in DOMAIN todo : todo[i] = table[method][N + i]
      /\ table[method] \in Seq(Routes) /\ method \in Methods
  <2>1. N \in Nat
    BY <1>4, CallsType, Zenon
  <2>2. table[method] \in Seq(Routes) /\ method \in Methods
    BY TablesAssumption DEF IInv, RequestOK, TypeOK, Methods
  <2>3. /\ N + Len(todo) = Len(table[method])
        /\ \A i \in DOMAIN todo : todo[i] = table[method][N + i]
    BY <1>1 DEF IInv, RouteInv
  <2> QED
    BY <2>1, <2>2, <2>3
<1>7. Calls(method, Len(log))' = N + 1 /\ table' = table /\ malformed' = malformed
  BY <1>1, <1>5 DEF request
<1>8. RouteInv'
  <2>1. /\ \A n \in 1..(Len(log') - 1) : log'[n].outcome.kind = "forward"
        /\ pc' = "route" => \A n \in DOMAIN log' : log'[n].outcome.kind = "forward"
    <3>1. \A n \in 1..Len(log) : log'[n].outcome.kind = "forward"
      BY <1>1, <1>4 DEF IInv, RouteInv
    <3>2. pc' = "route" => log'[Len(log) + 1].outcome.kind = "forward"
      BY <1>2, <1>3, <1>4
    <3>3. Len(log') - 1 = Len(log)
      BY <1>4
    <3> QED
      BY <1>4, <3>1, <3>2, <3>3
  <2>2. ASSUME NEW n \in DOMAIN log', NEW m, m = log'[n].method
        PROVE  Calls(m, n)' \in DOMAIN table[m] /\ log'[n].route = table[m][Calls(m, n)']
    <3>1. CASE n \in 1..Len(log)
      <4>1. Calls(m, n)' = Calls(m, n) /\ log'[n] = log[n] /\ n \in DOMAIN log
        BY <1>4, <1>5, <3>1
      <4>2. Calls(log[n].method, n) = Calls(m, n)
        BY <2>2, <4>1
      <4> QED
        BY <2>2, <4>1, <4>2 DEF IInv, RouteInv
    <3>2. CASE n = Len(log')
      <4>1. m = method /\ Calls(m, n)' = N + 1 /\ log'[n].route = todo[1]
        BY <1>1, <1>3, <1>4, <1>7, <2>2, <3>2
      <4>2. N + 1 \in DOMAIN table[m] /\ todo[1] = table[m][N + 1]
        BY <1>1, <1>6, <4>1
      <4> QED BY <4>1, <4>2
    <3> QED BY <1>4, <3>1, <3>2
  <2>3. ASSUME pc' = "route"
        PROVE  /\ N + 1 + Len(todo') = Len(table[method])
               /\ \A i \in DOMAIN todo' : todo'[i] = table[method][N + 1 + i]
    <3>1. todo' = Tail(todo)
      BY <1>1, <1>2, <2>3
    <3>2. /\ Len(todo') = Len(todo) - 1 /\ DOMAIN todo' = 1..(Len(todo) - 1)
          /\ \A i \in 1..(Len(todo) - 1) : todo'[i] = todo[i + 1] /\ i + 1 \in DOMAIN todo
      BY <1>1, <3>1
    <3>3. \A i \in 1..(Len(todo) - 1) : todo[i + 1] = table[method][N + (i + 1)]
      BY <1>6, <3>2
    <3>4. \A i \in 1..(Len(todo) - 1) : N + (i + 1) = N + 1 + i
      BY <1>1, <1>6
    <3>5. N + 1 + Len(todo') = Len(table[method])
      <4>1. N \in Nat /\ Len(todo) \in Nat /\ Len(todo') = Len(todo) - 1
            /\ N + Len(todo) = Len(table[method])
        BY <1>1, <1>6, <3>2
      <4> HIDE DEF N
      <4> QED BY <4>1
    <3> QED
      BY <3>2, <3>3, <3>4, <3>5
  <2> QED
    BY <1>1, <1>2, <1>7, <2>1, <2>2, <2>3 DEF RouteInv, Idle
<1>9. PassInv'
  <2>1. was_head /\ method = "GET" => Tried("HEAD")'
    BY <1>1, <1>5, <1>7 DEF IInv, PassInv, Idle, Tried
  <2>2. \A n \in DOMAIN log' : log'[n].method = method \/ (was_head /\ log'[n].method = "HEAD")
    BY <1>1, <1>3, <1>4 DEF IInv, PassInv, Idle
  <2> QED
    BY <1>1, <2>1, <2>2 DEF IInv, PassInv, Idle
<1>10. FirstStatus' = o.status
  BY <1>1, <1>3, <1>4, <1>7 DEF FirstStatus
<1>11. ErrorInv'
  <2>1. pc' \in {"route", "error"} => status' = o.status
    BY <1>1, <1>2
  <2>2. pc' = "error" => Last(log').outcome.kind # "forward"
    BY <1>1, <1>2, <1>3, <1>4
  <2>3. pc' # "catch" /\ caught' = <<>>
    BY <1>1, <1>2
  <2> QED
    BY <1>4, <1>10, <2>1, <2>2, <2>3 DEF ErrorInv
<1>12. CASE pc' = "finish"
  <2>1. PICK r \in Responses :
          resp' = NewResponse(r.status, r.body, <<"route", Head(todo)>>, r.upgrade)
    BY <1>1, <1>2, <1>12
  <2>2. /\ resp' \in Response /\ resp'.by = <<"route", Head(todo)>> /\ resp'.cookies = {}
        /\ resp'.body \in {"empty", "seekable", "unsized"}
    <3>1. r.status \in Nat /\ r.body \in {"empty", "seekable", "unsized"} /\ r.upgrade \in BOOLEAN
      BY ResponsesAssumption
    <3>2. <<"route", Head(todo)>> \in Owners
      BY <1>1 DEF Owners
    <3> QED
      BY <2>1, <3>1, <3>2 DEF NewResponse, Response, Bodies
  <2>3. resp' # NoResponse
    BY <2>2, ResponsesAreResponses
  <2>4. TypeOK'
    BY <1>1, <1>2, <1>12, <2>2, <2>3 DEF IInv, TypeOK, Final
  <2>5. CatchInv'
    BY <1>1, <1>12, <2>2 DEF CatchInv, CatcherChain, Idle
  <2>6. o.kind = "success"
    BY <1>1, <1>2, <1>12
  <2>7. ResponseInv'
    BY <1>1, <1>3, <1>4, <1>7, <1>12, <2>2, <2>6
       DEF ResponseInv, NoRouteCookiesInErrors, FramedUnlessRenamed
  <2>8. RequestOK' /\ HistoryOK'
    BY <1>1, <1>4 DEF IInv, RequestOK, HistoryOK, request
  <2> QED
    BY <1>8, <1>9, <1>11, <2>4, <2>5, <2>7, <2>8 DEF IInv
<1>13. CASE pc' # "finish"
  <2>1. /\ pc' \in {"route", "error"} /\ resp' = NoResponse
        /\ status' \in Nat /\ todo' \in Seq(Routes)
    <3>1. o.status \in Nat
      BY DEF Outcome
    <3>2. Tail(todo) \in Seq(Routes)
      BY <1>1
    <3> QED
      BY <1>1, <1>2, <1>13, <3>1, <3>2 DEF IInv, TypeOK
  <2>2. TypeOK'
    BY <1>1, <2>1 DEF IInv, TypeOK
  <2>3. CatchInv' /\ ResponseInv'
    BY <1>1, <2>1 DEF CatchInv, CatcherChain, ResponseInv, NoRouteCookiesInErrors, FramedUnlessRenamed
  <2>4. RequestOK' /\ HistoryOK'
    BY <1>1, <1>4 DEF IInv, RequestOK, HistoryOK, request
  <2> QED
    BY <1>8, <1>9, <1>11, <2>2, <2>3, <2>4 DEF IInv
<1> QED
  BY <1>12, <1>13

\* dispatch(): a HEAD that nobody handled is routed once more, as a GET.
LEMMA RerouteKeeps == ASSUME IInv, Reroute PROVE IInv'
<1>1. /\ pc = "route" /\ todo = <<>> /\ method = "HEAD" /\ pc' = pc
      /\ method' = "GET" /\ todo' = table["GET"] /\ status' = 404
      /\ UNCHANGED <<request, was_head, jar, resp, log, caught>>
  BY DEF Reroute
<1>2. /\ (\A m, n : Calls(m, n)' = Calls(m, n)) /\ (\A m : Tried(m)' = Tried(m))
      /\ malformed' = malformed /\ table' = table
  BY <1>1, CallsSame DEF request
<1>3. /\ was_head /\ ~malformed /\ \A n \in DOMAIN log : log[n].method = "HEAD"
      /\ log \in Seq(Call) /\ Len(log) \in Nat
  BY <1>1 DEF IInv, PassInv, RouteInv, HistoryOK, Idle
<1>4. table["GET"] \in Seq(Routes)
  BY TablesAssumption DEF IInv, RequestOK
<1>5. TypeOK' /\ resp = NoResponse
  BY <1>1, <1>4 DEF IInv, TypeOK, Methods, Final
<1>6. RequestOK' /\ HistoryOK'
  BY <1>1 DEF IInv, RequestOK, HistoryOK, request
<1>7. Calls("GET", Len(log)) = 0
  <2>1. {k \in 1..Len(log) : log[k].method = "GET"} = {}
    BY <1>3
  <2> QED
    BY <2>1, FS_EmptySet DEF Calls
<1>8. Tried("HEAD")
  <2>1. Calls("HEAD", Len(log)) + 0 = Len(table["HEAD"])
    BY <1>1 DEF IInv, RouteInv
  <2>2. Calls("HEAD", Len(log)) \in Nat
    BY <1>3, CallsType, Zenon
  <2> QED
    BY <2>1, <2>2 DEF Tried
<1>9. RouteInv'
  <2>1. Calls(method, Len(log))' = 0
    BY <1>1, <1>2, <1>7
  <2>2. todo' = table'[method'] /\ todo' \in Seq(Routes)
    BY <1>1, <1>2, <1>4
  <2>3. /\ Calls(method, Len(log))' + Len(todo') = Len(table'[method'])
        /\ \A i \in DOMAIN todo' : todo'[i] = table'[method'][Calls(method, Len(log))' + i]
    BY <2>1, <2>2
  <2> QED
    BY <1>1, <1>2, <1>3, <2>3 DEF IInv, RouteInv, Idle
<1>10. PassInv'
  BY <1>1, <1>2, <1>3, <1>8 DEF PassInv
<1>11. ErrorInv'
  <2>1. log # <<>> => Last(log).method = "HEAD"
    BY <1>3 DEF Last
  <2>2. FirstStatus' = 404
    BY <1>1, <1>2, <1>3, <2>1 DEF FirstStatus
  <2>3. caught' = <<>>
    BY <1>1 DEF IInv, CatchInv
  <2> QED
    BY <1>1, <2>2, <2>3 DEF ErrorInv
<1>12. CatchInv' /\ ResponseInv'
  BY <1>1, <1>5 DEF IInv, CatchInv, CatcherChain, ResponseInv, NoRouteCookiesInErrors,
     FramedUnlessRenamed
<1> QED
  BY <1>5, <1>6, <1>9, <1>10, <1>11, <1>12 DEF IInv

\* Every step of the request's task keeps the invariant.
LEMMA NextIInv == IInv /\ [Next]_vars => IInv'
<1> SUFFICES ASSUME IInv, [Next]_vars PROVE IInv'
  OBVIOUS
<1>1. CASE Step
  BY <1>1, ArrivalKeeps, RerouteKeeps, ExhaustedKeeps, ResetKeeps, CompletionKeeps, HandlerKeeps,
     CatcherKeeps DEF Step
<1>2. CASE Panic \/ Disconnect
  BY <1>2, DroppedKeeps
<1>3. CASE UNCHANGED vars
  <2>1. /\ UNCHANGED <<pc, request, method, was_head, todo, status, jar, resp, log, caught>>
        /\ malformed' = malformed /\ table' = table /\ wire' = wire /\ catchers' = catchers
    BY <1>3 DEF vars, request
  <2>2. (\A m, n : Calls(m, n)' = Calls(m, n)) /\ (\A m : Tried(m)' = Tried(m))
    BY <2>1, CallsSame
  <2>3. TypeOK' /\ RequestOK' /\ HistoryOK'
    BY <2>1 DEF IInv, TypeOK, RequestOK, HistoryOK
  <2>4. RouteInv' /\ PassInv' /\ ErrorInv'
    BY <2>1, <2>2 DEF IInv, RouteInv, PassInv, ErrorInv, FirstStatus
  <2>5. CatchInv' /\ ResponseInv'
    BY <2>1 DEF IInv, CatchInv, CatcherChain, CatcherFor, ResponseInv, NoRouteCookiesInErrors,
       FramedUnlessRenamed, WellFramed
  <2> QED
    BY <2>3, <2>4, <2>5 DEF IInv
<1> QED
  BY <1>1, <1>2, <1>3 DEF Next, Done

\* The inductive invariant holds in every reachable state.
THEOREM Inductive == Spec => []IInv
BY InitIInv, NextIInv, PTL DEF Spec

\* Type correctness; in particular, there is a response exactly from the end of
\* routing or catching on.
THEOREM TypeCorrect == Spec => []TypeOK
<1>1. IInv => TypeOK
  BY DEF IInv
<1> QED
  BY <1>1, Inductive, PTL

\* route() tries the matching routes in order, each once per pass, and stops at the
\* first answer; errors reach the catchers with the status of the last route.
THEOREM RoutingIsInOrder == Spec => []FirstAnswerWins
<1>1. ASSUME IInv PROVE FirstAnswerWins
  <2>1. ASSUME caught # <<>>, ~malformed, log = <<>> \/ Last(log).outcome.kind = "forward"
        PROVE  \A m \in {method} \cup (IF was_head THEN {"HEAD"} ELSE {}) : Tried(m)
    <3>1. method # "HEAD" /\ Tried(method) /\ pc \notin Idle
      BY <1>1, <2>1 DEF IInv, ErrorInv, CatchInv
    <3>2. was_head => Tried("HEAD")
      BY <1>1, <2>1, <3>1 DEF IInv, PassInv
    <3> QED BY <3>1, <3>2
  <2> QED
    BY <1>1, <2>1 DEF IInv, RouteInv, ErrorInv, ResponseInv, FirstAnswerWins
<1> QED
  BY <1>1, Inductive, PTL

\* An error response carries no cookie of a route handler or a request fairing.
THEOREM ErrorsDropCookies == Spec => []NoRouteCookiesInErrors
<1>1. IInv => NoRouteCookiesInErrors
  BY DEF IInv, ResponseInv
<1> QED
  BY <1>1, Inductive, PTL

\* dispatch_error() runs at most two catchers, and the built-in one last.
THEOREM CatchersEnd == Spec => []CatcherChain
<1>1. IInv => CatcherChain
  BY DEF IInv, CatchInv
<1> QED
  BY <1>1, Inductive, PTL

\* What leaves dispatch() is well framed unless the method was renamed.
THEOREM ResponsesAreFramed == Spec => []FramedUnlessRenamed
<1>1. IInv => FramedUnlessRenamed
  BY DEF IInv, ResponseInv
<1> QED
  BY <1>1, Inductive, PTL

-----------------------------------------------------------------------------
(* Cookies                                                                 *)

\* Every set of natural numbers that is not empty has a least one.
LEMMA Least ==
    ASSUME NEW S \in SUBSET Nat, S # {}
    PROVE  \E m \in S : \A k \in S : m <= k
<1> DEFINE R == {ss \in Nat \X Nat : ss[1] < ss[2]}
<1>1. IsWellFoundedOn(R, Nat)
  BY NatLessThanWellFounded DEF OpToRel
<1> HIDE DEF R
<1>2. PICK x \in S : \A y \in S : ~(<<y, x>> \in R)
  BY <1>1, WFMin
<1>3. \A y \in S : ~(y < x)
  BY <1>2 DEF R
<1> QED BY <1>3

\* The equation of the recursive function in TakeDeltaJar, for the first n operations
IsDelta(g, orig, ops, n) ==
    g = [i \in 0 .. n |-> IF i = 0 THEN NoCookies ELSE ApplyOp(orig, g[i - 1], ops[i])]

\* Such a function exists.
LEMMA DeltaExists ==
    ASSUME NEW orig, NEW ops, NEW n \in Nat
    PROVE  \E g : IsDelta(g, orig, ops, n)
<1> DEFINE Bad == {k \in Nat : ~\E g : IsDelta(g, orig, ops, k)}
<1> SUFFICES ASSUME Bad # {} PROVE FALSE
  OBVIOUS
<1>1. PICK m \in Bad : \A k \in Bad : m <= k
  <2> HIDE DEF Bad
  <2> Bad \in SUBSET Nat
    BY DEF Bad
  <2> QED BY Least
<1>2. CASE m = 0
  <2> DEFINE h == [i \in 0 .. 0 |-> NoCookies]
  <2>1. \A i \in 0 .. 0 : NoCookies = IF i = 0 THEN NoCookies ELSE ApplyOp(orig, h[i - 1], ops[i])
    OBVIOUS
  <2>2. h = [i \in 0 .. 0 |-> IF i = 0 THEN NoCookies ELSE ApplyOp(orig, h[i - 1], ops[i])]
    BY <2>1
  <2> HIDE DEF h
  <2>3. IsDelta(h, orig, ops, 0)
    BY <2>2 DEF IsDelta
  <2> QED BY <1>1, <1>2, <2>3
<1>3. CASE m # 0
  <2>1. m \in Nat /\ m - 1 \in Nat /\ m - 1 \notin Bad
    BY <1>1, <1>3
  <2>2. PICK g : IsDelta(g, orig, ops, m - 1)
    BY <2>1
  <2>3. g = [i \in 0 .. m - 1 |-> IF i = 0 THEN NoCookies ELSE ApplyOp(orig, g[i - 1], ops[i])]
    BY <2>2 DEF IsDelta
  <2> DEFINE h == [i \in 0 .. m |-> IF i = m THEN ApplyOp(orig, g[m - 1], ops[m]) ELSE g[i]]
  <2>4. \A i \in 0 .. m : h[i] = IF i = 0 THEN NoCookies ELSE ApplyOp(orig, h[i - 1], ops[i])
    <3> TAKE i \in 0 .. m
    <3>1. CASE i = m
      <4> h[m - 1] = g[m - 1] /\ h[m] = ApplyOp(orig, g[m - 1], ops[m])
        BY <2>1
      <4> QED BY <3>1, <1>3
    <3>2. CASE i # m
      <4> i \in 0 .. m - 1 /\ h[i] = g[i]
        BY <2>1, <3>2
      <4>1. g[i] = IF i = 0 THEN NoCookies ELSE ApplyOp(orig, g[i - 1], ops[i])
        BY <2>3
      <4>2. i # 0 => h[i - 1] = g[i - 1]
        BY <2>1, <3>2
      <4> QED BY <4>1, <4>2
    <3> QED BY <3>1, <3>2
  <2>5. h = [i \in 0 .. m |-> h[i]]
    OBVIOUS
  <2> HIDE DEF h
  <2>6. IsDelta(h, orig, ops, m)
    BY <2>4, <2>5 DEF IsDelta
  <2> QED BY <2>6, <1>1
<1> QED BY <1>2, <1>3

\* take_delta_jar() is its last value.
LEMMA TakeDeltaJarIsDelta ==
    ASSUME NEW orig, NEW ops, Len(ops) \in Nat
    PROVE  \E g : IsDelta(g, orig, ops, Len(ops)) /\ TakeDeltaJar(orig, ops) = g[Len(ops)]
<1> DEFINE Is(g) ==
      g = [i \in 0 .. Len(ops) |-> IF i = 0 THEN NoCookies ELSE ApplyOp(orig, g[i - 1], ops[i])]
           d == CHOOSE g : Is(g)
<1>1. TakeDeltaJar(orig, ops) = d[Len(ops)]
  BY Zenon DEF TakeDeltaJar
<1>2. \A g : Is(g) <=> IsDelta(g, orig, ops, Len(ops))
  BY Zenon DEF IsDelta
<1> HIDE DEF Is
<1>3. \E g : Is(g)
  BY <1>2, DeltaExists
<1>4. Is(d)
  BY <1>3, Zenon
<1> QED
  BY <1>1, <1>2, <1>4, Zenon

\* What an operation leaves for its name
Effect(orig, op) ==
    IF op.kind = "add" THEN op.cookie ELSE IF orig[op.name] # Absent THEN Expired ELSE Absent

\* j is the last of the first m operations that is on n.
IsLast(ops, n, m, j) ==
    j \in 1 .. m /\ ops[j].name = n /\ \A k \in 1 .. m : ops[k].name = n => k <= j

\* Of every name the last operation is in the delta.
LastDecides(d, orig, ops, m) ==
    /\ d \in Delta
    /\ \A n \in Names : \/ d[n] = Absent /\ \A j \in 1 .. m : ops[j].name # n
                        \/ \E j \in 1 .. m : IsLast(ops, n, m, j) /\ d[n] = Effect(orig, ops[j])

\* The fields of an operation
LEMMA OpType ==
    ASSUME NEW op \in Op
    PROVE  /\ op.name \in Names /\ op.kind \in {"add", "remove"}
           /\ op.kind = "add" => op.cookie \in Cookie
BY DEF Op

\* One turn of the loop
LEMMA ApplyOpDecides ==
    ASSUME NEW orig \in Jar, NEW ops \in Seq(Op), NEW m \in 1 .. Len(ops),
           NEW d, LastDecides(d, orig, ops, m - 1)
    PROVE  LastDecides(ApplyOp(orig, d, ops[m]), orig, ops, m)
<1> DEFINE op == ops[m]
           e == ApplyOp(orig, d, op)
<1>1. op \in Op /\ Len(ops) \in Nat /\ m \in Nat
  OBVIOUS
<1>2. op.name \in Names /\ Effect(orig, op) \in Cookie \cup {Absent, Expired}
  BY <1>1, OpType DEF Effect
<1>3. e = [d EXCEPT ![op.name] = Effect(orig, op)] /\ d \in Delta
  BY DEF ApplyOp, Effect, LastDecides
<1>4. e \in Delta
  BY <1>2, <1>3 DEF Delta
<1>5. 1 .. m = (1 .. m - 1) \cup {m} /\ \A k \in 1 .. m - 1 : k <= m
  BY <1>1
<1> HIDE DEF e
<1>6. ASSUME NEW n \in Names
      PROVE  \/ e[n] = Absent /\ \A j \in 1 .. m : ops[j].name # n
             \/ \E j \in 1 .. m : IsLast(ops, n, m, j) /\ e[n] = Effect(orig, ops[j])
  <2>1. CASE n = op.name
    <3>1. e[n] = Effect(orig, op)
      BY <1>2, <1>3, <2>1 DEF Delta
    <3>2. IsLast(ops, n, m, m)
      BY <1>5, <2>1 DEF IsLast
    <3> QED
      BY <3>1, <3>2
  <2>2. CASE n # op.name
    <3>1. e[n] = d[n]
      BY <1>2, <1>3, <2>2 DEF Delta
    <3>2. \A j : IsLast(ops, n, m - 1, j) => IsLast(ops, n, m, j)
      BY <1>5, <2>2 DEF IsLast
    <3> QED
      BY <1>5, <2>2, <3>1, <3>2 DEF LastDecides
  <2> QED
    BY <2>1, <2>2
<1> QED
  BY <1>4, <1>6 DEF LastDecides, e

\* What take_delta_jar() makes of all operations: by induction on their number
LEMMA DeltaDecides ==
    ASSUME NEW orig \in Jar, NEW ops \in Seq(Op)
    PROVE  LastDecides(TakeDeltaJar(orig, ops), orig, ops, Len(ops))
<1> DEFINE N == Len(ops)
<1>1. N \in Nat
  OBVIOUS
<1>2. PICK g : IsDelta(g, orig, ops, N) /\ TakeDeltaJar(orig, ops) = g[N]
  BY <1>1, TakeDeltaJarIsDelta
<1> DEFINE Bad == {i \in 0 .. N : ~LastDecides(g[i], orig, ops, i)}
<1> HIDE DEF N
<1>3. g[0] = NoCookies /\ \A i \in 1 .. N : g[i] = ApplyOp(orig, g[i - 1], ops[i])
  BY <1>1, <1>2 DEF IsDelta
<1>4. LastDecides(NoCookies, orig, ops, 0)
  BY DEF LastDecides, NoCookies, Delta
<1> SUFFICES ASSUME Bad # {} PROVE FALSE
  BY <1>1, <1>2 DEF N
<1>5. PICK m \in Bad : \A k \in Bad : m <= k
  <2> HIDE DEF Bad
  <2> Bad \in SUBSET Nat
    BY DEF Bad
  <2> QED BY Least
<1>6. m \in 1 .. N /\ m - 1 \in 0 .. N /\ m - 1 \notin Bad
  BY <1>1, <1>3, <1>4, <1>5
<1>7. LastDecides(ApplyOp(orig, g[m - 1], ops[m]), orig, ops, m)
  BY <1>6, ApplyOpDecides DEF N
<1> QED
  BY <1>3, <1>5, <1>6, <1>7

\* get_pending() without operations: the original cookie, opened
LEMMA PendingType ==
    ASSUME NEW orig \in Jar, NEW n \in Names
    PROVE  GetPending(orig, <<>>, n) =
              IF orig[n] = Absent THEN Absent ELSE Stored(orig[n].value, FALSE)
<1>1. {i \in DOMAIN <<>> : <<>>[i].name = n} = {}
  OBVIOUS
<1>2. GetPending(orig, <<>>, n) = IF GetPrivate(orig, n) # Absent THEN GetPrivate(orig, n) ELSE orig[n]
  BY <1>1, Zenon DEF GetPending
<1>3. CASE orig[n] = Absent
  BY <1>2, <1>3 DEF GetPrivate
<1>4. CASE orig[n] # Absent
  <2>1. orig[n] \in Cookie
    BY <1>4 DEF Jar
  <2>2. Stored(orig[n].value, FALSE) \in Cookie
    BY <2>1 DEF Cookie, Stored
  <2>3. ~orig[n].sealed => orig[n] = Stored(orig[n].value, FALSE)
    BY <2>1 DEF Cookie, Stored
  <2>4. Stored(orig[n].value, FALSE) # Absent
    BY <2>2, CookieAssumption
  <2> QED
    BY <1>2, <1>4, <2>3, <2>4 DEF GetPrivate
<1> QED
  BY <1>3, <1>4

\* get_pending() of a name with operations
LEMMA PendingIsLast ==
    ASSUME NEW orig, NEW ops, NEW N \in Nat, DOMAIN ops = 1 .. N, NEW n, NEW j, IsLast(ops, n, N, j)
    PROVE  GetPending(orig, ops, n) =
              IF ops[j].kind = "add" THEN Stored(ops[j].cookie.value, FALSE) ELSE Absent
<1> DEFINE mine == {i \in DOMAIN ops : ops[i].name = n}
<1>1. j \in mine /\ mine # {} /\ \A i \in mine : i \in Nat /\ i <= j
  BY DEF IsLast
<1> HIDE DEF mine
<1>2. \A i \in mine : j >= i
  BY <1>1
<1>3. \E i \in mine : \A k \in mine : i >= k
  BY <1>1, <1>2
<1>4. Max(mine) \in mine /\ \A k \in mine : Max(mine) >= k
  BY <1>3 DEF Max
<1>5. Max(mine) = j
  BY <1>1, <1>4
<1>6. GetPending(orig, ops, n) =
        IF mine # {}
        THEN LET op == ops[Max(mine)] IN
             IF op.kind = "add" THEN Stored(op.cookie.value, FALSE) ELSE Absent
        ELSE IF GetPrivate(orig, n) # Absent THEN GetPrivate(orig, n) ELSE orig[n]
  BY Zenon DEF GetPending, mine
<1> QED
  BY <1>1, <1>5, <1>6

\* get_pending() of a name without operations
LEMMA PendingIsOriginal ==
    ASSUME NEW orig, NEW ops, NEW n, \A i \in DOMAIN ops : ops[i].name # n
    PROVE  GetPending(orig, ops, n) = GetPending(orig, <<>>, n)
<1>1. {i \in DOMAIN ops : ops[i].name = n} = {} /\ {i \in DOMAIN <<>> : <<>>[i].name = n} = {}
  OBVIOUS
<1> QED
  BY <1>1, Zenon DEF GetPending

\* The header for a name says what get_pending() shows of it: the two loops agree.
LEMMA RespondIsSeen ==
    ASSUME NEW orig \in Jar, NEW ops \in Seq(Op), NEW n \in Names
    PROVE  SeenOK(orig, TakeDeltaJar(orig, ops)[n], GetPending(orig, ops, n), n)
<1> DEFINE d == TakeDeltaJar(orig, ops)
           N == Len(ops)
<1>1. N \in Nat /\ DOMAIN ops = 1 .. N
  OBVIOUS
<1>2. LastDecides(d, orig, ops, N)
  BY DeltaDecides
<1> HIDE DEF d, N
<1>3. CASE d[n] = Absent /\ \A j \in 1 .. N : ops[j].name # n
  BY <1>1, <1>3, PendingIsOriginal DEF SeenOK, d
<1>4. ASSUME NEW j \in 1 .. N, IsLast(ops, n, N, j), d[n] = Effect(orig, ops[j])
      PROVE  SeenOK(orig, d[n], GetPending(orig, ops, n), n)
  <2>1. GetPending(orig, ops, n) =
          IF ops[j].kind = "add" THEN Stored(ops[j].cookie.value, FALSE) ELSE Absent
    BY <1>1, <1>4, PendingIsLast
  <2>2. ops[j] \in Op /\ ops[j].name = n
    BY <1>1, <1>4 DEF IsLast, N
  <2>3. CASE ops[j].kind = "add"
    <3>1. d[n] = ops[j].cookie /\ ops[j].cookie \in Cookie
      BY <1>4, <2>2, <2>3, OpType DEF Effect
    <3> QED
      BY <2>1, <2>3, <3>1, CookieAssumption DEF SeenOK
  <2>4. CASE ops[j].kind # "add"
    <3>1. d[n] = IF orig[n] # Absent THEN Expired ELSE Absent
      BY <1>4, <2>2, <2>4 DEF Effect
    <3>2. GetPending(orig, <<>>, n) = IF orig[n] = Absent THEN Absent ELSE Stored(orig[n].value, FALSE)
      BY PendingType
    <3> QED
      BY <2>1, <2>4, <3>1, <3>2, CookieAssumption DEF SeenOK
  <2> QED
    BY <2>3, <2>4
<1> QED
  BY <1>2, <1>3, <1>4 DEF LastDecides, d

\* get_pending() shows a cookie or none.
LEMMA PendingInJar ==
    ASSUME NEW orig \in Jar, NEW ops \in Seq(Op), NEW n \in Names
    PROVE  GetPending(orig, ops, n) \in Cookie \cup {Absent}
<1> DEFINE d == TakeDeltaJar(orig, ops)
<1>1. SeenOK(orig, d[n], GetPending(orig, ops, n), n)
  BY RespondIsSeen
<1>2. d \in Delta
  BY DeltaDecides DEF LastDecides
<1> HIDE DEF d
<1>3. \A c \in Cookie : Stored(c.value, FALSE) \in Cookie
  BY DEF Cookie, Stored
<1>4. GetPending(orig, <<>>, n) \in Cookie \cup {Absent}
  BY <1>3, PendingType DEF Jar
<1> QED
  BY <1>1, <1>2, <1>3, <1>4 DEF SeenOK, Delta

\* The orig of a client that starts, and a request before it is made
LEMMA IdleType ==
    NoCookies \in Jar /\ NoCookies \in Delta
    /\ IdleRequest \in [phase : {"idle", "live", "responded"}, jar : Jar, ops : Seq(Op),
                        delta : Delta, seen : Jar]
    /\ Len(IdleRequest.ops) <= MaxOps /\ IdleRequest.phase = "idle"
<1>1. NoCookies \in Jar /\ NoCookies \in Delta
  BY DEF NoCookies, Jar, Delta
<1>2. <<>> \in Seq(Op) /\ Len(<<>>) = 0
  OBVIOUS
<1> QED
  BY <1>1, <1>2, CookieAssumption DEF IdleRequest

\* No request, and no cookies
LEMMA CookieInitInv == CookieInit => CookieInv
  BY IdleType DEF CookieInit, CookieInv, CookieTypeOK

\* CookieJar::add, add_private and remove
LEMMA PushKeeps ==
    ASSUME CookieInv, NEW r \in Requests, NEW op \in Op, Push(r, op)
    PROVE  CookieInv'
<1>1. req[r].ops \in Seq(Op) /\ Len(req[r].ops) < MaxOps
  BY DEF CookieInv, CookieTypeOK, Push
<1>2. Append(req[r].ops, op) \in Seq(Op) /\ Len(Append(req[r].ops, op)) <= MaxOps
  BY <1>1, CookieAssumption
<1> QED
  BY <1>2 DEF CookieInv, CookieTypeOK, Push

\* Rocket::dispatch
LEMMA RespondKeeps ==
    ASSUME CookieInv, NEW r \in Requests, Respond(r)
    PROVE  CookieInv'
<1> DEFINE orig == req[r].jar
           ops == req[r].ops
           d == TakeDeltaJar(orig, ops)
           seen == [n \in Names |-> GetPending(orig, ops, n)]
<1>1. orig \in Jar /\ ops \in Seq(Op)
  BY DEF CookieInv, CookieTypeOK
<1>2. d \in Delta /\ seen \in Jar
  BY <1>1, DeltaDecides, PendingInJar DEF LastDecides, Jar
<1>3. \A n \in Names : SeenOK(orig, d[n], seen[n], n)
  BY <1>1, RespondIsSeen
<1> HIDE DEF d, seen
<1>4. /\ req' = [req EXCEPT ![r].phase = "responded", ![r].ops = <<>>,
                             ![r].delta = d, ![r].seen = seen]
      /\ client' = client
  BY DEF Respond, d, seen
<1>5. <<>> \in Seq(Op) /\ Len(<<>>) <= MaxOps
  BY CookieAssumption
<1>6. CookieTypeOK'
  BY <1>2, <1>4, <1>5 DEF CookieInv, CookieTypeOK
<1>7. req'[r].jar = orig /\ req'[r].delta = d /\ req'[r].seen = seen
  BY <1>4 DEF CookieInv, CookieTypeOK
<1>8. \A q \in Requests : q # r => req'[q] = req[q]
  BY <1>4 DEF CookieInv, CookieTypeOK
<1> HIDE DEF orig
<1> QED
  BY <1>3, <1>6, <1>7, <1>8 DEF CookieInv

\* The tracking of a response, for every name
LEMMA TrackKeeps ==
    ASSUME CookieInv, NEW r \in Requests, Track(r)
    PROVE  /\ CookieInv'
           /\ req[r].phase = "responded" /\ \A q \in Requests : q # r => req'[q] = req[q]
           /\ \A n \in Names : client'[n] = Tracked(client[n], req[r].delta[n])
<1>1. client' = [n \in Names |-> Tracked(client[n], req[r].delta[n])]
  BY DEF Track
<1>2. req[r].delta \in Delta /\ client \in Jar
  BY DEF CookieInv, CookieTypeOK
<1>3. \A n \in Names : Tracked(client[n], req[r].delta[n]) \in Cookie \cup {Absent}
  BY <1>2 DEF Tracked, Delta, Jar
<1>4. client' \in Jar
  BY <1>1, <1>3 DEF Jar
<1>5. req' = [req EXCEPT ![r] = IdleRequest] /\ req[r].phase = "responded"
  BY DEF Track
<1>6. CookieInv'
  BY <1>4, <1>5, IdleType DEF CookieInv, CookieTypeOK
<1>7. \A q \in Requests : q # r => req'[q] = req[q]
  BY <1>5 DEF CookieInv, CookieTypeOK
<1> QED
  BY <1>1, <1>5, <1>6, <1>7

\* The steps that are not the tracking of a response
LEMMA OthersKeep ==
    ASSUME CookieInv, NEW r \in Requests,
           \/ NewRequest(r) \/ JarResetDelta(r) \/ Respond(r)
           \/ \E op \in Op : Push(r, op)
    PROVE  /\ CookieInv'
           /\ \A q \in Requests : req[q].phase = "responded" => req'[q].phase = "responded"
<1>1. CASE NewRequest(r)
  <2> DEFINE new == [IdleRequest EXCEPT !.phase = "live", !.jar = client]
  <2>1. /\ new \in [phase : {"idle", "live", "responded"}, jar : Jar, ops : Seq(Op),
                    delta : Delta, seen : Jar]
        /\ Len(new.ops) <= MaxOps /\ new.phase = "live"
    BY IdleType DEF CookieInv, CookieTypeOK
  <2> HIDE DEF new
  <2>2. req' = [req EXCEPT ![r] = new] /\ client' = client /\ req[r].phase = "idle"
    BY <1>1 DEF NewRequest, new
  <2> QED
    BY <2>1, <2>2 DEF CookieInv, CookieTypeOK
<1>2. CASE JarResetDelta(r)
  <2>1. <<>> \in Seq(Op) /\ Len(<<>>) <= MaxOps
    BY CookieAssumption
  <2> QED
    BY <1>2, <2>1 DEF JarResetDelta, CookieInv, CookieTypeOK
<1>3. CASE Respond(r)
  <2>1. \A q \in Requests : req[q].phase = "responded" => req'[q].phase = "responded"
    BY <1>3 DEF Respond, CookieInv, CookieTypeOK
  <2> QED
    BY <1>3, <2>1, RespondKeeps
<1>4. ASSUME NEW op \in Op, Push(r, op)
      PROVE  /\ CookieInv'
             /\ \A q \in Requests : req[q].phase = "responded" => req'[q].phase = "responded"
  <2>1. \A q \in Requests : req[q].phase = "responded" => req'[q].phase = "responded"
    BY <1>4 DEF Push, CookieInv, CookieTypeOK
  <2> QED
    BY <1>4, <2>1, PushKeeps
<1> QED
  BY <1>1, <1>2, <1>3, <1>4

\* A step is the tracking of a response, or leaves those that are made alone.
LEMMA CookieSteps ==
    ASSUME CookieInv, [CookieNext]_cookieVars
    PROVE  /\ CookieInv'
           /\ \/ \A q \in Requests : req[q].phase = "responded" => req'[q].phase = "responded"
              \/ \E r \in Requests : Track(r)
<1>1. \A n \in Names :
        /\ \A value \in Plain : [kind |-> "add", name |-> n, cookie |-> Stored(value, FALSE)] \in Op
        /\ \A value \in Secret : [kind |-> "add", name |-> n, cookie |-> Stored(value, TRUE)] \in Op
        /\ [kind |-> "remove", name |-> n] \in Op
  BY DEF Op, Stored, Cookie
<1>2. CASE UNCHANGED cookieVars
  BY <1>2 DEF cookieVars, CookieInv, CookieTypeOK
<1>3. ASSUME NEW r \in Requests, Track(r) PROVE CookieInv'
  BY <1>3, TrackKeeps
<1>4. CASE CookieNext
  <2>1. PICK r \in Requests :
          \/ Track(r) \/ NewRequest(r) \/ JarResetDelta(r) \/ Respond(r)
          \/ \E op \in Op : Push(r, op)
    BY <1>1, <1>4, Zenon DEF CookieNext, Add, AddPrivate, RemoveCookie
  <2> QED
    BY <1>3, <2>1, OthersKeep
<1> QED
  BY <1>2, <1>4

\* A tracked name is later read as the request saw it, if the response has a header
\* for it, or if the client's cookie has not changed since.
LEMMA TrackedIsSeen ==
    ASSUME CookieInv, NEW r \in Requests, Track(r), NEW n \in Names
    PROVE  IF req[r].delta[n] = Absent
           THEN client'[n] = client[n]
                /\ (req[r].jar = client => View(client)'[n] = req[r].seen[n])
           ELSE View(client)'[n] = req[r].seen[n]
<1> DEFINE header == req[r].delta[n]
           seen == req[r].seen[n]
<1>1. /\ SeenOK(req[r].jar, header, seen, n) /\ req[r].jar \in Jar /\ client \in Jar
      /\ header \in Cookie \cup {Absent, Expired}
      /\ client'[n] = Tracked(client[n], header)
  BY TrackKeeps DEF CookieInv, CookieTypeOK, Delta
<1>2. client' \in Jar
  BY TrackKeeps DEF CookieInv, CookieTypeOK
<1>3. View(client)'[n] = IF client'[n] = Absent THEN Absent ELSE Stored(client'[n].value, FALSE)
  BY <1>2, PendingType DEF View
<1>4. GetPending(client, <<>>, n) =
        IF client[n] = Absent THEN Absent ELSE Stored(client[n].value, FALSE)
  BY <1>1, PendingType
<1> HIDE DEF header, seen
<1>5. CASE header = Absent
  <2>1. client'[n] = client[n]
    BY <1>1, <1>5 DEF Tracked
  <2>2. req[r].jar = client => View(client)'[n] = seen
    BY <1>1, <1>3, <1>4, <1>5, <2>1 DEF SeenOK
  <2> QED
    BY <1>5, <2>1, <2>2 DEF header, seen
<1>6. CASE header # Absent
  <2>1. CASE header = Expired
    BY <1>1, <1>3, <1>6, <2>1 DEF Tracked, SeenOK, header, seen
  <2>2. CASE header # Expired
    <3>1. /\ header \in Cookie /\ header # Absent /\ client'[n] = header
          /\ seen = Stored(header.value, FALSE)
      BY <1>1, <1>6, <2>2, CookieAssumption DEF Tracked, SeenOK
    <3> QED
      BY <1>3, <1>6, <3>1 DEF header, seen
  <2> QED
    BY <2>1, <2>2
<1> QED
  BY <1>5, <1>6

\* What get_pending() showed is kept beside the headers, for every list of operations.
THEOREM CookieInductive == CookieSpec => []CookieInv
  BY CookieInitInv, CookieSteps, PTL DEF CookieSpec

\* A request alone in flight leaves a tracking client with the cookies that get_pending()
\* showed: the list of operations, made into headers by take_delta_jar() and replayed by
\* LocalRequest::_dispatch, comes to the same orig, whatever was added, removed or sealed.
THEOREM ClientReadsWhatWasPending == CookieSpec => ClientSeesPending
<1>1. ASSUME CookieInv, [CookieNext]_cookieVars, NEW r \in Requests,
             req[r].phase = "responded", req'[r].phase = "idle", req[r].jar = client
      PROVE  View(client') = req[r].seen
  <2>1. PICK q \in Requests : Track(q)
    BY <1>1, CookieSteps
  <2>2. q = r
    BY <1>1, <2>1, TrackKeeps
  <2>3. \A n \in Names : View(client)'[n] = req[r].seen[n]
    BY <1>1, <2>1, <2>2, TrackedIsSeen
  <2>4. View(client)' = [n \in Names |-> View(client)'[n]]
    BY DEF View
  <2>5. req[r].seen = [n \in Names |-> req[r].seen[n]]
    BY <1>1 DEF CookieInv, CookieTypeOK, Jar
  <2> QED
    BY <2>3, <2>4, <2>5
<1>2. CookieInv /\ [CookieNext]_cookieVars =>
        [\A r \in Requests : req[r].phase = "responded" /\ req'[r].phase = "idle" /\ Alone(r)
            /\ req[r].jar = client => View(client') = req[r].seen]_cookieVars
  BY <1>1
<1> QED
  BY <1>2, CookieInductive, PTL DEF CookieSpec, ClientSeesPending

\* Whatever other requests of the client are in flight: a response changes only the cookies
\* it has headers for, and those become what its request saw.
THEOREM ResponsesAreMerged == CookieSpec => ResponsesMerge
<1>1. ASSUME CookieInv, [CookieNext]_cookieVars, NEW r \in Requests, NEW n \in Names,
             req[r].phase = "responded", req'[r].phase = "idle"
      PROVE  IF req[r].delta[n] = Absent THEN client'[n] = client[n]
             ELSE View(client')[n] = req[r].seen[n]
  <2>1. PICK q \in Requests : Track(q)
    BY <1>1, CookieSteps
  <2>2. q = r
    BY <1>1, <2>1, TrackKeeps
  <2> QED
    BY <1>1, <2>1, <2>2, TrackedIsSeen
<1>2. CookieInv /\ [CookieNext]_cookieVars =>
        [\A r \in Requests, n \in Names :
            /\ req[r].phase = "responded" /\ req'[r].phase = "idle"
            => IF req[r].delta[n] = Absent THEN client'[n] = client[n]
               ELSE View(client')[n] = req[r].seen[n]]_cookieVars
  BY <1>1
<1> QED
  BY <1>2, CookieInductive, PTL DEF CookieSpec, ResponsesMerge
=============================================================================
