----------------------------- MODULE Lifecycle -----------------------------
(***************************************************************************)
(* core/lib/src/lifecycle.rs and Rocket::service (core/lib/src/server.rs): *)
(* what happens to one request between its arrival and its response.       *)
(*                                                                         *)
(* Which routes match, and in which order, is Router!Route: here a table   *)
(* gives, for each method, the sequence of matching routes.  Which catcher *)
(* handles a status is Router!Catch: here the catchers of one base.        *)
(* Fairings, handlers and guards are external: they set cookies, produce   *)
(* any outcome, and may panic.  A cookie is named after who set it.        *)
(***************************************************************************)
EXTENDS Naturals, Sequences, FiniteSets, SequencesExt

CONSTANTS
    Routes,     \* routes of the application
    Tables,     \* by method, sequences of routes that may match, in routing order
    Forwards,   \* statuses a handler may forward or fail with
    Responses   \* responses of route handlers: [status, body, upgrade]

ASSUME TablesAssumption ==
    \A t \in Tables : \A m \in {"GET", "HEAD", "POST"} :
        t[m] \in Seq(Routes) /\ \A i, j \in DOMAIN t[m] : t[m][i] = t[m][j] => i = j
ASSUME ForwardsAssumption == Forwards \subseteq Nat
ASSUME ResponsesAssumption ==
    Responses \subseteq [status : Nat, body : {"empty", "seekable", "unsized"}, upgrade : BOOLEAN]

VARIABLES
    pc,         \* where the request's task is
    wire,       \* the method hyper parsed
    malformed,  \* request.errors is not empty
    table,      \* by method, the routes that match the request
    catchers,   \* statuses with a registered catcher; AnyStatus: a default catcher
    method,     \* request.method()
    was_head,   \* was_head_request
    todo,       \* what is left of the iterator router.route(request)
    status,     \* `status` of route() and of dispatch_error()
    jar,        \* owners of the pending operations of request.cookies()
    resp,       \* the response
    log,        \* history: calls of route handlers: [method, route, outcome]
    caught      \* history: calls of catchers: [status, owner, ok]

request == <<wire, malformed, table, catchers>>
vars == <<pc, request, method, was_head, todo, status, jar, resp, log, caught>>

Methods == {"GET", "HEAD", "POST"}
AnyStatus == 0
Builtin == 1                    \* catcher::default_handler
Owners == {<<"fairing", 0>>} \cup ({"route"} \X Routes)
          \cup ({"catcher"} \X (Forwards \cup {AnyStatus, 400, 404, 500}))

\* response::Body: Inner::None with size Some(0), Seekable, Unsized, Phantom,
\* and Body::unsized_none()
Bodies == {"empty", "seekable", "unsized", "phantom", "unsized_none"}

Response == [status : Nat, body : Bodies, by : Owners \cup {<<"catcher", Builtin>>},
             cookies : SUBSET Owners, length : {"unset", "zero", "size"},
             upgrade : BOOLEAN]
NoResponse == <<>>

Final == {"sent", "aborted"}

TypeOK ==
    /\ pc \in {"preprocess", "fairings", "dispatch", "route", "error", "catch", "finish",
               "response", "strip", "upgrade"} \cup Final
    /\ method \in Methods
    /\ was_head \in BOOLEAN
    /\ todo \in Seq(Routes)
    /\ status \in Nat
    /\ jar \subseteq Owners
    /\ resp \in Response \cup {NoResponse}
    /\ pc \in {"finish", "response", "strip", "upgrade", "sent"} <=> resp # NoResponse

Init ==
    /\ pc = "preprocess"
    /\ wire \in Methods
    /\ malformed \in BOOLEAN
    /\ table \in Tables
    /\ catchers \in SUBSET {AnyStatus, 404, 500}
    /\ method = wire
    /\ was_head = FALSE
    /\ todo = <<>>
    /\ status = 404
    /\ jar = {}
    /\ resp = NoResponse
    /\ log = <<>>
    /\ caught = <<>>

-----------------------------------------------------------------------------
\* The jar after `owner` has run; `cookies` says whether it set any.
Pending(owner, cookies) == IF cookies THEN jar \cup {owner} ELSE jar

\* preprocess(): the `_method` field of a form may rename a POST.
Preprocess(m) ==
    /\ pc = "preprocess"
    /\ m # method => method = "POST"
    /\ method' = m
    /\ pc' = "fairings"
    /\ UNCHANGED <<request, was_head, todo, status, jar, resp, log, caught>>

\* Fairings::handle_request.  A panic is not caught: it unwinds the task.
RequestFairings(m, cookies) ==
    /\ pc = "fairings"
    /\ method' = m
    /\ jar' = Pending(<<"fairing", 0>>, cookies)
    /\ pc' = IF malformed THEN "error" ELSE "dispatch"
    /\ status' = IF malformed THEN 400 ELSE status
    /\ UNCHANGED <<request, was_head, todo, resp, log, caught>>

Dropped ==
    /\ pc' = "aborted"
    /\ resp' = NoResponse
    /\ todo' = <<>> /\ status' = 404 /\ jar' = {}
    /\ log' = <<>> /\ caught' = <<>>
    /\ UNCHANGED <<request, method, was_head>>

Panic == pc \in {"fairings", "response"} /\ Dropped

\* The connection goes away: hyper drops the future of the service.
Disconnect == pc \notin Final /\ Dropped

\* dispatch(), up to the first call of route()
Dispatch ==
    /\ pc = "dispatch"
    /\ was_head' = (method = "HEAD")
    /\ todo' = table[method]
    /\ status' = 404
    /\ pc' = "route"
    /\ UNCHANGED <<request, method, jar, resp, log, caught>>

NewResponse(s, body, by, upgrade) ==
    [status |-> s, body |-> body, by |-> by, cookies |-> {}, length |-> "unset",
     upgrade |-> upgrade]

\* One turn of the loop of route(): the handler of the next matching route,
\* run by catch_handle(), sets cookies and then succeeds, fails or panics.
Called(cookies, outcome) ==
    /\ pc = "route"
    /\ todo # <<>>
    /\ jar' = Pending(<<"route", Head(todo)>>, cookies)
    /\ log' = Append(log, [method |-> method, route |-> Head(todo), outcome |-> outcome])

Succeed(cookies, r) ==
    /\ Called(cookies, [kind |-> "success", status |-> r.status])
    /\ resp' = NewResponse(r.status, r.body, <<"route", Head(todo)>>, r.upgrade)
    /\ pc' = "finish"
    /\ UNCHANGED <<request, method, was_head, todo, status, caught>>

Fail(cookies, s) ==
    /\ Called(cookies, [kind |-> "error", status |-> s])
    /\ status' = s
    /\ pc' = "error"
    /\ UNCHANGED <<request, method, was_head, todo, resp, caught>>

\* A panicking handler is taken for one that has nothing to say.
PanicForwards(cookies) ==
    /\ Called(cookies, [kind |-> "panic", status |-> 500])
    /\ todo' = Tail(todo)
    /\ UNCHANGED <<pc, request, method, was_head, status, resp, caught>>

HandlerPanics(cookies) ==
    /\ Called(cookies, [kind |-> "panic", status |-> 500])
    /\ status' = 500
    /\ pc' = "error"
    /\ UNCHANGED <<request, method, was_head, todo, resp, caught>>

Forward(cookies, s) ==
    /\ Called(cookies, [kind |-> "forward", status |-> s])
    /\ todo' = Tail(todo)
    /\ status' = s
    /\ UNCHANGED <<pc, request, method, was_head, resp, caught>>

\* route() returned Forward and the method is HEAD: route once more as a GET.
Reroute ==
    /\ pc = "route" /\ todo = <<>> /\ method = "HEAD"
    /\ method' = "GET"
    /\ todo' = table["GET"]
    /\ status' = 404
    /\ UNCHANGED <<pc, request, was_head, jar, resp, log, caught>>

Exhausted ==
    /\ pc = "route" /\ todo = <<>> /\ method # "HEAD"
    /\ pc' = "error"
    /\ UNCHANGED <<request, method, was_head, todo, status, jar, resp, log, caught>>

-----------------------------------------------------------------------------
\* dispatch_error() without its first statement
KeepDelta ==
    /\ pc = "error"
    /\ pc' = "catch"
    /\ UNCHANGED <<request, method, was_head, todo, status, jar, resp, log, caught>>

\* dispatch_error(), up to its loop
ResetDelta ==
    /\ pc = "error"
    /\ jar' = {}
    /\ pc' = "catch"
    /\ UNCHANGED <<request, method, was_head, todo, status, resp, log, caught>>

\* Router!Catch for one base
CatcherFor(s) ==
    IF s \in catchers THEN s ELSE IF AnyStatus \in catchers THEN AnyStatus ELSE Builtin

\* service() sends the response of a malformed request as dispatch_error()
\* returned it; the others return to dispatch().
AfterCatch == IF malformed THEN "upgrade" ELSE "finish"

\* invoke_catcher(): no catcher is registered, or the catcher succeeds.
CatcherSucceeds(cookies, body) ==
    /\ pc = "catch"
    /\ LET owner == <<"catcher", CatcherFor(status)>> IN
       /\ owner[2] = Builtin => ~cookies /\ body = "seekable"
       /\ jar' = Pending(owner, cookies)
       /\ resp' = NewResponse(status, body, owner, FALSE)
       /\ caught' = Append(caught, [status |-> status, owner |-> owner[2], ok |-> TRUE])
    /\ pc' = AfterCatch
    /\ UNCHANGED <<request, method, was_head, todo, status, log>>

\* A failing catcher is replaced by the built-in one at once.
CatcherFailsOnce(cookies) ==
    /\ pc = "catch"
    /\ LET owner == <<"catcher", CatcherFor(status)>> IN
       /\ owner[2] # Builtin
       /\ jar' = Pending(owner, cookies)
       /\ caught' = Append(caught, [status |-> status, owner |-> owner[2], ok |-> FALSE])
    /\ resp' = NewResponse(500, "seekable", <<"catcher", Builtin>>, FALSE)
    /\ pc' = AfterCatch
    /\ UNCHANGED <<request, method, was_head, todo, status, log>>

\* A registered catcher fails or panics: the 500 catcher is next, and after
\* that the built-in one.
CatcherFails(cookies) ==
    /\ pc = "catch"
    /\ LET owner == <<"catcher", CatcherFor(status)>> IN
       /\ owner[2] # Builtin
       /\ jar' = Pending(owner, cookies)
       /\ caught' = Append(caught, [status |-> status, owner |-> owner[2], ok |-> FALSE])
    /\ IF status # 500
       THEN status' = 500 /\ UNCHANGED <<pc, resp>>
       ELSE /\ resp' = NewResponse(500, "seekable", <<"catcher", Builtin>>, FALSE)
            /\ pc' = AfterCatch
            /\ UNCHANGED status
    /\ UNCHANGED <<request, method, was_head, todo, log>>

-----------------------------------------------------------------------------
\* dispatch(): the pending cookies and the Server header go into the response.
TakeDelta ==
    /\ pc = "finish"
    /\ resp' = [resp EXCEPT !.cookies = jar]
    /\ jar' = {}
    /\ pc' = "response"
    /\ UNCHANGED <<request, method, was_head, todo, status, log, caught>>

\* Fairings::handle_response: a fairing may replace status and body.  Cookies
\* it sets stay in the jar, which nobody reads any more.
ResponseFairings ==
    /\ pc = "response"
    /\ \E s \in {resp.status, 204}, body \in {resp.body, "empty"} :
           resp' = [resp EXCEPT !.status = s, !.body = body]
    /\ pc' = "strip"
    /\ UNCHANGED <<request, method, was_head, todo, status, jar, log, caught>>

\* Body::strip
Stripped(body) == IF body \in {"seekable", "phantom"} THEN "phantom" ELSE "empty"

\* Body::size, as the value of Content-Length; an unsized body leaves it alone
LengthOf(body) ==
    CASE body \in {"seekable", "phantom"} -> "size"
      [] body = "empty" -> "zero"
      [] OTHER -> "unset"

\* The body of a 204 is only stripped.
FinishKeepsSize ==
    /\ pc = "strip"
    /\ LET body == IF was_head \/ resp.status \in {204, 304} THEN Stripped(resp.body) ELSE resp.body
       IN resp' = [resp EXCEPT !.body = body, !.length = LengthOf(body)]
    /\ pc' = "upgrade"
    /\ UNCHANGED <<request, method, was_head, todo, status, jar, log, caught>>

\* dispatch(), after the response fairings
StripBody ==
    /\ pc = "strip"
    /\ LET stripped == IF was_head \/ resp.status = 304 THEN Stripped(resp.body) ELSE resp.body
           body == IF resp.status = 204 THEN "unsized_none" ELSE stripped
       IN resp' = [resp EXCEPT !.body = body, !.length = LengthOf(body)]
    /\ pc' = "upgrade"
    /\ UNCHANGED <<request, method, was_head, todo, status, jar, log, caught>>

\* service(): extract_io_handler() answers 101 when the response offers the
\* protocol that the request asks for; the response is handed to hyper.
Send ==
    /\ pc = "upgrade"
    /\ resp' = [resp EXCEPT !.status = IF resp.upgrade THEN 101 ELSE @]
    /\ pc' = "sent"
    /\ UNCHANGED <<request, method, was_head, todo, status, jar, log, caught>>

Handler(cookies) ==
    \/ \E r \in Responses : Succeed(cookies, r)
    \/ \E s \in Forwards : Fail(cookies, s) \/ Forward(cookies, s)
    \/ HandlerPanics(cookies)

Catcher(cookies) ==
    \/ \E body \in {"seekable", "unsized"} : CatcherSucceeds(cookies, body)
    \/ CatcherFails(cookies)

Step ==
    \/ \E m \in Methods : Preprocess(m)
    \/ Dispatch
    \/ Reroute
    \/ Exhausted
    \/ ResetDelta
    \/ TakeDelta
    \/ ResponseFairings
    \/ StripBody
    \/ Send
    \/ \E cookies \in BOOLEAN :
           \/ \E m \in Methods : RequestFairings(m, cookies)
           \/ Handler(cookies)
           \/ Catcher(cookies)

Done == pc \in Final /\ UNCHANGED vars

Next == Step \/ Panic \/ Disconnect \/ Done

Spec == Init /\ [][Next]_vars

-----------------------------------------------------------------------------
\* The number of handlers among the first n that ran while the method was m
Calls(m, n) == Cardinality({k \in 1..n : log[k].method = m})

\* Every route of the pass with method m has been tried.
Tried(m) == Calls(m, Len(log)) = Len(table[m])

\* The status that the first catcher is asked for
FirstStatus ==
    IF malformed THEN 400
    ELSE IF log # <<>> /\ Last(log).method = method THEN Last(log).outcome.status
    ELSE 404

\* route() tries the matching routes in routing order, each at most once per
\* pass, and goes on only after a forward; the response of a route is the one
\* of the last handler that ran; an error is dispatched only after an error, or
\* when every route of the pass (for a HEAD, of both passes) has forwarded.  The
\* status the first catcher is asked for: 400 for a malformed request, what the
\* failing route said (500 after a panic), else what the last route of the last
\* pass forwarded with, else 404.
FirstAnswerWins ==
    /\ \A n \in 1..(Len(log) - 1) : log[n].outcome.kind = "forward"
    /\ \A n \in DOMAIN log :
          LET m == log[n].method IN
          Calls(m, n) \in DOMAIN table[m] /\ log[n].route = table[m][Calls(m, n)]
    /\ resp # NoResponse /\ resp.by[1] = "route" =>
          /\ Last(log).outcome.kind = "success"
          /\ resp.by[2] = Last(log).route
    /\ caught # <<>> /\ ~malformed
           /\ (log = <<>> \/ Last(log).outcome.kind = "forward") =>
          \A m \in {method} \cup (IF was_head THEN {"HEAD"} ELSE {}) : Tried(m)
    /\ caught # <<>> => caught[1].status = FirstStatus

\* An error response carries no cookie of a route handler or request fairing:
\* dispatch_error() resets the delta of the jar before the first catcher runs.
NoRouteCookiesInErrors ==
    resp # NoResponse /\ resp.by[1] = "catcher" =>
        \A c \in resp.cookies : c[1] = "catcher"

\* dispatch_error(): at most the catcher of the error and then the one of 500
\* run; the built-in catcher answers only when no registered catcher matches
\* the status at hand, or when the 500 catcher has failed too.
CatcherChain ==
    /\ Len(caught) <= 2
    /\ Len(caught) = 2 => ~caught[1].ok /\ caught[1].status # 500 /\ caught[2].status = 500
    /\ resp # NoResponse /\ resp.by = <<"catcher", Builtin>> =>
          \/ CatcherFor(Last(caught).status) = Builtin
          \/ ~Last(caught).ok /\ Last(caught).status = 500

Readable(body) == body \in {"seekable", "unsized"}

\* What leaves dispatch() is a well framed message: a Content-Length is that of
\* the body that follows, except in the response to a HEAD and in a 304, which
\* have no body; a 204 has neither.
WellFramed ==
    /\ resp.length = "size" => Readable(resp.body) \/ wire = "HEAD" \/ resp.status = 304
    /\ resp.length = "zero" => ~Readable(resp.body)
    /\ was_head \/ resp.status \in {204, 304} => ~Readable(resp.body)
    /\ resp.status = 204 => resp.length = "unset"

\* dispatch(): the message is well framed unless the method was rewritten to
\* or from HEAD on the way.
FramedUnlessRenamed ==
    pc = "upgrade" /\ ~malformed /\ (was_head <=> wire = "HEAD") => WellFramed

-----------------------------------------------------------------------------
(* The inductive invariant behind the four                                 *)

RequestOK ==
    /\ wire \in Methods /\ malformed \in BOOLEAN /\ table \in Tables
    /\ catchers \subseteq {AnyStatus, 404, 500}

Call == [method : Methods, route : Routes,
         outcome : [kind : {"success", "error", "panic", "forward"}, status : Nat]]
Catch == [status : Nat, owner : Nat, ok : BOOLEAN]
HistoryOK == log \in Seq(Call) /\ caught \in Seq(Catch)

\* The request has not come to dispatch() yet, or there is no request any more.
Idle == {"preprocess", "fairings", "dispatch", "aborted"}

\* What route() has tried, and what is left of its iterator
RouteInv ==
    /\ pc \in Idle \/ malformed => log = <<>>
    /\ pc \in {"dispatch", "route"} => ~malformed
    /\ \A n \in 1..(Len(log) - 1) : log[n].outcome.kind = "forward"
    /\ \A n \in DOMAIN log :
          LET m == log[n].method IN
          Calls(m, n) \in DOMAIN table[m] /\ log[n].route = table[m][Calls(m, n)]
    /\ pc = "route" =>
          /\ \A n \in DOMAIN log : log[n].outcome.kind = "forward"
          /\ Calls(method, Len(log)) + Len(todo) = Len(table[method])
          /\ \A i \in DOMAIN todo : todo[i] = table[method][Calls(method, Len(log)) + i]

\* A HEAD request is routed as such, and then as a GET.
PassInv ==
    pc \notin Idle /\ ~malformed =>
        /\ method = "HEAD" => was_head
        /\ was_head => method \in {"HEAD", "GET"}
        /\ was_head /\ method = "GET" => Tried("HEAD")
        /\ \A n \in DOMAIN log : log[n].method = method \/ (was_head /\ log[n].method = "HEAD")

\* What sends a request to the catchers, and with which status
ErrorInv ==
    /\ pc \in {"route", "error"} \/ (pc = "catch" /\ caught = <<>>) => status = FirstStatus
    /\ (pc \in {"error", "catch"} \/ caught # <<>>) /\ ~malformed
           /\ (log = <<>> \/ Last(log).outcome.kind = "forward") =>
          method # "HEAD" /\ Tried(method)
    /\ caught # <<>> => caught[1].status = FirstStatus

\* The catchers that have run, and the response of the last one
CatchInv ==
    /\ pc \in Idle \cup {"route", "error"} => caught = <<>>
    /\ pc = "catch" /\ caught # <<>> =>
          Len(caught) = 1 /\ ~caught[1].ok /\ caught[1].status # 500 /\ status = 500
    /\ CatcherChain

\* Whose cookies are pending, and who made the response
ResponseInv ==
    /\ pc = "catch" \/ (pc = "finish" /\ resp.by[1] = "catcher") =>
          \A c \in jar : c[1] = "catcher"
    /\ resp # NoResponse /\ resp.by[1] = "route" =>
          /\ Last(log).outcome.kind = "success"
          /\ resp.by[2] = Last(log).route
    /\ pc \in {"finish", "response", "strip"} =>
          ~malformed /\ resp.body \in {"empty", "seekable", "unsized"}
    /\ NoRouteCookiesInErrors
    /\ FramedUnlessRenamed

IInv == TypeOK /\ RequestOK /\ HistoryOK /\ RouteInv /\ PassInv /\ ErrorInv /\ CatchInv /\ ResponseInv

=============================================================================
