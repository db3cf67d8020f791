------------------------------ MODULE Cookies ------------------------------
(***************************************************************************)
(* core/lib/src/http/cookies.rs, and the cookies of the tracking client in *)
(* core/lib/src/local/asynchronous.                                        *)
(*                                                                         *)
(* A request's jar holds the cookies the request came with and the list of *)
(* operations that handlers have pushed since; the list becomes the        *)
(* Set-Cookie headers of the response.  Several requests of one client may *)
(* be in flight: each starts from a copy of the client's cookies and its   *)
(* response is merged into whatever they are by then.                      *)
(*                                                                         *)
(* The cookie crate is external: its delta is keyed by name, and a private *)
(* cookie is a sealed value.                                               *)
(***************************************************************************)
EXTENDS Naturals, Sequences, FiniteSetsExt

CONSTANTS
    Requests,   \* requests of one client
    Names,      \* names of cookies
    Plain,      \* values given to add()
    Secret,     \* values given to add_private()
    Absent,     \* no cookie: None
    Expired,    \* a removal cookie: it expires in the past
    MaxOps      \* bound: operations on one jar

Cookie == [value : Plain \cup Secret, sealed : BOOLEAN]

ASSUME CookieAssumption ==
    /\ Absent \notin Cookie /\ Expired \notin Cookie /\ Absent # Expired
    /\ Plain \cap Secret = {}
    /\ MaxOps \in Nat

VARIABLES
    client,     \* the client's cookies: by name, a stored cookie or Absent
    req         \* by request: [phase, jar, ops, delta, seen]

cookieVars == <<client, req>>

Jar == [Names -> Cookie \cup {Absent}]
Op == [kind : {"add"}, name : Names, cookie : Cookie] \cup [kind : {"remove"}, name : Names]

Delta == [Names -> Cookie \cup {Absent, Expired}]

Stored(value, sealed) == [value |-> value, sealed |-> sealed]

NoCookies == [n \in Names |-> Absent]

IdleRequest ==
    [phase |-> "idle", jar |-> NoCookies, ops |-> <<>>, delta |-> NoCookies, seen |-> NoCookies]

CookieTypeOK ==
    /\ client \in Jar
    /\ req \in [Requests -> [phase : {"idle", "live", "responded"}, jar : Jar, ops : Seq(Op),
                             delta : Delta, seen : Jar]]
    /\ \A r \in Requests : Len(req[r].ops) <= MaxOps

CookieInit ==
    /\ client = NoCookies
    /\ req = [r \in Requests |-> IdleRequest]

-----------------------------------------------------------------------------
\* CookieJar::get_private: what opens under the key.  An opened cookie is plain.
GetPrivate(jar, n) ==
    IF jar[n] # Absent /\ jar[n].sealed THEN Stored(jar[n].value, FALSE) ELSE Absent

\* CookieJar::get_pending: the last operation on the name decides; without one,
\* the original cookie, opened if it is private.
GetPending(jar, ops, n) ==
    LET mine == {i \in DOMAIN ops : ops[i].name = n} IN
    IF mine # {}
    THEN LET op == ops[Max(mine)] IN IF op.kind = "add" THEN Stored(op.cookie.value, FALSE) ELSE Absent
    ELSE IF GetPrivate(jar, n) # Absent THEN GetPrivate(jar, n) ELSE jar[n]

\* One turn of the loop of take_delta_jar: `delta` is the fresh jar that
\* collects the headers.  A removal is sent only for an original cookie;
\* otherwise the addition it cancels is taken back.
ApplyOp(jar, delta, op) ==
    [delta EXCEPT ![op.name] =
        IF op.kind = "add" THEN op.cookie
        ELSE IF jar[op.name] # Absent THEN Expired
        ELSE Absent]

\* Removing a cookie that the request did not bring is ignored.
DeltaIgnoresRemove(jar, ops) ==
    LET delta[i \in 0 .. Len(ops)] ==
            IF i = 0 THEN NoCookies
            ELSE IF ops[i].kind = "remove" /\ jar[ops[i].name] = Absent THEN delta[i - 1]
            ELSE ApplyOp(jar, delta[i - 1], ops[i])
    IN delta[Len(ops)]

\* CookieJar::take_delta_jar
TakeDeltaJar(jar, ops) ==
    LET delta[i \in 0 .. Len(ops)] ==
            IF i = 0 THEN NoCookies ELSE ApplyOp(jar, delta[i - 1], ops[i])
    IN delta[Len(ops)]

-----------------------------------------------------------------------------
\* LocalRequest::new: the client's cookies are the request's original ones.
NewRequest(r) ==
    /\ req[r].phase = "idle"
    /\ req' = [req EXCEPT ![r] = [IdleRequest EXCEPT !.phase = "live", !.jar = client]]
    /\ UNCHANGED client

Push(r, op) ==
    /\ req[r].phase = "live"
    /\ Len(req[r].ops) < MaxOps
    /\ req' = [req EXCEPT ![r].ops = Append(@, op)]
    /\ UNCHANGED client

\* CookieJar::add
Add(r, n, value) == Push(r, [kind |-> "add", name |-> n, cookie |-> Stored(value, FALSE)])

\* CookieJar::add_private, sealed by take_delta_jar
AddPrivate(r, n, value) == Push(r, [kind |-> "add", name |-> n, cookie |-> Stored(value, TRUE)])

\* CookieJar::remove and remove_private
RemoveCookie(r, n) == Push(r, [kind |-> "remove", name |-> n])

\* CookieJar::reset_delta, called when an error is dispatched
JarResetDelta(r) ==
    /\ req[r].phase = "live"
    /\ req' = [req EXCEPT ![r].ops = <<>>]
    /\ UNCHANGED client

\* Rocket::dispatch: the delta becomes the Set-Cookie headers.
Respond(r) ==
    /\ req[r].phase = "live"
    /\ req' = [req EXCEPT ![r].phase = "responded", ![r].ops = <<>>,
                          ![r].delta = TakeDeltaJar(req[r].jar, req[r].ops),
                          ![r].seen = [n \in Names |-> GetPending(req[r].jar, req[r].ops, n)]]
    /\ UNCHANGED client

\* One header of a response: an expired cookie is dropped from the client's jar,
\* any other is added to it.
Tracked(old, header) ==
    IF header = Absent THEN old ELSE IF header = Expired THEN Absent ELSE header

\* The client takes the request's view of the jar for its own.
TrackWholeJar(r) ==
    /\ req[r].phase = "responded"
    /\ client' = [n \in Names |-> Tracked(req[r].jar[n], req[r].delta[n])]
    /\ req' = [req EXCEPT ![r] = IdleRequest]

\* LocalRequest::_dispatch, after the response
Track(r) ==
    /\ req[r].phase = "responded"
    /\ client' = [n \in Names |-> Tracked(client[n], req[r].delta[n])]
    /\ req' = [req EXCEPT ![r] = IdleRequest]

CookieNext ==
    \E r \in Requests :
        \/ NewRequest(r) \/ JarResetDelta(r) \/ Respond(r) \/ Track(r)
        \/ \E n \in Names : \/ \E value \in Plain : Add(r, n, value)
                            \/ \E value \in Secret : AddPrivate(r, n, value)
                            \/ RemoveCookie(r, n)

CookieSpec == CookieInit /\ [][CookieNext]_cookieVars

-----------------------------------------------------------------------------
\* A request alone in flight leaves the client with exactly the cookies that
\* get_pending() showed when the response was made: the list of operations,
\* folded into headers and replayed by the client, comes to the same jar.
Alone(r) == \A q \in Requests \ {r} : req[q].phase = "idle"

\* What a later request will read of each name
View(jar) == [n \in Names |-> GetPending(jar, <<>>, n)]

ClientSeesPending ==
    [][\A r \in Requests : req[r].phase = "responded" /\ req'[r].phase = "idle" /\ Alone(r)
          /\ req[r].jar = client => View(client') = req[r].seen]_cookieVars

\* Requests in flight at the same time: a response changes only cookies it sets
\* or removes, and the client ends with what the request saw for those.
ResponsesMerge ==
    [][\A r \in Requests, n \in Names :
          /\ req[r].phase = "responded" /\ req'[r].phase = "idle"
          => IF req[r].delta[n] = Absent THEN client'[n] = client[n]
             ELSE View(client')[n] = req[r].seen[n]]_cookieVars

-----------------------------------------------------------------------------
\* What get_pending() showed of a name when the response was made, given the header
\* that the response has for it
SeenOK(j, header, seen, n) ==
    IF header = Absent THEN seen = GetPending(j, <<>>, n)
    ELSE IF header = Expired THEN seen = Absent
    ELSE seen = Stored(header.value, FALSE)

CookieInv ==
    /\ CookieTypeOK
    /\ \A r \in Requests : req[r].phase = "responded" =>
          \A n \in Names : SeenOK(req[r].jar, req[r].delta[n], req[r].seen[n], n)
=============================================================================
