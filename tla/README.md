# TLA+ models of Rocket

Rocket is an asynchronous web framework for Rust. An application is built from
routes, error catchers and fairings (callbacks at fixed points), ignited, and
launched; a launched application accepts connections, runs each request through
routing and error handling, and shuts down in stages. This directory models the
parts of that which keep state or make decisions, model-checks them with TLC on
small instances, and proves most of the safety results with TLAPS for every instance.

All paths below are relative to `src/`. `lib` stands for `core/lib/src`, `http`
for `core/http/src`.

To repeat a check: `tlc -config Shutdown.cfg Shutdown`, `tlapm ShutdownProofs.tla`;
`PROJECT.json` lists every run with its module and configuration, the source lines
of every definition, and for each checked property a mutated definition under
which TLC finds it violated.

## 1. Inventory

### Components

| Component | Source | State | Operations |
|---|---|---|---|
| Trip wire | `lib/shutdown/tripwire.rs` | an atomic flag, tokio's list of waiters, an `event` per handle | `poll`, `trip`, `clone`, `drop` |
| Shutdown stages | `lib/shutdown/handle.rs`, `sig.rs` | three wires (start, grace, mercy), one task that sleeps between them | `notify`, `spawn_listener` |
| Cancellable I/O | `lib/listener/cancellable.rs` | Active, Grace or Mercy per connection | `poll_with` around each read, write and flush |
| Server | `lib/server.rs`, `lib/rocket.rs` | two accept loops, one task per connection and per HTTP/3 stream, the shared `Arc<Rocket>` | `listen_and_serve`, `serve12`, `serve3`, `_launch`, `try_wait_shutdown` |
| Request lifecycle | `lib/lifecycle.rs`, `lib/server.rs` | method, status, jar, response of one request | `preprocess`, `dispatch`, `route`, `dispatch_error`, `invoke_catcher` |
| Router | `lib/router/`, `lib/route/`, `lib/catcher/` | routes and catchers, tables by method and code | `mount`, `register`, `finalize`, `route`, `catch` |
| Origin URIs | `http/uri/origin.rs`, `path_query.rs`, `segments.rs` | a path and a query | normalization, `segments`, `prefix_of` |
| Fairings | `lib/fairing/` | a list of fairings, index vectors by kind, `num_ignited` | `add`, `append`, `handle_ignite`, `audit`, the other callbacks |
| Cookies | `lib/http/cookies.rs` | original cookies and a list of pending operations | `add`, `add_private`, `remove`, `get_pending`, `take_delta_jar`, `reset_delta` |
| Local client | `lib/local/` | a cookie jar behind a lock | requests, `_dispatch`, `terminate` |
| Rocket phases | `lib/rocket.rs`, `lib/phase.rs` | Build, Ignite, Orbit; managed state | `mount`, `manage`, `attach`, `ignite`, `launch` |
| Sentinels | `lib/sentinel.rs` | a graph of types, the answers by type | `query` |
| Incoming data | `lib/data/` | a peek buffer, a limited stream, a chain of transforms, named limits | `peek`, `open`, capped reads, `limit_exceeded` |
| Request-local state | `lib/request/request.rs` | a cell per type | `local_cache`, `local_cache_async` |
| Bodies and streams | `lib/response/` | a body, a line in progress, a stream joined with a timer | `strip`, `ReaderStream`, event streams |
| Forms | `lib/form/`, `core/codegen/src/derive/from_form.rs` | a tree of contexts of the push parser | `init`, `push_value`, `push_data`, `push_error`, `finalize` |
| Files | `lib/fs/` | a temporary file, a chain of rewrites | `persist_to`, `copy_to`, `move_copy_to`, `FileServer` |
| Listeners, TLS, HTTP/3 | `lib/listener/`, `lib/tls/` | sockets, a lock file, key material | `bind`, `accept`, `connect` |
| Configuration, Shield | `lib/config/`, `lib/shield/` | constant after ignition | extraction; a response fairing |
| Media types and headers | `http/` | values | parsing, comparison |
| Code generation | `core/codegen/` | compile time only | attribute and derive macros |
| Database pools | `contrib/sync_db_pools`, `contrib/db_pools` | a semaphore, a pool, a connection behind a mutex | `get_one`, `run`, `drop` |
| Dynamic templates | `contrib/dyn_templates` | the engines behind a lock, a watcher | `render`, `reload_if_needed` |
| WebSockets | `contrib/ws` | an upgraded connection | upgrade, stream of messages |

### How they interact

`launch()` calls `ignite()`, which runs the ignite fairings (these may attach more
fairings, mount routes, register catchers and manage state), checks the
configuration, finalizes the router and asks the sentinels of every route. It then
spawns the task of `Stages::spawn_listener` and enters the accept loops, which
spawn one task per connection. A connection task polls hyper, which reads a
request through `CancellableIo` and calls `Rocket::service`: preprocessing and
request fairings, the routes the router gives, on failure the catchers it gives,
then the response fairings. Guards read the body through `Data`, forms from it;
handlers borrow database connections and render templates. Cookies set on the way
are operations in the jar of the request and become headers at the end. Every long
wait is raced against a trip wire. When the start wire is tripped the accept loops
end, `launch()` spawns the shutdown fairings and waits for a bounded time until
nobody else holds the `Arc<Rocket>`.

### What is hard

* **Wake-ups.** A poll looks at the flag, registers, and looks again, while
  another thread stores the flag and notifies the list. A wake-up lost between
  any two of these steps leaves a server that never stops.
* **Timers side by side.** The stage task and `try_wait_shutdown` count their
  periods independently and start at different moments; connections may be polled
  long after a stage has passed.
* **Shared ownership.** The strong count of an `Arc` decides whether `launch()`
  gives the application back, while other tasks clone and drop it.
* **Handlers that panic, forward and fail** after they have set cookies or the
  method has been rewritten; catchers that fail themselves.
* **Two implementations of one relation.** Matching and collision checking are
  separate loops; the promise that routing is unambiguous rests on their agreeing.
* **A list that changes while it is walked**: ignite fairings attach and replace
  fairings during ignition.
* **Jobs that outlive their request.** A database connection is used and returned by
  blocking jobs that nothing cancels, while permits, connections and threads run
  out independently.
* **Streams cut anywhere.** A body arrives in pieces of any size, partly read ahead,
  limited, and passed through transforms that swallow or add data; a form arrives
  field by field and is assembled without looking back.
* **Files that change while they are loaded**, by requests that reload side by side.
* **Crashes of one server and starts of another** over one socket path, with a lock
  on a file that is removed while others open it.
* **Futures dropped half-way.** A file is renamed, kept or copied by a job that goes
  on when nobody waits for it any more; a cached value is made by a guard that is
  cancelled, or by two.
* **Stale copies**: the client's cookies are copied into each request and merged
  back when other responses may have changed them.

`PROJECT.json` lists these as hazards, each at its line and with the properties
that would catch it going wrong.

### What makes each component correct

* Trip wire: nobody gets through before `trip()`, everybody who waits is let
  through after it, and the list of waiters never points to a freed event.
* Shutdown: stages in order and on time, no I/O cut off early, no task asleep on
  a stage that has passed, both servers joined, `launch()` returns, and returns `Ok`
  only when it is the sole owner.
* Lifecycle: the first answer wins, the right catcher answers, cookies do not
  leak into error responses, the message is well framed.
* Router: unambiguous, complete, and the catcher chosen is the only best one.
* URIs: rewriting never changes which segments a URI denotes.
* Fairings: what has run stays in place when a singleton replaces its predecessors, and
  after ignition every active ignite fairing has run once.
* Ignition and sentinels: a rocket that ignites has everything its handlers ask
  for, and exactly the sentinels that must abort are reported.
* Cookies: what a handler saw is what the client has afterwards, concurrent
  responses merge.
* Data: no byte lost or repeated, completeness exact at the limit, a chain of
  transforms does to a stream what it does to a whole body.
* Forms: assembling fields as they come gives what all fields together mean, and a
  truncated upload is not taken for a valid struct.
* Database pool: a connection has one user at a time, nobody waits for ever, and
  the pool is full again in the end.
* Templates: what is served is complete, and catches up with the directory.
* Temporary files: the path of an upload names a whole copy, whatever has failed, and
  what nobody kept is removed.
* Unix listener: a server that serves owns the socket, and one that crashed can be
  started again.
* Event streams: the client parses exactly the events that were sent, however they
  are cut, and heartbeats neither stop nor go on for ever.
* Request-local state: all callers of a request get one value.

## 2. Modules

| Module | Models | Role |
|---|---|---|
| `Latch` | what a trip wire promises | abstract specification |
| `TripWire` | `tripwire.rs`, one step per atomic access | component; implements `Latch` |
| `TripWireProofs` | | proofs |
| `Origin` | normal forms and segments of URIs | operators |
| `OriginCalls` | a program that rewrites a URI with any calls | component |
| `Routing` | matching, colliding, mounting | operators, on top of `Origin` |
| `Router`, `MCRouter` | `mount`, `register`, `finalize`, `route`, `catch` | component, instance |
| `RouterProofs` | | proofs about `Routing`, `Router` and `OriginCalls` |
| `Fairings` | attaching and igniting fairings | component |
| `Ignition`, `MCIgnition` | `ignite()`: fairings, configuration, router, sentinels | composition on top of `Fairings`, instance |
| `IgnitionProofs` | | proofs about `Fairings` and `Ignition` |
| `Lifecycle` | one request from arrival to response | component |
| `Cookies` | jars of a tracking client's requests | component |
| `MCLifecycle` | `Lifecycle` or `Cookies` | instance of the two, one per behaviour |
| `LifecycleProofs` | | proofs about `Lifecycle` and `Cookies` |
| `Shutdown` | stages, connections and streams, both servers, `launch()` | composition of four source files |
| `ShutdownProofs` | | proofs |
| `Data`, `MCData` | the body of a request, from peek to capped value | component, instance |
| `DataProofs` | | proofs about `Data` and `Templates` |
| `DbPool`, `MCDbPool` | connections of `sync_db_pools` | component, instance |
| `DbPoolProofs` | | proofs |
| `Forms`, `MCForms` | the push parser, with a reference semantics of forms | component, instance |
| `Templates`, `MCTemplates` | reloading and rendering of `dyn_templates` | component, instance |
| `TempFile` | an upload, the calls that move it, and a file system | component |
| `UnixListener` | servers over one socket path | component |
| `EventStream` | `sse.rs`, `raw_sse.rs`, `reader.rs`, `join.rs` and a client | composition |
| `LocalCache` | the request-local cache | component |
| `StandaloneProofs` | | proofs about `LocalCache`, `UnixListener`, `TempFile` and `EventStream` |
| `MCStandalone` | `LocalCache`, `OriginCalls`, `TempFile`, `UnixListener` or `EventStream` | instance of the five, one per behaviour |

`Forms` needs recursive operators (types are nested) and is therefore only
model-checked; no module with a theorem reaches it.

### TripWire

`tripped` is the atomic flag, `calls` counts `notify_waiters()`, `event[w]` is the
count that the `Notified` of handle `w` captured, `registered` the list of waiters.
`BeginPoll`, `Check`, `Subscribe`, `PollEvent` and `Recheck` are the statements of
`poll()`; `Store` and `NotifyWaiters` those of `trip()`; `Clone` and `Drop` the
trait methods. Handles are polled by their own tasks, so that the steps of several
polls and several calls of `trip()` interleave freely. tokio's `Notify` is
external: `notify_waiters()` holds the list's lock and is one step, and a
`Notified` is ready once a call came after its creation.

`Latch` has a flag and handles that are held, waiting, passed or dropped. The
refinement maps a handle to `waiting` from its first poll until some poll has
returned `Ready`, and to `passed` afterwards.

### Origin and Routing

A path is the sequence of raw texts between its slashes, a query that of its
fields. A text is a model value, and the constant operator `Decode` says what
percent-decoding makes of it, so that encoded and decoded texts are different
things. `Normalized`, `IntoNormalizedNontrailing`, `Segments`, `QuerySegments` and
`PrefixOf` translate the functions of the same names. `Kept` replaces `SelectSeq`
(whose definition is recursive), here and in `Router`, so that the provers can reason
about it. `OriginCalls` is a program that starts from any parsed URI and calls
`Normalize`, `NormalizeNontrailing` and `DropQuery` in any order.

`Routing` builds on that: `RouteUri` and `Rebase` give the effective URI and base
of a mounted route, `DefaultRank` the rank by color, `Matches` is `matcher.rs`,
`Collide` and `CatchersCollide` are `collider.rs`. The loops over zipped segments,
which return early at a trailing parameter, become a disjunction: all segments
pair up, or there is a trailing parameter before which all do.

### Router

`routes` and `catchers` grow by `Mount`, `Remount` (a fairing may mount what
`rocket.routes()` returns) and `Register`; `FinalizeOk` and `FinalizeErr` are the
two results of `finalize()`. `Route` and `Catch` are the look-ups afterwards.

### Fairings

`fs` is the struct, with one index vector per kind of callback. `Add` is
`Fairings::add` with its replacement of singletons; `AppendOne` is a turn of the
loop of `append`, which adds again what a batch attached, the replaced ones too.
`BeginBatch`, `Return`, `EndBatch` and `EndIgnite` are `handle_ignite`; `Audit`
decides between ignition and failure. What a fairing does is external: it attaches
anything and returns `Ok` or `Err`.

### Ignition

`Ignition` extends `Fairings`: each of its steps before the audit is `RunFairings`,
and while the application is being built or an ignite fairing runs, `Mount` and
`Manage` may come in between. `Configure` is the extraction of the configuration
and the check of the secret key, `FinalizeRouter` the collision check, after which
`QueryOne` takes the sentinels of all mounted routes from the queue of
`sentinel::query`, one by one. Which routes collide is a parameter here: that is
what `Router` is about. The graph of types is the merged one of all routes, as in
`query`: a type that one route hides inside a sentinel that decides for itself is asked
all the same if another route leads to it, and `QueryIsExact` says so. Each `?` of `ignite()` is an end of its own, named after the
`ErrorKind`; a second value of one type panics.

### Lifecycle

One request. Its arrival fixes the method hyper parsed, whether it is malformed,
which routes match each method (the result of `Router!Route`) and which catchers
exist. `Preprocess` may rename a POST by the `_method` field; `RequestFairings` may
set any method. `Succeed`, `Fail`, `HandlerPanics` and `Forward` are the outcomes of
one turn of the loop in `route()`; `Reroute` is the second pass of a HEAD as GET.
`ResetDelta`, `CatcherSucceeds` and `CatcherFails` are `dispatch_error()` and
`invoke_catcher()`; `TakeDelta`, `ResponseFairings` and `StripBody` the rest of
`dispatch()`; `Send` is the end of `service()`, upgrades included. At any step the
client may disconnect (hyper drops the future), and a panic in a fairing, which
nothing catches, unwinds the task. A cookie is represented by who set it, a body
by its kind, a Content-Length by whether it is absent, zero, or the body's size.

### Cookies

Each request has the cookies it came with, the list of operations, and finally the
delta its response carries. `TakeDeltaJar` applies the operations one after the other,
`GetPending` is what a handler reads. `NewRequest` copies the client's cookies, `Track`
merges the response into whatever they are by then (`Tracked`, name by name). The cookie crate is external: a delta is
keyed by name, a private cookie is a value marked as sealed. The properties of
a jar are those of `CookieSpec`; `MCLifecycle` checks it in the run of `Lifecycle`, from
which it is kept apart by `part`, chosen initially.

### Shutdown

* `tripped[s]` for the three stages. By `WireIsLatch` a wire is a latch, so here
  `Trip(s)` sets the flag and wakes the registered tasks in one step.
* `stager` is the task of `spawn_listener`: it ends its select by `Signal` or
  `NoticeStart`, sleeps, trips, sleeps, trips.
* `launch` is the task of `launch()`: liftoff fairings, serving, waiting through
  the five periods `<<1, Grace, 1, Mercy, 1>>` of `try_wait_shutdown`. When a liftoff
  fairing panics (`launch.crashed`) nothing is served, and `launch()` returns that error
  after the waiting, in any case; `launch.rocket` is what `try_wait_shutdown` returned,
  which is the result of `launch()` or a part of that error (`GiveBack`).
* `launch.loops` are the accept loops that still run. `serve12` and, if there is a
  QUIC endpoint, `serve3` each end by `StopServing` or `Panic`, `serve3` also by
  `EndpointCloses`; `Join` is the `join!` of both and the two `?` after it.
* A connection of HTTP/3 waits for its next stream, racing the start stage; each
  stream is a task that first runs the service, racing the mercy stage, then sends
  the response, racing the grace stage. `QuicReady` and `QuicPends` are their polls.
* `conn[c]` is a connection task: what it waits for, its `CancellableIo` state,
  whether `graceful_shutdown()` has been called, which wires hold its waker, and
  whether it is on the run queue. A poll is one of `IoDone`, `IoFails`, `IoPends`,
  `IoCancelled`, `IoTimesOut`, `HandlerReturns`, `Connect`. `StateNow` is the loop
  of `poll_with`, which may pass through two states in one poll.
* Time is counted in ticks of the short wait of `try_wait_shutdown`; a tick may
  pass at any moment, also while tasks could run. The history variable `late`
  records that it did.

hyper is external. What the model takes from it: `graceful_shutdown()` closes an
idle connection and lets a busy one finish; a connection is flushed in every poll,
also while a handler is pending, so that `poll_with` is reached in every poll.

### Data

A body of n bytes is `1 .. n`. `PeekRead`, `PeekEnd` and `PeekErr` are the three arms
of the loop of `Peekable::peek`; any number of peeks, each of which may be dropped
between two turns, precede `Open`. `BaseReads` is `Take<Chain<buffer, body>>`. A
read of the opened stream applies `PollRead`, the body of `TransformReader::poll_read`,
to one transform after the other (`Polls`, a recursive function over the levels),
leaving out those below a level that has ended (`NotRead`): a level whose inner
stream has ended does not read it again, and an emptied read is `Pending` after a
wake-up. `HasReturned`, `Flows` and `FlowInv` say what has flowed from level to level. `LimitExceeded` is the test for one byte more. What transforms do is
external; the four kinds let everything pass, drop some, swallow everything and
answer at the end, or add at the end. The transport returns any number of bytes
that fit, breaks at a position fixed in advance, and after an error that was
reported may report the end.

### DbPool

`task[r]` is the future of a request, `job` the progress of every blocking job: the
one that gets a connection, each call of `run()`, the one that returns the
connection. `queue` feeds `MaxBlocking` threads. Jobs are never cancelled; `Cancel`
drops the future wherever it is, and what its job returns is then dropped by the
job. `RunLocks` is `lock_owned()` followed by `expect()`, `RunEnds` the return or
panic of the closure. `DropConnection` and `DropOutside` are the two branches of
`Drop`. tokio's semaphore (a queue), its blocking pool, and r2d2 are external. A
connection that r2d2 finds broken and replaces is not told apart from one that
comes back.

### Forms

A type is a tree (`field`, `vec`, `map`, `struct`, `option`, `result`, `strict`,
`lenient`, `contextual`), a context a tree of the same form. `New`, `Push` and
`Finalize` are `init`, `push_value`/`push_data` and `finalize` of each type, the ones for
structs being what `derive(FromForm)` generates. The text of a value is known by
what `Parse` makes of it. `Means` is the reference: it reads off all fields at once
what the form means, by grouping them, and has no contexts.

### Templates

A load of the directory walks the files, then reads those of eager engines, one per
step, while files change in between. A file is a version and whether it is
acceptable to its engine. `Drain` empties the channel of the watcher under its lock,
`Replace` needs the write lock, `Lock` and `Render` are the two halves of a response.
Files of Minijinja are read when they are first rendered. The history variables
number the loads in the order in which they began. A directory that is gone fails the
load at once (`NoRoot`), for the ignition as for a reload. `Agrees` compares a Context, or the
part of one that a load has walked so far, with the directory.

### TempFile

`link` and `data` are a small file system: paths lead to files, files have a content
(the whole upload, the old file, or cut). A method takes the path out of `self` and
starts a job (`PersistTo`, `CopyTo`), the job runs on its own (`Renames`, `Keeps`,
`Opens`, `Fills`, `Removes`, each of which may fail), and the method goes on with its
result (`Persisted`, `Renamed`, `PathKept`, `Copied`, `Written`, `Removed`). `Cancel` drops
the future: its job becomes an orphan, and what it returns is dropped by `OrphanEnds`,
which removes the file of a `TempPath`. `Drop` drops the `TempFile`. `noted` collects
the four things after which the path may not be whole. A job that panics, or is
refused because the runtime shuts down, is not modelled.

### UnixListener

One action per system call of `bind()` and of `Drop`, for several processes. `fd[p]`
is the file (an inode) that process `p` has opened as its lock, `lockFile` the one at
the path; `locked` are the processes that have the `flock()` of the file they opened,
from which a process that ends or crashes disappears, and `at[p]` is where a process is.
`sock` is who has bound the socket at the path. `BindErr` may also
happen for a free path, as the comment in the code says; how often is bounded by
`MaxFlakes`.

### EventStream

`NextOfA`, `AEnds`, `Heartbeat` and `BothPending` are the outcomes of `Join::poll_next`,
`ReadName` to `ReadNewLine` the states of `RawLinedEvent::poll_read`, byte by byte,
and `PollReturns` what `ReaderStream` makes of its result. `Poll(n)` is a poll with a
buffer of `n`. The task sleeps when both streams are pending, and `waits` says whose
waker was registered. Each byte goes to the client, an automaton for the grammar
quoted in `raw_sse.rs`; by `colon [ space ] *any-char` it drops one space at the start of a
value (`Unpadded`). What it makes of the events is stated apart: `Lines` cuts a
text at its newlines, `Meaning` and `Told` give the fields of an event and of a script.

### LocalCache

`Look`, `Make`, `Set` and `Get` are the four accesses of `local_cache()` and
`local_cache_async()`; `Abandon` is a future that is dropped while it is awaited, or a
closure that panics. The container keeps the first value stored.

### MCStandalone

`OriginCalls`, `TempFile`, `UnixListener`, `EventStream` and `LocalCache` share no state
with any other module. `MCStandalone` extends all five; `part`, chosen initially, says which of them the behaviour is about, and the others stand still.
Its properties and its fairness are those of the modules, by their names there.

## 3. Runs

| Run | Bounds | Shows |
|---|---|---|
| `tripwire` | 2 handles, 2 calls of `trip()` | `NoLostWakeup`, `ListPointsToLiveEvents`, and `ImplementsLatch` with its liveness |
| `router` | 3 items out of 10 routes at 3 bases and catchers for two codes or any at 6 bases; 117 requests | `NoAmbiguity`, and `LookupsAreExact`: `RouteIsTheRanking` and `CatchIsTheBest` |
| `ignition` | 4 attachments of 4 fairings of 3 types, 3 routes with nested guards, 2 types of state; 632 344 states | `RanIsPrefix`, `QueryIsExact`, `ReadyIsSafe` |
| `lifecycle`: requests | 2 routes, catchers for 404, 500 and default, 4 kinds of response | `FirstAnswerWins`, `NoRouteCookiesInErrors`, `CatcherChain`, `FramedUnlessRenamed` |
| `lifecycle`: cookies | 2 requests in flight, 2 names, 2 operations each | `ClientSeesPending`, `ResponsesMerge` |
| `shutdown` | 1 connection of HTTP/1, 1 of HTTP/3 with 1 stream, grace 1 and mercy 2 ticks; 149 238 states | `NotCutShort`, `SleepersWillWake`, `ServersAreJoined`, `OkIsSoleOwner`, `FailsOnlyForFairings`, `ShutdownEnds` |
| `data` | bodies up to 4 bytes, a peek buffer and reads of 2, limits up to 5, chains of up to 2 of the 4 transforms | `NothingLostOrRepeated`, `CompleteIsExact`, `TransformsCompose`, `ReadingEnds` |
| `dbpool` | 3 requests, one with two concurrent calls of `run()`, 2 connections, 2 threads; 159 521 states | `ExclusiveUse`, `WaitsOnlyForLateReturns`, `RequestsEnd`, `PoolRecovers` |
| `forms` | 14 types, up to 4 fields; 271 270 states | `StreamingAgrees`, `BrokenIsRejected` |
| `templates` | 3 files with two names, 2 requests, 2 changes; 606 997 states | `ContextIsWhole`, `CaughtUp`, `RequestsEnd` |
| `standalone`: cache | 3 callers with 2 calls each | `FirstStoreWins` |
| `standalone`: URIs | paths up to 4, queries up to 2 segments, over three texts | `SegmentsSurvive` under any sequence of calls |
| `standalone`: files | 2 destinations, one of which may exist, 2 calls | `UploadIsSafe`: `PathIsWhole` and `TempIsRemoved` |
| `standalone`: servers | 3 processes, 3 starts, 1 retry, 1 spurious error | `ServersAreReachable`, `RestartSucceeds` |
| `standalone`: streams | up to 2 of 9 events, buffers of 1 and 2 bytes | `ClientUnderstands`, and `StreamIsLive`: `StreamEnds` and `HeartbeatsAreSent` |
| `temp_file_move` | as above | `MovedFileExists` is violated: see below |
| `event_lossless` | as above | `LfIsLossless` is violated: see below |

The two parts of `lifecycle` have 884 405 states together, the five of `standalone`
429 687.

Why the bounds are enough. A lost wake-up needs one poller and one tripper; the
second of each lets one be served while the other waits, and lets a second
`trip()` come late. Normalization looks at a segment and whether it is the last
one: four segments give empty ones at the start, in the middle, in a row and at the
end. Ambiguity is about pairs; the third item makes the order of the tables
matter. Four attachments let a batch attach a batch, and a singleton replace one
that has run, one that is running and one that is still to run; the three routes
share types, as an argument in one and inside an argument in another. One request
needs two routes for a forward followed by another outcome, and two catchers for a
failure of the second. Connections interact only through the stages and the count
of owners, so that one of each kind, with a stream that outlives its connection, is
enough for one task to be still open when another has ended; the mercy period is
longer than the grace period so that a wait that leaves it out ends too early. A
body of four with a buffer of two is met whole, in part and not at all by a peek,
and the limits lie below, at and above its size; two transforms are what the TODO
in `transform.rs` asks for, every pair of adding and consuming. Three requests for
two connections make one wait, and two threads can both be blocked in r2d2. Four
fields give a run, its interruption and its resumption, and a key before, after and
without its value. Two reloads can overtake each other.
Two calls on a file let one fail or be dropped, and the other meet what it left.
The third server starts while one stops and another waits at the lock; the code has
five retries, but only how they compare with the spurious errors matters. The texts of
the events have every kind of newline at the start, in the middle and at the end, and a
buffer of one or two cuts a name, a value and the gap between two lines; values start with
a space of their own, or with one made of a newline.

Each `TypeOK` documents the types of a module. Those of `TripWire`, `Shutdown`,
`DbPool`, `Lifecycle` and `UnixListener` are proved by name, those of `LocalCache`,
`TempFile`, `EventStream`, `Cookies` and `Templates` as part of the inductive invariants
(`IInv`, `FilesInv`, `StreamInv`, `CookieInv`, `TemplatesInv`); none is checked in a run.

Deadlock is checked in `lifecycle` and `shutdown`. It is not
where a system may really stop: all handles of a wire dropped, a router finalized,
an application ignited or refused, a body read, a form finalized, a temporary file
dropped, a stream ended, servers stopped, and all the requests for a pool, a template or a cached value served; nor in
`standalone`, where most of the parts may stop.

### Fairness

* `TripWire`: a poll or `trip()` that has begun goes on, and the runtime polls a
  task it was asked to wake. Nobody has to begin polling, or to call `trip()`.
* `Data`: whoever opened the stream reads it to its end, and the client sends on or
  the connection breaks. Nobody has to open it.
* `DbPool`: threads run their jobs, tasks are polled, closures return or panic,
  handlers end, and both waits for a connection have a timeout. Cancelling is
  allowed, not required.
* `Templates`: the watcher's thread and the tasks run on; files need not change. Each
  request renders once, so that `RequestsEnd` says nothing of a reload that waits while
  ever new requests render: whether it can starve is up to `std::sync::RwLock`.
* `UnixListener`: a process that runs goes on with its next system call. It need not
  start, stop or crash.
* `EventStream`: the task is polled when it was woken and the client takes what it
  gets. The application need not yield or end, and no tick need come.
* `Shutdown`: timers fire, tasks that can run are polled, liftoff fairings return.
  Shutdown fairings and peers may never answer, and of handlers only this is
  assumed: they do not block the thread that polls them. `poll_with` then runs
  again in each poll, which is why `ShutdownEnds` holds even for a handler that is
  pending for ever. `FailsOnlyForFairings` speaks of behaviours in which no tick
  passed while a task could run; without that, a task that is polled too late can
  make `launch()` give up before the connection has noticed the last stage.

### Disagreements between code and documentation

`temp_file_move`: `move_copy_to()` of an upload that was buffered (a field of a form that
is not multipart) first writes it to the destination, upon which `self` is a file at
the destination, and then removes the file that `self` names. The call returns `Ok` and
the upload is gone, where the documentation promises `a full copy at path`.

`event_lossless`: `RawLinedEvent` writes `name:value` with nothing in between, and a client
drops one space after the colon, by the grammar that `raw_sse.rs` quotes. A line of data
that starts with a space comes without it, where the documentation of `EventStream` says of
messages without carriage returns that `the conversion is lossless`. So do the values of
`id`, `event` and `retry`, also when the space stands for a newline (`farm_value`).
`ClientUnderstands` says that this space is all that is lost.

Others that were met on the way, where the properties state what the code does:

* `into_normalized_nontrailing()` keeps the trailing slash of a URI such as
  `/foo/?a&&b`, where only the query has to be normalized: `SegmentsSurvive` speaks of
  segments up to the trailing slash.
* Segments of a base stay percent-encoded in a route, those of a request are decoded,
  so a route mounted at an encoded base does not match its own effective URI.
* The delta is reset once, before the loop over catchers, so cookies of a catcher
  that failed are sent with the response of the next one; `NoRouteCookiesInErrors`
  speaks of the cookies of routes.
* A POST that is renamed to HEAD (by the `_method` field or a request fairing) gets a
  Content-Length and no body; hence the condition in `FramedUnlessRenamed`.
* `launch()` returns while a shutdown fairing that takes longer than all the periods
  is still running: the second reason in `FailsOnlyForFairings`.
* The error after a chain of forwards has the status of the last forward, not always
  404, and after a catcher has failed a registered 500 or default catcher is tried
  before the built-in one (`FirstAnswerWins`, `CatcherChain`).
* An error met while peeking is logged and dropped. If hyper then reports the end, the
  piece passes for the whole body: the exception in `CompleteIsExact`.
* `push_error()` does nothing for collections, options, `Strict` and `Lenient` (which do
  not hand it on to the type they wrap), so that a form of such a type is valid although
  its upload broke; `BrokenIsRejected` speaks of structs.
* A template that changes between the first load and the start of the watch is not
  noticed, and of two reloads the one that began first may end last and stay, until a
  file changes again: the first and the last exception in `CaughtUp`. The second is a
  directory that a reload did not find: the watch was on the one that is gone.
* `Drop for UnixListener` removes the lock file before it unlocks it. A server that has
  opened it by then locks a file that the next one does not find, and both bind: the
  first exception in `ServersAreReachable`. A server without `reuse` removes the
  socket at its end all the same, whoever has bound it since: the second.
* The comment in `Drop for Connection` of `sync_db_pools` says `Explicitly drop permit
  here to release only after dropping connection`. Inside a runtime the connection is
  dropped by a job that has only been spawned by then, so that the next request may hold
  a permit and wait in r2d2. `WaitsOnlyForLateReturns` says that this is all it can wait
  for, `RequestsEnd` and `PoolRecovers` that timeouts bound it.
* `persist_to()` of a buffered upload is a plain write, which truncates the target
  first, where the documentation says that the file `will atomically replace it`.
* The documentation of `FromRequest` says of a future passed to `local_cache_async()`
  that it `will execute at most once per request`. Two guards that are awaited together
  both execute it; `FirstStoreWins` says that they still agree on the value.
* `Limits::find()` is documented to return `the same results` as `get()`, but compares
  layer by layer and with regard to case in a vector that is sorted by the whole name
  without (read in the source, not modelled).

## 4. Proofs

All proofs are checked by TLAPS with its SMT and Zenon backends and, for the last
step of a temporal theorem, LS4.

**TripWireProofs**, for any sets of handles and trippers. `IInv` adds to the types:
`FlagBeforeCalls` (whoever has notified has stored), `ListIsUnnotified` (an event in
the list has captured the current count), `PollState` (a handle past registration
is in the list or woken), `SleepersHaveATripper` and `PassedState`. None of the
safety properties is inductive alone: `NoLostWakeup` needs to know that a handle
about to return `Pending` is still registered, which only `PollState` says, and
`ReadyStaysReady` needs that a handle once let through has the flag set and so
never goes beyond `Check`. Results: `TypeCorrect`, `NotifiedTripped`,
`WakeupsAreNotLost`, `ListIsSound`, `ReadyForEver`, and `WireIsLatch`, the safety
half of the refinement of `Latch`, by the same invariant and one case per action.

**RouterProofs**, for any routes, bases, requests and decoding.
`MatchingRoutesCollide` is the heart: two routes of equal rank that match one
request are found by the collision check. It goes by the lengths of the two URIs:
if they are equal, either all segments pair up or the first trailing parameter
decides; if not, the shorter one ends in a trailing parameter (`ShorterHasTrail`)
and everything before it pairs up through the request's segments. Formats and
methods are two more lemmas. `RouterIsUnambiguous` then follows from an invariant
that says that mounted routes have well-formed URIs and that a finalized router
has no collisions.

For `RouterIsExact` the invariant also says that the tables are those that `finalize()`
sorted. That such a table exists at all, and holds each route once, is `Places`: in a
finite set with a strict total order, counting predecessors is a bijection with
`1 .. n`. For catchers, `CatchIsTheBest` needs that two that match an error and have
equally many segments have the same ones, or the collision check would not have
compared them; that holds because a registered base has no trailing slash
(`CatcherBases`), so that its rank is the number of its segments (`CatcherRank`).

For `SegmentsSurviveAlways` the invariant `UriInv` says that the nonempty texts of the
path and of the query are still those that were parsed. Normalizing keeps them
(`KeptTwice`, `NormalizedKept`), so does cutting a trailing slash (`SlashOff`), and the
segments up to the trailing slash are a function of them alone (`Core`,
`SegmentsAreCore`). The texts, the lengths and the decoding are arbitrary.

The assumptions on the constants say only that routes, bases, requests and texts are
values of their types. Results: `MatchingRoutesCollide`, `RouterIsUnambiguous`,
`RouterIsExact`, `SegmentsSurviveAlways`.

**ShutdownProofs**, for any connections of both kinds, streams and periods. `IInv` is the type invariant,
`StagerState` (where the stage task is, which stages are over, and that elapsed
and remaining time add up), `ConnState` (a connection is in the state of a stage
only if the stage has come), `SleepersWillWake`, `ServersAreJoined` and
`OkIsSoleOwner`, which needs the former: a loop that still accepts could share the
Rocket again. The latter speaks of the Rocket also where it comes back within an error. The
sum in
`StagerState` is what makes `StagesInOrder` inductive: the properties bound
elapsed time at the moment a wire is tripped, which follows only from what the
sleep had left before.

`FailsOnlyForFairings` relates two tasks that know nothing of each other: the stages are
timed by one, `try_wait_shutdown()` by the other. `TimeInv` bounds the one by the other:
what the stage task still has to sleep and what `launch()` has waited (`Waited`) together
are never more than grace and mercy, since a tick that is not late takes one from the
first and adds one to the second. When the stages are over, `SleepersWillWake` leaves no
task asleep, so that the next tick in time finds none at all (`MercyEndsTasks`); and none
can come, because the loops have ended. The five periods add up to three ticks more.
After a panic of a liftoff fairing there are no tasks at all, so that the Rocket comes back
with the error unless a shutdown fairing still runs.
Results: `TypeCorrect`, `StagesAreOrdered`, `IoIsNotCutShort`, `SleepersAreRegistered`,
`LaunchJoinsServers`, `OkOwnsTheRocket`, `FailureIsOfFairings`.

**LifecycleProofs**, for any routes, any tables of matching routes and any responses.
`FirstAnswerWins` says which route the n-th call went to; what is inductive counts:
the call numbered n went to the k-th route of its method's table, where k is the
number of calls with that method so far (`Calls`), and the routes still to do are the
rest of the table (`RouteInv`). `PassInv` ties the two passes of a HEAD request together,
`ErrorInv` says with which status a request comes to the catchers and that it has then
been tried as everything it could be tried as, `CatchInv` that a second catcher runs
only after the first has failed, and `ResponseInv` whose cookies are pending: the jar
that `ResetDelta` emptied can hold those of catchers only. Results: `TypeCorrect`,
`RoutingIsInOrder`, `ErrorsDropCookies`, `CatchersEnd`, `ResponsesAreFramed`.

The same module proves the properties of `Cookies`, for any requests in flight, names,
values and operations. What the response says of a name is decided by the last operation
on it (`DeltaDecides`, over the recursive function of `TakeDeltaJar`), and so is what
`get_pending()` shows (`PendingIsLast`); `CookieInv` keeps the two together (`SeenOK`)
until the response is tracked. `ResponsesMerge` speaks of the steps of others and follows
from what `Track` leaves alone. Results: `ClientReadsWhatWasPending`, `ResponsesAreMerged`.

**IgnitionProofs**, for any fairings, routes and sentinels. `FairingsInv` says that every
index vector is increasing and within bounds and that the fairings that ran are the
first `num_ignited` of the ignite vector. That a replaced singleton leaves it so rests on
lemmas about removing indices (`Without`, which keeps order and membership). For the
search, `Dealt` says of each sentinel whose edge the loop has removed from the map that
it is in the queue, or answered, or opened; when the queue is empty, the sentinels that
were dealt with are a closed set, and `Asked` is the least such set (`AskedIsLeast`).
`IgnitionIsSafe` adds that what one route asks is part of what all routes ask
(`GuardedIsAsked`). Results: `IgnitionIsInOrder`, `QueriesAreExact`, `IgnitionIsSafe`.

**DataProofs**, for any size of a body and of the buffers, any limit and any chain of
transforms. `CutsAreSound` says that what was returned and what was read ahead are
consecutive pieces of the body and that the limit counts down what was returned;
`BreaksAreSound` that nothing arrives behind a break. `EndIsReal` is what completeness
needs: no level of the chain takes an end for the end of the body before the limited
reader has ended, which is shown level by level through the recursive function `Polls`.
Results: `BodyIsKept`, `CompletenessIsExact`.

`TransformsCompose` speaks of the end of a stream only. `FlowInv` says of every level at
any time that it has returned what it makes of what it has seen, and once its inner
stream has ended, all of it but a rest (`HasReturned`); that a level has seen what the
one below has returned; and that it meets the end only when all those below have been
drained. One poll keeps this from level to level (`PollGoesUp`), whether a level hands on
something, consumes the read and is pending, or returns a piece of its end. Of the
transforms the proof uses only that transforming piece by piece is transforming the whole
(`TransformConcat`), which for the filter is an induction (`EvensConcat`). Result:
`StreamedTransformsCompose`.

For `Templates`, with any directory, requests and changes: `WholeInv` says that what a
load has read so far was in order, under its own name, and that the Context lacks none of
its files. Once each change has led to a load that began after it (`Settled`), the load
that began last agrees with the directory as far as it has walked; when it is over, its
result is in the Context or was overwritten by an older load (`LastLoad`). `CaughtUp` is
what is left of this when nobody loads. Results: `ServedContextIsWhole`,
`TemplatesCatchUp`.

**DbPoolProofs**, for any requests, connections, calls of `run()` and threads. `Stages`
relates where a request's future is to its jobs (the job that returns a connection is
sent only when the handler is gone, all others come after the job that got it), `Mutex`
says that a connection stays while a job has it, `Placed` that each connection is in one
place, and `Counted` that permits and requests with a permit add up to the size of the
pool. `WaitsOnlyForLateReturns` is then a pigeonhole: if every connection were with a
live request, and one more request had a permit, there would be more permits than
connections. Results: `TypeCorrect`, `UseIsExclusive`, `WaitsAreForLateReturns`.

**StandaloneProofs**. For the cache, with any number of callers and calls:
`FirstStoreWins` speaks of what was returned, and is not inductive. `CellIsKept` adds
that who is about to read the cell finds it full, and that who is about to fill it has
a value of this request. For the Unix listener, with any processes, starts and retries:
whoever removes or binds the socket with `reuse` has the lock of the file that is at the
path (`LockIsAtPath`), and a file has one lock (`LocksExclude`), so that nobody else is
there. `orphaned` records the one way in which a lock can be of a file that is not at the
path any more. For temporary files, with any destinations and calls: `Awaits` says what a
method has put into `self` while its job runs, `IsSafe` where the whole upload is in the
meantime (at the source of a rename until it has succeeded; never at the destination of a
copy before it is filled), and `TempIsOwned` that a file in `temp_dir` which nobody kept
belongs to the `TempFile`, a job or an orphan that removes it. A copy does not truncate its
own source because no file has two names (`OneName`). While `noted` is clean at most one
job runs; `TempIsOwned` holds also when calls overlap. Results: `FirstStoreWinsAlways`,
`ServersAreReachableAlways`, `ServersTyped`, `UploadIsSafeAlways`.

For event streams, with any events, texts and buffers: `ClientUnderstands` speaks of whole
events, so `StreamInv` says where the client is inside one. Between lines it has nothing
half read, and the fields of the lines before (`AtStage`). Within a line of a field it has
the lines of the text that have ended before the cursor and the part of the current one
that the cursor has passed (`InField`, over the recursive function `Breaks`); a blank line
or a heartbeat comes only when no line of an event is left. That the cursor never stops
between CR and LF (`TakesALine`) is what makes `skip()` end exactly one line (`SkipIs`).
That a reader is dropped only at its end needs that a poll which has read nothing has room
(`PollsAreSound`). The assumptions on the constants are types, and that the characters
include those of the names, the colon, the space and the two newlines. Result:
`EventsAreUnderstoodAlways`.

**Induction.** The induction theorems of the library take an operator as a parameter and
cannot be instantiated here. `Least` (each nonempty set of naturals has a least element)
replaces them where a recursive function or a vector is followed step by step: the set
is that of the counterexamples. In `StandaloneProofs` the same is said of a set that
contains 0 and is closed (`CountUp`), and of functions by recursion (`Recursion`).

Of the theorems, these state properties that a run checks on its instance:
`WakeupsAreNotLost`, `ListIsSound`, `RouterIsUnambiguous`, `RouterIsExact`,
`SegmentsSurviveAlways`, `IgnitionIsInOrder`, `QueriesAreExact`, `IgnitionIsSafe`,
`RoutingIsInOrder`, `ErrorsDropCookies`, `CatchersEnd`, `ResponsesAreFramed`,
`ClientReadsWhatWasPending`, `ResponsesAreMerged`, `IoIsNotCutShort`,
`SleepersAreRegistered`, `LaunchJoinsServers`, `OkOwnsTheRocket`, `FailureIsOfFairings`,
`BodyIsKept`, `CompletenessIsExact`, `StreamedTransformsCompose`, `ServedContextIsWhole`,
`TemplatesCatchUp`, `UseIsExclusive`, `WaitsAreForLateReturns`, `FirstStoreWinsAlways`,
`ServersAreReachableAlways`, `UploadIsSafeAlways` and `EventsAreUnderstoodAlways`.

**Only model-checked**:

* everything that needs fairness (`ImplementsLatch` as a whole, `ShutdownEnds`,
  `ReadingEnds`, `PoolRecovers`, `RestartSucceeds`, `StreamIsLive` and the two `RequestsEnd`),
  which is out of the prover's reach;
* `Forms`, whose operators are recursive: types are nested.

## 5. What is not modelled, and why

* Texts: parsing, formatting and percent-encoding of URIs, headers, media types
  and cookies, at the level of characters. `Decode` and the media types of
  `Routing` keep the distinctions that routing makes.
* Encryption of private cookies: a sealed value opens only as what was sealed.
* The memory of `lib/erased.rs` and the self-reference of `tripwire.rs`, apart from
  the latter's rule that an event is dropped before its handle.
* Memory orderings: the accesses of the wire are sequentially consistent steps. The
  flag is stored with release and read with acquire, and tokio's list has a lock.
* hyper, tokio, rustls, and operating system I/O: external, as described above.
* Configuration beyond the secret key, Shield, the macros other than
  `derive(FromForm)`, stateless guards and responders: no behaviour over time.
* Of forms: names at the level of characters, validators, the names of errors, pairs
  and tuple structs. Of templates: those that only the callback knows, and
  a directory that is removed and put back between two loads, which ends the watch. Of pools:
  `db_pools`, which passes on what an asynchronous pool of another crate returns.
* Byte and text streams, which are `ReaderStream` over readers in one piece; `NamedFile`;
  WebSockets, a wrapper of another crate's protocol.
* `FileServer` and its rewriters, and the table of named limits: functions of a request,
  a directory and a configuration, without state of their own.
* HTTP/2 streams and upgraded connections: their tasks are hyper's, or hold an I/O
  handler of the application, and outlive the connection's task.

## 6. Plan

Done, in this order: the wire every wait depends on; URIs and the router; fairings;
one request; cookies; the shutdown that ties wires, tasks and `launch()` together;
then ignition as a whole, incoming data, the database pool, forms, templates, and
HTTP/3 in the shutdown; then temporary files, the Unix listener, event streams and the
request-local cache.

Proved: each safety property that a run checks, apart from those of `Forms`.

Still open in the model: HTTP/2 stream tasks and upgrades in `Shutdown`, `NamedFile`,
the rewriters of the file server over a directory that changes, `Limits::find`,
preference among accepted media types.
