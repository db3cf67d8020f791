----------------------------- MODULE Templates ------------------------------
(***************************************************************************)
(* contrib/dyn_templates/src: templates that are reloaded while they are   *)
(* being served.                                                           *)
(*                                                                         *)
(* A fairing loads the directory at ignition and then has it watched.      *)
(* Before every request (debug builds) it takes the watcher's events out   *)
(* of a channel and, if there were any, loads the directory again and puts *)
(* the new Context in the place of the old one, behind an RwLock.  Nothing *)
(* else orders the reloads of concurrent requests, and files change at any *)
(* time: also between two that one load reads.                             *)
(*                                                                         *)
(* The user's callback belongs to the loading of the eager engines: a file *)
(* that it would refuse is one that is not ok.                             *)
(***************************************************************************)
EXTENDS Naturals, Sequences, SequencesExt

CONSTANTS
    Requests,
    Boot,           \* the task that ignites
    Walk,           \* the files, in the order of the walk: by extension first
    NameOf,         \* file -> name of its template (split_path)
    Lazy,           \* the files of Minijinja, read when they are first rendered
    MaxChanges      \* bound: changes of files

Tasks == Requests \cup {Boot}
Files == ToSet(Walk)
Names == {NameOf[f] : f \in Files}

ASSUME TemplatesAssumption == Boot \notin Requests /\ Walk \in Seq(Files) /\ MaxChanges \in Nat

Gone == [ver |-> 0, ok |-> FALSE]
Contents == [ver : 1 .. MaxChanges + 1, ok : BOOLEAN]

\* A Context: which file each name is, and what the engines have read.  `ticket`
\* is not in the code: it tells loads apart, in the order in which they began.
NoContext == [ticket |-> 0, templates |-> <<>>, engines |-> <<>>]

VARIABLES
    disk,       \* file -> its content
    clock,      \* history: the number of changes
    raw,        \* events that the watcher has yet to send
    queue,      \* events in the channel
    watcher,    \* "off" before ignition, "on", "none" if it could not be had
    ctxt,       \* ContextManager::context
    pc,
    load,       \* task -> the Context it is putting together
    at,         \* task -> the next file of Walk
    wanted,     \* request -> the name it renders
    tickets,    \* history: loads begun
    newest,     \* history: the greatest ticket ever in ctxt
    missed      \* history: a file has changed between the first load and the watch, or
                \* a load has found no directory, which then is not watched any more

templateVars ==
    <<disk, clock, raw, queue, watcher, ctxt, pc, load, at, wanted, tickets, newest, missed>>
history == <<tickets, newest, missed>>
files == <<disk, clock, raw>>

Partial(S, T) == UNION {[d -> T] : d \in SUBSET S}
Put(f, k, v) == [x \in DOMAIN f \cup {k} |-> IF x = k THEN v ELSE f[x]]
Goto(t, to) == pc' = [pc EXCEPT ![t] = to]

TemplatesInit ==
    /\ disk \in [Files -> {[ver |-> 1, ok |-> TRUE], [ver |-> 1, ok |-> FALSE], Gone}]
    /\ clock = 0 /\ raw = 0 /\ queue = 0
    /\ watcher = "off" /\ ctxt = NoContext
    /\ pc = [t \in Tasks |-> "idle"]
    /\ load = [t \in Tasks |-> NoContext]
    /\ at = [t \in Tasks |-> 1]
    /\ wanted = [r \in Requests |-> "none"]
    /\ tickets = 0 /\ newest = 0 /\ missed = FALSE

-----------------------------------------------------------------------------
(* The files and their watcher                                             *)

\* TemplatesInit stands for every change before the launch.
Change(f, c) ==
    /\ pc[Boot] # "idle" /\ clock < MaxChanges /\ c # disk[f]
    /\ clock' = clock + 1
    /\ disk' = [disk EXCEPT ![f] = c]
    /\ raw' = IF watcher = "on" THEN raw + 1 ELSE raw
    /\ missed' = (missed \/ watcher = "off")
    /\ UNCHANGED <<queue, watcher, ctxt, pc, load, at, wanted, tickets, newest>>

Deliver ==
    /\ raw > 0
    /\ raw' = raw - 1 /\ queue' = queue + 1
    /\ UNCHANGED <<disk, clock, watcher, ctxt, pc, load, at, wanted, history>>

-----------------------------------------------------------------------------
(* Context::initialize, by the fairing's on_ignite and by reload_if_needed *)

Begin(t) ==
    /\ pc[t] = IF t = Boot THEN "idle" ELSE "reload"
    /\ Goto(t, "walk")
    /\ tickets' = tickets + 1
    /\ load' = [load EXCEPT ![t] = [NoContext EXCEPT !.ticket = tickets + 1]]
    /\ at' = [at EXCEPT ![t] = 1]
    /\ UNCHANGED <<files, queue, watcher, ctxt, wanted, newest, missed>>

\* root.normalize() fails: the directory is not there, nor is a file in it.
NoRoot(t) ==
    /\ pc[t] = IF t = Boot THEN "idle" ELSE "reload"
    /\ \A f \in Files : disk[f] = Gone
    /\ Goto(t, IF t = Boot THEN "aborted" ELSE "render")
    /\ missed' = TRUE
    /\ UNCHANGED <<files, queue, watcher, ctxt, load, at, wanted, tickets, newest>>

\* Of several paths with one name the first is used.
Found(templates, f) ==
    IF disk[f] = Gone \/ NameOf[f] \in DOMAIN templates THEN templates
    ELSE Put(templates, NameOf[f], f)

WalkOne(t) ==
    /\ pc[t] = "walk" /\ at[t] <= Len(Walk)
    /\ load' = [load EXCEPT ![t].templates = Found(@, Walk[at[t]])]
    /\ at' = [at EXCEPT ![t] = @ + 1]
    /\ UNCHANGED <<files, queue, watcher, ctxt, pc, wanted, history>>

WalkEnd(t) ==
    /\ pc[t] = "walk" /\ at[t] > Len(Walk)
    /\ Goto(t, "init")
    /\ UNCHANGED <<files, queue, watcher, ctxt, load, at, wanted, history>>

\* The files whose text Engines::init reads
Unread(c) == {f \in Files \ Lazy : /\ NameOf[f] \in DOMAIN c.templates
                                   /\ c.templates[NameOf[f]] = f
                                   /\ f \notin DOMAIN c.engines}

\* A file that cannot be registered is passed over.
ReadOneLax(t) ==
    /\ pc[t] = "init"
    /\ \E f \in Unread(load[t]) : load' = [load EXCEPT ![t].engines = Put(@, f, disk[f])]
    /\ UNCHANGED <<files, queue, watcher, ctxt, pc, at, wanted, history>>

ReadOne(t) ==
    /\ pc[t] = "init"
    /\ \E f \in Unread(load[t]) :
          /\ disk[f].ok
          /\ load' = [load EXCEPT ![t].engines = Put(@, f, disk[f])]
    /\ UNCHANGED <<files, queue, watcher, ctxt, pc, at, wanted, history>>

\* The request waits for the file to be mended.
LoadErrWaits(t) ==
    /\ pc[t] = "init"
    /\ \E f \in Unread(load[t]) : ~disk[f].ok
    /\ Goto(t, IF t = Boot THEN "aborted" ELSE "init")
    /\ UNCHANGED <<files, queue, watcher, ctxt, load, at, wanted, history>>

\* A file that is no longer there, or not a template: initialize() returns None.
\* The launch is aborted, a request goes on with the existing templates.
LoadErr(t) ==
    /\ pc[t] = "init"
    /\ \E f \in Unread(load[t]) : ~disk[f].ok
    /\ Goto(t, IF t = Boot THEN "aborted" ELSE "render")
    /\ UNCHANGED <<files, queue, watcher, ctxt, load, at, wanted, history>>

Loaded(t) == pc[t] = "init" /\ Unread(load[t]) = {}

\* on_ignite: ContextManager::new, which starts the watcher
Manage(w) ==
    /\ Loaded(Boot)
    /\ ctxt' = load[Boot] /\ newest' = load[Boot].ticket
    /\ watcher' = w
    /\ Goto(Boot, "up")
    /\ UNCHANGED <<files, queue, load, at, wanted, tickets, missed>>

-----------------------------------------------------------------------------
(* A request: ContextManager::reload_if_needed and Template::respond_to    *)

\* The lock of the channel is held while it is emptied, and no longer.
Drain(r) ==
    /\ pc[r] = "idle" /\ pc[Boot] = "up"
    /\ queue' = 0
    /\ Goto(r, IF watcher = "on" /\ queue > 0 THEN "reload" ELSE "render")
    /\ UNCHANGED <<files, watcher, ctxt, load, at, wanted, history>>

Rendering == {r \in Requests : pc[r] = "rendering"}

\* The events are taken out once the new templates are in.
ReplaceDrains(r) ==
    /\ Loaded(r) /\ Rendering = {}
    /\ ctxt' = load[r]
    /\ newest' = IF load[r].ticket > newest THEN load[r].ticket ELSE newest
    /\ queue' = 0
    /\ Goto(r, "render")
    /\ UNCHANGED <<files, watcher, load, at, wanted, tickets, missed>>

\* *self.context_mut() = new_ctxt: the write lock waits for who is rendering.
Replace(r) ==
    /\ Loaded(r) /\ Rendering = {}
    /\ ctxt' = load[r]
    /\ newest' = IF load[r].ticket > newest THEN load[r].ticket ELSE newest
    /\ Goto(r, "render")
    /\ UNCHANGED <<files, queue, watcher, load, at, wanted, tickets, missed>>

\* The read lock is taken, and the name looked up.
Lock(r, n) ==
    /\ pc[r] = "render"
    /\ wanted' = [wanted EXCEPT ![r] = n]
    /\ Goto(r, IF n \in DOMAIN ctxt.templates THEN "rendering" ELSE "done")
    /\ UNCHANGED <<files, queue, watcher, ctxt, load, at, history>>

\* Engines::render.  Minijinja loads the file now, if it has not before.
Render(r) ==
    /\ r \in Rendering
    /\ LET f == ctxt.templates[wanted[r]]
           text == IF f \in DOMAIN ctxt.engines THEN ctxt.engines[f] ELSE disk[f]
       IN ctxt' = IF text.ok THEN [ctxt EXCEPT !.engines = Put(@, f, text)] ELSE ctxt
    /\ Goto(r, "done")
    /\ UNCHANGED <<files, queue, watcher, load, at, wanted, history>>

-----------------------------------------------------------------------------

Loads(t) == Begin(t) \/ NoRoot(t) \/ WalkOne(t) \/ WalkEnd(t) \/ ReadOne(t) \/ LoadErr(t)
Serve(r) == Drain(r) \/ Replace(r) \/ Render(r) \/ \E n \in Names : Lock(r, n)
Ignite == \E w \in {"on", "none"} : Manage(w)

TemplatesNext ==
    \/ \E f \in Files :
          \E c \in {[ver |-> clock + 2, ok |-> TRUE], [ver |-> clock + 2, ok |-> FALSE], Gone} :
              Change(f, c)
    \/ Deliver
    \/ \E t \in Tasks : Loads(t)
    \/ Ignite
    \/ \E r \in Requests : Serve(r)

\* The watcher's thread and every task run on; files need not change.
Fairness ==
    /\ WF_templateVars(Deliver) /\ WF_templateVars(Ignite)
    /\ \A t \in Tasks : WF_templateVars(Loads(t))
    /\ \A r \in Requests : WF_templateVars(Serve(r))

TemplatesSpec == TemplatesInit /\ [][TemplatesNext]_templateVars /\ Fairness

-----------------------------------------------------------------------------

Context == [ticket : Nat, templates : Partial(Names, Files), engines : Partial(Files, Contents)]

TemplatesTypeOK ==
    /\ disk \in [Files -> Contents \cup {Gone}]
    /\ clock \in 0 .. MaxChanges /\ raw \in Nat /\ queue \in Nat
    /\ watcher \in {"off", "on", "none"} /\ missed \in BOOLEAN
    /\ ctxt \in Context /\ load \in [Tasks -> Context]
    /\ pc \in [Tasks -> {"idle", "reload", "walk", "init", "render", "rendering", "done",
                          "up", "aborted"}]
    /\ at \in [Tasks -> 1 .. Len(Walk) + 1]
    /\ wanted \in [Requests -> Names \cup {"none"}]
    /\ tickets \in Nat /\ newest \in 0 .. tickets

\* Whatever happens to the files during a load: what is served is complete.  Every
\* name that an eager engine has can be rendered (`existing templates will remain
\* active`, context.rs:190).
ContextIsWhole ==
    \A n \in DOMAIN ctxt.templates :
        LET f == ctxt.templates[n] IN
        f \notin Lazy => f \in DOMAIN ctxt.engines /\ ctxt.engines[f].ok

\* What a load of the directory as it is would give: for every name the first of the
\* files that have it
Present(n) == {i \in 1 .. Len(Walk) : NameOf[Walk[i]] = n /\ disk[Walk[i]] # Gone}
IsFirst(f, n) == \E i \in Present(n) : f = Walk[i] /\ \A j \in Present(n) : i <= j
Loadable == \A f \in Files, n \in Names : IsFirst(f, n) => f \in Lazy \/ disk[f].ok

\* A Context has what is on disk, of the first k files of the walk.
Agrees(c, k) ==
    /\ DOMAIN c.templates = {n \in Names : Present(n) \cap 1 .. k # {}}
    /\ \A n \in DOMAIN c.templates : IsFirst(c.templates[n], n)
    /\ \A f \in DOMAIN c.engines : c.engines[f] = disk[f]

Quiet ==
    /\ raw = 0 /\ queue = 0 /\ watcher = "on"
    /\ \A r \in Requests : pc[r] \notin {"reload", "walk", "init"}

\* Once the watcher's events have been dealt with, the templates served are those
\* on disk, unless those cannot be loaded.  Three exceptions the code has: a change
\* between the first load and the start of the watch, a directory that was not there
\* at a reload, and a reload that was overtaken by one that began after it, and has
\* overwritten its result.
CaughtUp == Quiet /\ ~missed /\ Loadable /\ ctxt.ticket = newest => Agrees(ctxt, Len(Walk))

-----------------------------------------------------------------------------
(* An inductive invariant                                                  *)

Loading(t) == pc[t] \in {"walk", "init"}

\* The requests come after the launch, and what one renders stays in the Context.
LaunchInv ==
    /\ watcher # "off" => pc[Boot] = "up" /\ newest > 0
    /\ raw > 0 => watcher = "on"
    /\ pc[Boot] = "idle" => tickets = 0
    /\ Loading(Boot) => load[Boot].ticket = tickets
    /\ pc[Boot] # "up" => \A r \in Requests : pc[r] = "idle"
    /\ \A r \in Requests : pc[r] = "rendering" => wanted[r] \in DOMAIN ctxt.templates
    /\ \A t \in Tasks : pc[t] = "init" => at[t] > Len(Walk)

\* What has been read was in order, under its own name.
Sound(c) ==
    /\ \A n \in DOMAIN c.templates : NameOf[c.templates[n]] = n
    /\ \A f \in DOMAIN c.engines : c.engines[f].ok
    /\ c.ticket <= tickets

WholeInv ==
    /\ Sound(ctxt) /\ \A t \in Tasks : Sound(load[t])
    /\ Unread(ctxt) = {}
    /\ \A t \in Tasks : Loading(t) => load[t].ticket > 0

\* Every change of a file has led to a load that began after it.
Settled ==
    /\ ~missed
    /\ \/ watcher = "off"
       \/ watcher = "on" /\ raw = 0 /\ queue = 0 /\ \A r \in Requests : pc[r] # "reload"

\* The load that began last reads the disk as it is, and either it is not over, or
\* its result is in the Context unless overwritten, or it has failed.
Newest(t) == Loading(t) /\ load[t].ticket = tickets

LastLoad ==
    /\ \A t \in Tasks : Newest(t) => Agrees(load[t], at[t] - 1)
    /\ newest > 0 /\ newest = tickets /\ ctxt.ticket = newest => Agrees(ctxt, Len(Walk))
    /\ newest < tickets /\ Loadable => \E t \in Tasks : Newest(t)

SyncInv == Settled => LastLoad

TemplatesInv == TemplatesTypeOK /\ LaunchInv /\ WholeInv /\ SyncInv

\* No request waits for ever: for the lock, or for files that cannot be loaded.
RequestsEnd == \A r \in Requests : (pc[r] # "idle") ~> (pc[r] = "done")
=============================================================================
