------------------------------ MODULE TempFile ------------------------------
(***************************************************************************)
(* core/lib/src/fs/temp_file.rs: an uploaded file on its way to a place    *)
(* where it stays.                                                         *)
(*                                                                         *)
(* persist_to(), copy_to() and move_copy_to() are futures that wait for    *)
(* blocking jobs: each call of tokio::fs is one.  A job is never           *)
(* cancelled; if the future is dropped it runs on as an orphan, and what   *)
(* it returns, a TempPath perhaps, is dropped by the runtime.  Dropping a  *)
(* TempPath removes the file it names.                                     *)
(*                                                                         *)
(* A path is linked to a file; writing and copying open and truncate the   *)
(* file first and fill it later, renaming is one step.  Files are numbers, *)
(* 0 is no file; a content is "whole" (the upload), "old" or "cut".        *)
(***************************************************************************)
EXTENDS Naturals

CONSTANTS
    Tmp,        \* the path in temp_dir
    Dests,      \* the paths a handler may name
    MaxMethods  \* bound: calls of the three methods

ASSUME TmpAssumption == Tmp \notin Dests
ASSUME MaxMethodsAssumption == MaxMethods \in Nat

Paths == Dests \cup {Tmp}
Inodes == 1 .. MaxMethods + 4

NoJob == [kind |-> "none", from |-> Tmp, to |-> Tmp, src |-> 0, dst |-> 0, st |-> "done"]
Job(kind, from, to) ==
    [kind |-> kind, from |-> from, to |-> to, src |-> 0, dst |-> 0, st |-> "queued"]
Jobs ==
    [kind : {"none", "persist", "rename", "keep", "copy", "write", "remove"},
     from : Paths, to : Paths, src : Inodes \cup {0}, dst : Inodes \cup {0},
     st : {"done", "queued", "open", "ok", "err"}]
NoCall == [op |-> "idle", dest |-> Tmp]
Buffered == [kind |-> "buffered", path |-> Tmp]
Left(p) == [kind |-> "left", path |-> p]        \* Either::Left(TempPath)
Right(p) == [kind |-> "right", path |-> p]      \* Either::Right(PathBuf)
Gone == [kind |-> "gone", path |-> Tmp]

VARIABLES
    link,       \* path -> file, 0 if there is none
    data,       \* file -> content
    file,       \* the TempFile
    call,       \* the method that is being awaited
    job,        \* the job it waits for
    orphan,     \* the job of a call that was dropped
    methods,    \* calls of them so far
    returned,   \* the last result of a method
    noted       \* history: what has been done to the file that a handler should not do,
                \* or that makes it permanent ("kept")

fileVars == <<link, data, file, call, job, orphan, methods, returned, noted>>
disk == <<link, data>>

Idle == call = NoCall
Held == file.kind \in {"buffered", "left", "right"}
NoResult == [op |-> "none", ok |-> TRUE, dest |-> Tmp]

\* A destination may already exist.
FileInit ==
    /\ \E D \in SUBSET Dests :
          /\ link = [p \in Paths |-> IF p \in D THEN 2 ELSE 0]
          /\ \A p, q \in D : p = q
    /\ data = [i \in Inodes |-> IF i = 2 THEN "old" ELSE "cut"]
    /\ file = [kind |-> "none", path |-> Tmp]
    /\ call = NoCall /\ job = NoJob /\ orphan = NoJob
    /\ methods = 0 /\ returned = NoResult /\ noted = {}

-----------------------------------------------------------------------------
(* From the request                                                        *)

\* TempFile::from(): a file is created in temp_dir, then the body is streamed to it.
Create ==
    /\ file.kind = "none"
    /\ file' = [kind |-> "streaming", path |-> Tmp]
    /\ link' = [link EXCEPT ![Tmp] = 1]
    /\ UNCHANGED <<data, call, job, orphan, methods, returned, noted>>

Streamed ==
    /\ file.kind = "streaming"
    /\ data' = [data EXCEPT ![1] = "whole"]
    /\ file' = Left(Tmp)
    /\ UNCHANGED <<link, call, job, orphan, methods, returned, noted>>

\* `n?`, or the future is dropped: the TempPath goes with it.
StreamFails ==
    /\ file.kind = "streaming"
    /\ file' = Gone /\ link' = [link EXCEPT ![Tmp] = 0]
    /\ UNCHANGED <<data, call, job, orphan, methods, returned, noted>>

\* A field of a form that is not multipart stays in the memory of the form.
FromValue ==
    /\ file.kind = "none"
    /\ file' = Buffered
    /\ UNCHANGED <<disk, call, job, orphan, methods, returned, noted>>

-----------------------------------------------------------------------------
(* The methods, up to the job they wait for                                *)

Begin(op, d) ==
    /\ Idle /\ Held /\ methods < MaxMethods
    /\ d \in Dests \/ (file.kind # "buffered" /\ d = file.path)
    /\ call' = [op |-> op, dest |-> d]
    /\ methods' = methods + 1
    /\ noted' = noted \cup (IF orphan # NoJob THEN {"overlap"} ELSE {})
                      \cup (IF file.kind = "buffered" \/ d # file.path THEN {}
                            ELSE IF op = "persist_to" THEN {"kept"} ELSE {"ownPath"})
    /\ UNCHANGED <<disk, orphan, returned>>

PersistTo(d) ==
    /\ Begin("persist_to", d)
    /\ \/ /\ file.kind = "left"
          /\ job' = Job("persist", file.path, d) /\ file' = Right(d)
       \/ /\ file.kind = "right"
          /\ job' = Job("rename", file.path, d) /\ file' = Right(d)
       \/ /\ file.kind = "buffered"
          /\ job' = Job("write", d, d) /\ UNCHANGED file

\* Also the beginning of move_copy_to(), which starts with copy_to().
CopyTo(op, d) ==
    /\ Begin(op, d)
    /\ \/ /\ file.kind = "left"
          /\ job' = Job("keep", file.path, file.path) /\ file' = Right(file.path)
       \/ /\ file.kind = "right"
          /\ job' = Job("copy", file.path, d) /\ UNCHANGED file
       \/ /\ file.kind = "buffered"
          /\ job' = Job("write", d, d) /\ UNCHANGED file

-----------------------------------------------------------------------------
(* Jobs                                                                    *)

Unlink(p) == link' = [link EXCEPT ![p] = 0]
\* The files that a new one can be; with none left, creating one fails.
Unused ==
    Inodes \ ({1, 2, job.src, job.dst, orphan.src, orphan.dst} \cup {link[p] : p \in Paths})
Fresh == CHOOSE i \in Unused : TRUE

Renames(j, k) ==
    /\ j.kind \in {"persist", "rename"}
    /\ \/ /\ link[j.from] # 0
          /\ link' = [p \in Paths |-> CASE p = j.to -> link[j.from]
                                        [] p = j.from /\ p # j.to -> 0
                                        [] OTHER -> link[p]]
          /\ k = [j EXCEPT !.st = "ok"]
       \/ k = [j EXCEPT !.st = "err"] /\ UNCHANGED link
    /\ UNCHANGED data

Keeps(j, k) ==
    /\ j.kind = "keep"
    /\ \E st \in {"ok", "err"} : k = [j EXCEPT !.st = st]
    /\ UNCHANGED disk

Removes(j, k) ==
    /\ j.kind = "remove"
    /\ \/ link[j.from] # 0 /\ Unlink(j.from) /\ k = [j EXCEPT !.st = "ok"]
       \/ UNCHANGED link /\ k = [j EXCEPT !.st = "err"]
    /\ UNCHANGED data

\* write() and copy(): open with truncation ...
Opens(j, k) ==
    /\ j.kind \in {"write", "copy"} /\ j.st = "queued"
    /\ \/ /\ j.kind = "copy" => link[j.from] # 0
          /\ link[j.to] # 0 \/ Unused # {}
          /\ LET dst == IF link[j.to] # 0 THEN link[j.to] ELSE Fresh
             IN /\ link' = [link EXCEPT ![j.to] = dst]
                /\ data' = [data EXCEPT ![dst] = "cut"]
                /\ k = [j EXCEPT !.st = "open", !.src = link[j.from], !.dst = dst]
       \/ UNCHANGED disk /\ k = [j EXCEPT !.st = "err"]

\* ... and fill, or fail half-way.
Fills(j, k) ==
    /\ j.kind \in {"write", "copy"} /\ j.st = "open"
    /\ \/ /\ data' = [data EXCEPT ![j.dst] =
                         IF j.kind = "write" THEN "whole" ELSE data[j.src]]
          /\ k = [j EXCEPT !.st = "ok"]
       \/ UNCHANGED data /\ k = [j EXCEPT !.st = "err"]
    /\ UNCHANGED link

Runs(j, k) ==
    \/ j.st = "queued" /\ (Renames(j, k) \/ Keeps(j, k) \/ Removes(j, k))
    \/ Opens(j, k)
    \/ Fills(j, k)

Ended(j) == j.st \in {"ok", "err"}

RunJob ==
    /\ Runs(job, job')
    /\ UNCHANGED <<file, call, orphan, methods, returned, noted>>

RunOrphan ==
    /\ Runs(orphan, orphan')
    /\ UNCHANGED <<file, call, job, methods, returned, noted>>

\* The result of an orphan is dropped, with the TempPath in a PersistError.
OrphanEnds ==
    /\ Ended(orphan) /\ orphan' = NoJob
    /\ IF orphan.st = "err" /\ orphan.kind \in {"persist", "keep"}
       THEN Unlink(orphan.from) ELSE UNCHANGED link
    /\ noted' = noted \cup
          (IF \/ orphan.st = "err" /\ orphan.kind \in {"persist", "keep", "rename"}
              \/ orphan.st = "ok" /\ orphan.kind = "remove"
           THEN {"cancelled"} ELSE {})
          \cup (IF orphan.st = "ok" /\ orphan.kind = "keep" THEN {"kept"} ELSE {})
    /\ UNCHANGED <<data, file, call, job, methods, returned>>

-----------------------------------------------------------------------------
(* The methods, from the result of the job on                              *)

Returns(ok) ==
    /\ call' = NoCall /\ job' = NoJob
    /\ returned' = [op |-> call.op, ok |-> ok, dest |-> call.dest]
    /\ UNCHANGED <<link, data, orphan, methods, noted>>

Continues(j) == job' = j /\ UNCHANGED <<link, data, call, orphan, methods, returned>>

\* Mutant: the error path returns without restoring self.
RenamedForgets ==
    /\ job.kind = "rename" /\ Ended(job)
    /\ Returns(job.st = "ok") /\ UNCHANGED file

\* Mutant: the error path restores the path only, not the TempPath.
PersistedAsPath ==
    /\ job.kind = "persist" /\ Ended(job)
    /\ file' = IF job.st = "err" THEN Right(job.from) ELSE file
    /\ Returns(job.st = "ok")

Persisted ==
    /\ job.kind = "persist" /\ Ended(job)
    /\ file' = IF job.st = "err" THEN Left(job.from) ELSE file
    /\ Returns(job.st = "ok")

Renamed ==
    /\ job.kind = "rename" /\ Ended(job)
    /\ file' = IF job.st = "err" THEN Right(job.from) ELSE file
    /\ Returns(job.st = "ok")

\* copy_to() is done: move_copy_to() removes the file that it now finds in self.
Removing(f, note) ==
    /\ Continues(Job("remove", f.path, f.path)) /\ file' = f
    /\ noted' = noted \cup note

Written ==
    /\ job.kind = "write" /\ Ended(job)
    /\ \/ job.st = "err" /\ Returns(FALSE) /\ UNCHANGED file
       \/ /\ job.st = "ok" /\ call.op # "move_copy_to"
          /\ file' = Right(job.to) /\ Returns(TRUE)
       \/ /\ job.st = "ok" /\ call.op = "move_copy_to"
          /\ Removing(Right(job.to), {"bufferedMove"})

PathKept ==
    /\ job.kind = "keep" /\ Ended(job)
    /\ \/ job.st = "err" /\ file' = Left(job.from) /\ Returns(FALSE)
       \/ /\ job.st = "ok" /\ Continues(Job("copy", job.from, call.dest))
          /\ noted' = noted \cup {"kept"} /\ UNCHANGED file

Copied ==
    /\ job.kind = "copy" /\ Ended(job)
    /\ \/ job.st = "err" /\ Returns(FALSE) /\ UNCHANGED file
       \/ job.st = "ok" /\ call.op = "copy_to" /\ Returns(TRUE) /\ UNCHANGED file
       \/ job.st = "ok" /\ call.op = "move_copy_to" /\ Removing(file, {})

Removed ==
    /\ job.kind = "remove" /\ Ended(job)
    /\ file' = IF job.st = "ok" THEN Right(call.dest) ELSE file
    /\ Returns(job.st = "ok")

\* The future of the method is dropped (a timeout, a select, the request itself).
Cancel ==
    /\ ~Idle /\ orphan = NoJob
    /\ orphan' = job /\ job' = NoJob /\ call' = NoCall
    /\ UNCHANGED <<disk, file, methods, returned, noted>>

\* The TempFile is dropped.
Drop ==
    /\ Idle /\ Held
    /\ file' = Gone
    /\ IF file.kind = "left" THEN Unlink(file.path) ELSE UNCHANGED link
    /\ UNCHANGED <<data, call, job, orphan, methods, returned, noted>>

FileNext ==
    \/ Create \/ Streamed \/ StreamFails \/ FromValue
    \/ \E d \in Paths : PersistTo(d)
    \/ \E d \in Paths, op \in {"copy_to", "move_copy_to"} : CopyTo(op, d)
    \/ RunJob \/ RunOrphan \/ OrphanEnds
    \/ Persisted \/ Renamed \/ Written \/ PathKept \/ Copied \/ Removed
    \/ Cancel \/ Drop

FileSpec == FileInit /\ [][FileNext]_fileVars

-----------------------------------------------------------------------------
(* Properties                                                              *)

Whole(p) == link[p] # 0 /\ data[link[p]] = "whole"

\* Between two calls path() names a complete copy of the upload, whatever has
\* failed before: a method that fails half-way puts back what it took out of self
\* (persist_to, copy_to).  It may not after one of four things: a copy onto the
\* file's own path, move_copy_to() of a buffered file, a call whose future was
\* dropped and whose job then failed (or had only the removal left), and calls that
\* overlap with such a job.
PathIsWhole ==
    Idle /\ orphan = NoJob /\ file.kind \in {"left", "right"} /\ noted \subseteq {"kept"}
        => Whole(file.path)

\* A temporary file that no method has made permanent is removed, in whatever state
\* the TempFile and the calls on it were dropped: nothing is left in temp_dir
\* (the TempPath in TempFile::File, in a job, or in a PersistError).
TempIsRemoved ==
    file = Gone /\ orphan = NoJob /\ "kept" \notin noted => link[Tmp] # 1

\* Both: an upload is where its TempFile says, and nowhere once that is dropped.
UploadIsSafe == PathIsWhole /\ TempIsRemoved

-----------------------------------------------------------------------------
(* The inductive invariant behind these                                    *)

FileTypeOK ==
    /\ link \in [Paths -> Inodes \cup {0}]
    /\ data \in [Inodes -> {"whole", "old", "cut"}]
    /\ file \in [kind : {"none", "streaming", "buffered", "left", "right", "gone"}, path : Paths]
    /\ call \in [op : {"idle", "persist_to", "copy_to", "move_copy_to"}, dest : Paths]
    /\ job \in Jobs /\ orphan \in Jobs
    /\ noted \subseteq {"kept", "ownPath", "overlap", "cancelled", "bufferedMove"}

\* No file has two names.
OneName == \A p, q \in Paths : link[p] = link[q] /\ link[p] # 0 => p = q

\* Before the upload is complete nobody calls a method.
Early ==
    /\ file.kind \in {"none", "streaming"} => Idle /\ orphan = NoJob
    /\ file.kind = "none" => \A p \in Paths : link[p] # 1
    /\ file.kind = "streaming" => link[Tmp] = 1

\* What a method has put into self while it waits for a job
Awaits(j) ==
    /\ j.kind \in {"persist", "rename"} => file = Right(j.to)
    /\ j.kind = "keep" => file = Right(Tmp)
    /\ j.kind \in {"copy", "remove"} => file = Right(j.from)
    /\ j.kind = "write" => file = Buffered

\* What is known of a job, whether its method waits for it or not
IsSound(j) ==
    /\ j.kind = "none" <=> j = NoJob
    /\ j.st = "open" => /\ j.kind \in {"write", "copy"} /\ j.dst # 0
                        /\ j.kind = "copy" => j.src # 0
    /\ j.kind \in {"persist", "keep"} => j.from = Tmp
    /\ j.kind \in {"persist", "rename"} /\ j.to = Tmp => "kept" \in noted

Clean == noted \subseteq {"kept"}

JobsAreSound ==
    /\ IsSound(job) /\ IsSound(orphan)
    /\ Idle <=> job = NoJob
    /\ job # NoJob => Awaits(job)
    /\ job.kind = "copy" => job.to = call.dest
    /\ job.kind \in {"keep", "copy", "remove"} /\ Clean => call.dest # file.path
    /\ file.kind = "left" => file.path = Tmp
    /\ file.kind = "buffered" => file = Buffered
    /\ file.kind = "gone" => file = Gone /\ Idle
    /\ Clean /\ orphan # NoJob => job = NoJob /\ (file = Gone \/ Awaits(orphan))

\* Where the whole upload is while a job is under way
IsSafe(j) ==
    /\ j.kind \in {"persist", "rename"} => Whole(IF j.st = "ok" THEN j.to ELSE j.from)
    /\ j.kind = "keep" \/ (j.kind = "remove" /\ j.st # "ok") => Whole(j.from)
    /\ j.kind = "copy" => Whole(j.from) /\ j.from # j.to /\ (j.st = "open" => j.src = link[j.from])
    /\ j.kind \in {"copy", "write"} =>
          /\ j.st = "open" => j.dst = link[j.to]
          /\ j.st = "ok" => Whole(j.to)

UploadIsThere ==
    Clean =>
        /\ file.kind = "left" \/ (file.kind = "right" /\ job = NoJob /\ orphan = NoJob)
              => Whole(file.path)
        /\ file # Gone => IsSafe(job) /\ IsSafe(orphan)
        /\ job.kind = "remove" => Whole(call.dest)

\* The temporary file has an owner that will remove it.
TempIsOwned ==
    link[Tmp] = 1 /\ "kept" \notin noted =>
        \/ file.kind = "streaming" \/ file = Left(Tmp)
        \/ \E j \in {job, orphan} : j.kind = "keep" \/ (j.kind = "persist" /\ j.st # "ok")

FilesInv ==
    FileTypeOK /\ OneName /\ Early /\ JobsAreSound /\ UploadIsThere /\ TempIsOwned

-----------------------------------------------------------------------------
\* temp_file.rs:274: move_copy_to() "creates a full copy at `path`, and then deletes
\* the temporary file. `self.path()` is updated to `path`".  If the file was buffered
\* the code deletes the copy.
MovedFileExists ==
    Idle /\ returned.op = "move_copy_to" /\ returned.ok /\ Held
        /\ noted \cap {"ownPath", "overlap", "cancelled"} = {}
        => Whole(file.path)

=============================================================================
