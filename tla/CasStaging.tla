----------------------------- MODULE CasStaging -----------------------------
(***************************************************************************)
(* How the outputs of a job travel: from where the command left them into  *)
(* a staging file, from there into the content-addressed store and, for    *)
(* runners with a private tree, into the workspace.                        *)
(*                                                                         *)
(* Several wake processes share a workspace and a store without a lock.  A *)
(* copy takes two steps, with an incomplete file between them; a rename is *)
(* atomic.  A process may be killed between any two steps, and a later one *)
(* may get its process number, which is in the names of temporary files.   *)
(* A number is not reused between the kill(pid, 0) and the remove_all of a *)
(* sweep.  Process numbers name processes of one machine.                  *)
(*                                                                         *)
(* A primitive that finds no room on the heap for its result is executed   *)
(* again from its start, after what it did to the file system.             *)
(*                                                                         *)
(* A content stands for its hash.  Of a job one output is followed; modes  *)
(* and times are left out.  Which blobs may be removed is in BuildStore.   *)
(***************************************************************************)
EXTENDS Naturals, FiniteSets, Functions

CONSTANTS
  Wake,         \* process numbers
  Path,         \* workspace paths
  Content,
  Kinds,        \* runners: "workspace", and "private" for stagingDirRunner
  Types,        \* "file", "symlink", "directory"
  MaxJobs,      \* bound on the jobs
  MaxCrashes,   \* bound on the processes killed
  MaxRedos,     \* bound on the primitives executed again
  Partial,      \* the content of an incomplete file
  NULL

ASSUME StagingAssumption ==
  /\ Kinds \subseteq {"workspace", "private"}
  /\ Types \subseteq {"file", "symlink", "directory"}
  /\ MaxJobs \in Nat /\ MaxCrashes \in Nat /\ MaxRedos \in Nat
  /\ Partial \notin Content

\* The names of staging and temporary files, and of the directories they are in.
FileName ==
  [what : {"private", "root", "out", "slot", "store", "data", "mat", "link", "direct"},
   own : Wake, n : Nat, on : Path \cup Content \cup {"private", "root", NULL}]

ASSUME NameAssumption == NULL \notin FileName \cup {"workspace", "private"}

VARIABLES
  alive,     \* alive[w]: a process with that number runs
  job,       \* job[w]: the job whose output it handles
  seq,       \* seq[w]: the process's counter in file names
  ws,        \* ws[p]: the object at a workspace path
  blob,      \* blob[h]: the content of blobs/h
  fs,        \* files in the staging directories and temporary files
  dirs,      \* per-job directories in the staging directories
  killed,    \* process numbers that have been killed
  failed,    \* process numbers one of whose jobs has failed
  redone,    \* process numbers that have executed a primitive again
  budget,    \* jobs, kills and garbage collections to come
  made       \* stage roots made so far, their mkdtemp suffix

vars == <<alive, job, seq, ws, blob, fs, dirs, killed, failed, redone, budget, made>>

Name(what, w, n, on) == [what |-> what, own |-> w, n |-> n, on |-> on]

NoJob ==
  [at |-> "idle", kind |-> NULL, type |-> NULL, published |-> FALSE, path |-> NULL,
   dir |-> NULL, src |-> NULL, want |-> NULL, tmp |-> NULL]

Set(f, x, v) == [y \in DOMAIN f \cup {x} |-> IF y = x THEN v ELSE f[y]]
Drop(f, S) == Restrict(f, DOMAIN f \ S)
Within(d) == {x \in DOMAIN fs : x.own = d.own /\ x.n = d.n /\ x.on = d.what}

Init ==
  /\ alive = [w \in Wake |-> FALSE]
  /\ job = [w \in Wake |-> NoJob]
  /\ seq = [w \in Wake |-> 0]
  /\ ws = [p \in Path |-> NULL]
  /\ blob = [h \in Content |-> NULL]
  /\ fs = << >>
  /\ dirs = {}
  /\ killed = {} /\ failed = {} /\ redone = {}
  /\ budget = [jobs |-> MaxJobs, kills |-> MaxCrashes, redos |-> MaxRedos]
  /\ made = 0

-----------------------------------------------------------------------------
(* Processes *)

SweepByName(me) == Wake \ {me}
\* cleanup_stale_staging: whose .build/staging/<pid> is removed.
cleanup_stale_staging(me) == {v \in Wake \ {me} : ~alive[v]}

\* wake starts.  It sweeps unless another process has the sweep lock.
Boot(w) ==
  /\ ~alive[w]
  /\ alive' = [alive EXCEPT ![w] = TRUE]
  /\ seq' = [seq EXCEPT ![w] = 0]
  /\ \/ LET stale == cleanup_stale_staging(w) IN
        /\ fs' = Drop(fs, {x \in DOMAIN fs : x.what = "slot" /\ x.own \in stale})
        /\ dirs' = {d \in dirs : ~(d.what = "root" /\ d.own \in stale)}
     \/ /\ \E v \in Wake \ {w} : alive[v]
        /\ UNCHANGED <<fs, dirs>>
  /\ UNCHANGED <<job, ws, blob, killed, failed, redone, budget, made>>

Exit(w) ==
  /\ alive[w] /\ job[w].at = "idle"
  /\ alive' = [alive EXCEPT ![w] = FALSE]
  /\ UNCHANGED <<job, seq, ws, blob, fs, dirs, killed, failed, redone, budget, made>>

Kill(w) ==
  /\ alive[w] /\ budget.kills > 0
  /\ alive' = [alive EXCEPT ![w] = FALSE]
  /\ job' = [job EXCEPT ![w] = NoJob]
  /\ killed' = killed \cup {w}
  /\ budget' = [budget EXCEPT !.kills = @ - 1]
  /\ UNCHANGED <<seq, ws, blob, fs, dirs, failed, redone, made>>

-----------------------------------------------------------------------------
(* The job, and its outputs staged *)

Go(w, J) == job' = [job EXCEPT ![w] = J]
At(w, at) == alive[w] /\ job[w].at = at

\* Something the process did returned an error; cleanup is up to Finish.
Fail(w) ==
  /\ Go(w, [job[w] EXCEPT !.at = "failed", !.tmp = NULL])
  /\ failed' = failed \cup {w}

\* A command that writes its output in the workspace.
RunInWorkspace(w) ==
  /\ At(w, "idle") /\ "workspace" \in Kinds /\ budget.jobs > 0
  /\ budget' = [budget EXCEPT !.jobs = @ - 1]
  /\ \E p \in Path, t \in Types, c \in Content, pub \in BOOLEAN :
       /\ ws' = [ws EXCEPT ![p] = [type |-> t, data |-> c]]
       /\ Go(w, [NoJob EXCEPT !.at = "stage", !.kind = "workspace", !.path = p, !.published = pub])
  /\ UNCHANGED <<alive, seq, blob, fs, dirs, killed, failed, redone, made>>

\* alloc_staging_dir, which a directory left by a killed process defeats.
alloc_staging_dir(w) ==
  /\ At(w, "idle") /\ "private" \in Kinds /\ budget.jobs > 0
  /\ budget' = [budget EXCEPT !.jobs = @ - 1]
  /\ seq' = [seq EXCEPT ![w] = @ + 1]
  /\ LET d == Name("private", w, seq[w], NULL) IN
     IF d \in dirs
     THEN UNCHANGED <<dirs, job>>
     ELSE /\ dirs' = dirs \cup {d}
          /\ Go(w, [NoJob EXCEPT !.at = "inputs", !.kind = "private", !.dir = d])
  /\ UNCHANGED <<alive, ws, blob, fs, killed, failed, redone, made>>

\* remove_staging_dir
RemoveDir(d) ==
  /\ dirs' = dirs \ {d}
  /\ fs' = Drop(fs, Within(d))

\* stage_visible_inputs of one entry; without it the job is not set up.
StageVisible(w) ==
  /\ At(w, "inputs")
  /\ \E q \in Path :
       IF ws[q] = NULL
       THEN RemoveDir(job[w].dir) /\ Go(w, NoJob)
       ELSE Go(w, [job[w] EXCEPT !.at = "run"]) /\ UNCHANGED <<dirs, fs>>
  /\ UNCHANGED <<alive, seq, ws, blob, killed, failed, redone, budget, made>>

\* Where the command of a private job leaves its output.
Out(w) == Name("out", w, job[w].dir.n, "private")

\* Other jobs have no visible inputs.  The command writes its output below its
\* directory, or does not.
RunPrivately(w) ==
  /\ alive[w] /\ job[w].at \in {"inputs", "run"}
  /\ \E p \in Path, t \in Types, c \in Content, pub \in BOOLEAN :
       /\ fs' \in {fs, Set(fs, Out(w), c)}
       /\ Go(w, [job[w] EXCEPT !.at = "stage", !.path = p, !.type = t, !.published = pub])
  /\ UNCHANGED <<alive, seq, ws, blob, dirs, killed, failed, redone, budget, made>>

\* stage_outputs of a workspace output: a stage root, then a copy of a file, the
\* target of a symlink, or the mode of a directory.
StageCopy(w) ==
  /\ At(w, "stage") /\ job[w].kind = "workspace"
  /\ LET d == Name("root", w, made, NULL)
         x == Name("slot", w, made, "root")
         object == ws[job[w].path]
     IN  IF object = NULL
         THEN Fail(w) /\ UNCHANGED <<fs, dirs>>   \* lstat; CleanupRoot removes d
         ELSE /\ dirs' = dirs \cup {d}
              /\ fs' = IF object.type = "file" THEN Set(fs, x, Partial) ELSE fs
              /\ Go(w, [job[w] EXCEPT !.at = IF object.type = "file" THEN "staging" ELSE "hash",
                                      !.type = object.type, !.dir = d,
                                      !.src = IF object.type = "file" THEN x ELSE NULL,
                                      !.want = object.data])
              /\ UNCHANGED failed
  /\ made' = made + 1
  /\ UNCHANGED <<alive, seq, ws, blob, killed, redone, budget>>

\* The copy is made of what the path holds by now, or fails and CleanupRoot acts.
StageCopied(w) ==
  /\ At(w, "staging")
  /\ \/ /\ ws[job[w].path] # NULL /\ ws[job[w].path].type = "file"
        /\ fs' = [fs EXCEPT ![job[w].src] = ws[job[w].path].data]
        /\ Go(w, [job[w] EXCEPT !.at = "hash"])
        /\ UNCHANGED <<dirs, failed>>
     \/ RemoveDir(job[w].dir) /\ Fail(w)
  /\ UNCHANGED <<alive, seq, ws, blob, killed, redone, budget, made>>

\* In place: the staging path is the source.
StagePrivate(w) ==
  /\ At(w, "stage") /\ job[w].kind = "private"
  /\ IF Out(w) \in DOMAIN fs
     THEN /\ Go(w, [job[w] EXCEPT !.at = "hash", !.want = fs[Out(w)],
                                  !.src = IF job[w].type = "file" THEN Out(w) ELSE NULL])
          /\ UNCHANGED <<fs, dirs>>
     ELSE RemoveDir(job[w].dir) /\ Go(w, NoJob)
  /\ UNCHANGED <<alive, seq, ws, blob, killed, failed, redone, budget, made>>

\* The wake program hashes a published output: the staging file, which must be
\* there, or the target.
Hash(w) ==
  /\ At(w, "hash")
  /\ LET J == [job[w] EXCEPT !.at = IF job[w].published THEN "ingest" ELSE "direct"] IN
     CASE job[w].src = NULL -> Go(w, J) /\ UNCHANGED failed
       [] job[w].src \in DOMAIN fs -> Go(w, [J EXCEPT !.want = fs[job[w].src]]) /\ UNCHANGED failed
       [] OTHER -> Fail(w)
  /\ UNCHANGED <<alive, seq, ws, blob, fs, dirs, killed, redone, budget, made>>

-----------------------------------------------------------------------------
(* Into the store *)

\* reflink_or_copy_file, first half: the new file must not exist yet.  The
\* callers remove it when the copy fails, even one that was there before.
StartCopy(w, x, at) ==
  IF x \in DOMAIN fs
  THEN fs' = Drop(fs, {x}) /\ Fail(w)
  ELSE /\ fs' = Set(fs, x, Partial)
       /\ Go(w, [job[w] EXCEPT !.at = at, !.tmp = x])
       /\ UNCHANGED failed

\* Second half: it holds content, or the disk is full.
FinishCopy(w, content, at) ==
  \/ /\ fs' = [fs EXCEPT ![job[w].tmp] = content]
     /\ Go(w, [job[w] EXCEPT !.at = at])
     /\ UNCHANGED failed
  \/ fs' = Drop(fs, {job[w].tmp}) /\ Fail(w)

Stored(w) == [job[w] EXCEPT !.at = "stored", !.tmp = NULL]

\* cas_ingest_staged_item of a file
IngestFile(w) ==
  /\ At(w, "ingest") /\ job[w].type = "file"
  /\ seq' = [seq EXCEPT ![w] = @ + 1]
  /\ CASE job[w].src \in DOMAIN fs ->
            StartCopy(w, Name("store", w, seq[w], NULL), "storing")
       [] job[w].src \notin DOMAIN fs /\ blob[job[w].want] # NULL ->
            Go(w, Stored(w)) /\ UNCHANGED <<fs, failed>>
       [] OTHER -> Fail(w) /\ UNCHANGED fs
  /\ UNCHANGED <<alive, ws, blob, dirs, killed, redone, budget, made>>

\* store_blob_from_file_impl has its copy ...
StoreCopied(w) ==
  /\ At(w, "storing")
  /\ FinishCopy(w, fs[job[w].src], "check")
  /\ UNCHANGED <<alive, seq, ws, blob, dirs, killed, redone, budget, made>>

PlaceKeepsTemp(w) ==
  /\ At(w, "check") /\ blob[job[w].want] # NULL
  /\ fs' = Drop(fs, {job[w].src})
  /\ Go(w, Stored(w))
  /\ UNCHANGED <<alive, seq, ws, blob, dirs, killed, failed, redone, budget, made>>
\* ... and finds that the blob exists: cleanup_staging_file ends the ingest ...
AlreadyStored(w) ==
  /\ At(w, "check") /\ blob[job[w].want] # NULL
  /\ fs' = Drop(fs, {job[w].tmp, job[w].src})
  /\ Go(w, Stored(w))
  /\ UNCHANGED <<alive, seq, ws, blob, dirs, killed, failed, redone, budget, made>>

\* ... or that it does not, and goes on to the shard directory.
NotStored(w) ==
  /\ At(w, "check") /\ blob[job[w].want] = NULL
  /\ Go(w, [job[w] EXCEPT !.at = "place"])
  /\ UNCHANGED <<alive, seq, ws, blob, fs, dirs, killed, failed, redone, budget, made>>

\* The rename, over a blob that another process placed meanwhile; a file's
\* staging copy goes.  It may fail with the shard directory.
Place(w) ==
  /\ At(w, "place")
  /\ \/ /\ blob' = [blob EXCEPT ![job[w].want] = fs[job[w].tmp]]
        /\ fs' = Drop(fs, {job[w].tmp, job[w].src})
        /\ Go(w, Stored(w))
        /\ UNCHANGED failed
     \/ fs' = Drop(fs, {job[w].tmp}) /\ Fail(w) /\ UNCHANGED blob
  /\ UNCHANGED <<alive, seq, ws, dirs, killed, redone, budget, made>>

\* cas_ingest_staged_item of a symlink: store_blob_impl.  Its temporary file has
\* no counter in its name, and is truncated if it is there.
IngestSymlink(w) ==
  /\ At(w, "ingest") /\ job[w].type = "symlink"
  /\ LET x == Name("data", w, 0, job[w].want) IN
     IF blob[job[w].want] # NULL
     THEN Go(w, Stored(w)) /\ UNCHANGED fs
     ELSE /\ fs' = Set(fs, x, Partial)
          /\ Go(w, [job[w] EXCEPT !.at = "writing", !.tmp = x])
  /\ UNCHANGED <<alive, seq, ws, blob, dirs, killed, failed, redone, budget, made>>

DataWritten(w) ==
  /\ At(w, "writing")
  /\ FinishCopy(w, job[w].want, "place")
  /\ UNCHANGED <<alive, seq, ws, blob, dirs, killed, redone, budget, made>>

IngestDirectory(w) ==
  /\ At(w, "ingest") /\ job[w].type = "directory"
  /\ Go(w, Stored(w))
  /\ UNCHANGED <<alive, seq, ws, blob, fs, dirs, killed, failed, redone, budget, made>>

-----------------------------------------------------------------------------
(* Into the workspace *)

Done(w) == [job[w] EXCEPT !.at = "done", !.tmp = NULL]

\* A workspace job has its output in place already.
InPlace(w) ==
  /\ At(w, "stored") /\ job[w].kind = "workspace"
  /\ Go(w, Done(w))
  /\ UNCHANGED <<alive, seq, ws, blob, fs, dirs, killed, failed, redone, budget, made>>

MaterializeDirectly(w) ==
  /\ At(w, "stored") /\ job[w].kind = "private" /\ job[w].type = "file"
  /\ ws' = [ws EXCEPT ![job[w].path] = [type |-> "file", data |-> Partial]]
  /\ fs' = Set(fs, Name("mat", w, 0, job[w].path), Partial)
  /\ Go(w, [job[w] EXCEPT !.at = "copying", !.tmp = Name("mat", w, 0, job[w].path)])
  /\ UNCHANGED <<alive, seq, blob, dirs, killed, failed, redone, budget, made>>
\* materialize_blob: the temporary name is the destination's and the process's.
MaterializeFile(w) ==
  /\ At(w, "stored") /\ job[w].kind = "private" /\ job[w].type = "file"
  /\ IF blob[job[w].want] = NULL
     THEN Fail(w) /\ UNCHANGED fs
     ELSE StartCopy(w, Name("mat", w, 0, job[w].path), "copying")
  /\ UNCHANGED <<alive, seq, ws, blob, dirs, killed, redone, budget, made>>

\* cas_materialize_item of a symlink: read_blob, then a link of another name.
MaterializeSymlink(w) ==
  /\ At(w, "stored") /\ job[w].kind = "private" /\ job[w].type = "symlink"
  /\ seq' = [seq EXCEPT ![w] = @ + 1]
  /\ LET x == Name("link", w, seq[w], job[w].path) IN
     IF blob[job[w].want] = NULL \/ x \in DOMAIN fs
     THEN Fail(w) /\ UNCHANGED fs
     ELSE /\ fs' = Set(fs, x, blob[job[w].want])
          /\ Go(w, [job[w] EXCEPT !.at = "rename", !.tmp = x])
          /\ UNCHANGED failed
  /\ UNCHANGED <<alive, ws, blob, dirs, killed, redone, budget, made>>

\* A directory: what is there and is none is unlinked first ...
MaterializeDirectory(w) ==
  /\ alive[w] /\ job[w].kind = "private" /\ job[w].type = "directory"
  /\ job[w].at = "stored" \/ job[w].at = "direct"
  /\ LET object == ws[job[w].path] IN
     IF object # NULL /\ object.type = "directory"
     THEN Go(w, Done(w)) /\ UNCHANGED ws
     ELSE Go(w, [job[w] EXCEPT !.at = "mkdir"]) /\ ws' = [ws EXCEPT ![job[w].path] = NULL]
  /\ UNCHANGED <<alive, seq, blob, fs, dirs, killed, failed, redone, budget, made>>

\* ... and make_dir_or_chmod takes EEXIST for a directory made by another process.
Mkdir(w) ==
  /\ At(w, "mkdir")
  /\ ws' = [ws EXCEPT ![job[w].path] =
              IF @ = NULL THEN [type |-> "directory", data |-> job[w].want] ELSE @]
  /\ Go(w, Done(w))
  /\ UNCHANGED <<alive, seq, blob, fs, dirs, killed, failed, redone, budget, made>>

\* materialize_staged_workspace_item: an unpublished output skips the store.
DirectFile(w) ==
  /\ At(w, "direct") /\ job[w].kind = "private" /\ job[w].type = "file"
  /\ seq' = [seq EXCEPT ![w] = @ + 1]
  /\ IF job[w].src \in DOMAIN fs
     THEN StartCopy(w, Name("direct", w, seq[w], job[w].path), "copying")
     ELSE Fail(w) /\ UNCHANGED fs
  /\ UNCHANGED <<alive, ws, blob, dirs, killed, redone, budget, made>>

DirectSymlink(w) ==
  /\ At(w, "direct") /\ job[w].kind = "private" /\ job[w].type = "symlink"
  /\ seq' = [seq EXCEPT ![w] = @ + 1]
  /\ LET x == Name("direct", w, seq[w], job[w].path) IN
     IF x \in DOMAIN fs
     THEN Fail(w) /\ UNCHANGED fs
     ELSE /\ fs' = Set(fs, x, job[w].want)
          /\ Go(w, [job[w] EXCEPT !.at = "rename", !.tmp = x])
          /\ UNCHANGED failed
  /\ UNCHANGED <<alive, ws, blob, dirs, killed, redone, budget, made>>

\* unlinkStagingSourceIfFile: an unpublished output of a workspace job.
Unpublished(w) ==
  /\ At(w, "direct") /\ job[w].kind = "workspace"
  /\ fs' = Drop(fs, {job[w].src})
  /\ Go(w, Done(w))
  /\ UNCHANGED <<alive, seq, ws, blob, dirs, killed, failed, redone, budget, made>>

Copied(w) ==
  /\ At(w, "copying")
  /\ FinishCopy(w, IF job[w].published THEN blob[job[w].want] ELSE fs[job[w].src], "rename")
  /\ UNCHANGED <<alive, seq, ws, blob, dirs, killed, redone, budget, made>>

\* The rename into the workspace, which a directory in its place defeats; the
\* staging file of an unpublished output goes with it.
Replace(w) ==
  /\ At(w, "rename")
  /\ LET object == ws[job[w].path] IN
     IF object # NULL /\ object.type = "directory"
     THEN fs' = Drop(fs, {job[w].tmp}) /\ Fail(w) /\ UNCHANGED ws
     ELSE /\ ws' = [ws EXCEPT ![job[w].path] = [type |-> job[w].type, data |-> fs[job[w].tmp]]]
          /\ fs' = Drop(fs, {job[w].tmp, job[w].src})
          /\ Go(w, Done(w))
          /\ UNCHANGED failed
  /\ UNCHANGED <<alive, seq, blob, dirs, killed, redone, budget, made>>

\* finalizeJob: rmdir of the stage root, if empty; remove_staging_dir of the
\* private tree, if all went well.
Finish(w) ==
  /\ alive[w] /\ job[w].at \in {"done", "failed"}
  /\ CASE job[w].kind = "workspace" ->
            /\ dirs' = {d \in dirs : d = job[w].dir => Within(d) # {}}
            /\ UNCHANGED fs
       [] job[w].kind = "private" /\ job[w].at = "done" -> RemoveDir(job[w].dir)
       [] OTHER -> UNCHANGED <<dirs, fs>>
  /\ Go(w, NoJob)
  /\ UNCHANGED <<alive, seq, ws, blob, killed, failed, redone, budget, made>>

-----------------------------------------------------------------------------
(* Primitives executed again *)

\* What the job was at when the primitive began that has brought it here.
Began(J) ==
  CASE J.at = "hash" -> "stage"
    [] J.at = "stored" -> "ingest"
    [] J.at = "done" /\ J.kind = "private" -> IF J.published THEN "stored" ELSE "direct"
    [] OTHER -> NULL

\* heap.reserve for the result throws, Runtime::run collects garbage and executes
\* the same work again.  CleanupRoot has removed the root of stage_outputs.
Redo(w) ==
  /\ alive[w] /\ budget.redos > 0 /\ Began(job[w]) # NULL
  /\ budget' = [budget EXCEPT !.redos = @ - 1]
  /\ redone' = redone \cup {w}
  /\ Go(w, [job[w] EXCEPT !.at = Began(job[w])])
  /\ IF job[w].at = "hash" /\ job[w].kind = "workspace"
     THEN RemoveDir(job[w].dir) ELSE UNCHANGED <<dirs, fs>>
  /\ UNCHANGED <<alive, seq, ws, blob, killed, failed, made>>

\* alloc_staging_dir makes another directory.
RedoAlloc(w) ==
  /\ At(w, "inputs") /\ budget.redos > 0
  /\ budget' = [budget EXCEPT !.redos = @ - 1]
  /\ redone' = redone \cup {w}
  /\ seq' = [seq EXCEPT ![w] = @ + 1]
  /\ LET d == Name("private", w, seq[w], NULL) IN
     IF d \in dirs
     THEN Go(w, NoJob) /\ UNCHANGED dirs
     ELSE dirs' = dirs \cup {d} /\ Go(w, [job[w] EXCEPT !.dir = d])
  /\ UNCHANGED <<alive, ws, blob, fs, killed, failed, made>>

-----------------------------------------------------------------------------

Step(w) ==
  \/ Boot(w) \/ Exit(w) \/ Kill(w)
  \/ RunInWorkspace(w) \/ alloc_staging_dir(w) \/ StageVisible(w) \/ RunPrivately(w)
  \/ StageCopy(w) \/ StageCopied(w) \/ StagePrivate(w) \/ Hash(w)
  \/ IngestFile(w) \/ StoreCopied(w) \/ AlreadyStored(w) \/ NotStored(w) \/ Place(w)
  \/ IngestSymlink(w) \/ DataWritten(w) \/ IngestDirectory(w)
  \/ InPlace(w) \/ MaterializeFile(w) \/ MaterializeSymlink(w)
  \/ MaterializeDirectory(w) \/ Mkdir(w)
  \/ DirectFile(w) \/ DirectSymlink(w) \/ Unpublished(w)
  \/ Copied(w) \/ Replace(w) \/ Finish(w) \/ Redo(w) \/ RedoAlloc(w)

Next == \E w \in Wake : Step(w)

Spec == Init /\ [][Next]_vars

-----------------------------------------------------------------------------
(* Properties *)

\* Nobody ever sees an incomplete or a wrong file: a blob holds the content its
\* name is the hash of, and a workspace file a whole content, whatever the
\* copies of other processes have come to and wherever one was killed.
FilesAreWhole ==
  /\ \A h \in Content : blob[h] \in {NULL, h}
  /\ \A p \in Path : ws[p] # NULL => ws[p].data # Partial

\* An output that was hashed is not lost: its staging file holds the bytes that
\* were hashed until the store has them, and from then on the store does.  A
\* sweep by another wake, another job at the same path, or an ingest executed
\* twice change nothing.
HashedOutputsSurvive ==
  \A w \in Wake : alive[w] /\ job[w].published =>
    /\ job[w].at \in {"ingest", "storing", "check", "place"} /\ job[w].type = "file" =>
         \/ job[w].src \in DOMAIN fs /\ fs[job[w].src] = job[w].want
         \/ blob[job[w].want] = job[w].want
    /\ job[w].at \in {"stored", "done"} /\ job[w].type \in {"file", "symlink"} =>
         blob[job[w].want] = job[w].want

\* Only a kill leaves a temporary file behind, only a kill or a failed job a
\* staging file, and only these or an alloc_staging_dir executed again a
\* directory: every other name is one of a job under way.
LeftoversHaveACause ==
  /\ \A x \in DOMAIN fs :
       \/ x.own \in killed
       \/ x = job[x.own].tmp
       \/ x.what \in {"slot", "out"} /\ (x.own \in failed \/ job[x.own].dir \in dirs)
  /\ \A d \in dirs : d.own \in killed \cup failed \cup redone \/ job[d.own].dir = d
=============================================================================
