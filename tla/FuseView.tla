------------------------------ MODULE FuseView ------------------------------
(***************************************************************************)
(* What a sandboxed job sees and leaves behind: the file operations of     *)
(* fuse-waked.                                                             *)
(*                                                                         *)
(* A job has a set of visible entries, served from the content-addressed   *)
(* store, which is taken to have their blobs, and the items it made        *)
(* itself, which are staged: files and special nodes have a backing object *)
(* in the staging directory, symlinks and directories exist in memory      *)
(* only.  The daemon records what the job read and wrote and reports it    *)
(* when wakebox writes to the live file.                                   *)
(*                                                                         *)
(* A path is a sequence of names.  Contents, modes and times are left out. *)
(* The daemon runs one request at a time.  The kernel resolves a path      *)
(* before it sends the request, so a request names existing parents; and   *)
(* libfuse renames an open file out of the way instead of removing it.     *)
(***************************************************************************)
EXTENDS Naturals, Sequences, FiniteSets, Functions

CONSTANTS
  Job,
  Paths,        \* the paths a job may name, closed under parents
  Input,        \* Input[j]: the visible entries sent by wakebox, with types
  Slots,        \* file descriptors
  MaxStaging,   \* bound on g_staging_counter
  MaxItems,     \* bound on the items a job has at a time
  Kinds,        \* node types a job creates
  Hidden,       \* the name libfuse gives to a removed file that is open
  NULL

\* A directory above a path, and the last name of a path.
IsStrictPrefix(d, p) == Len(d) < Len(p) /\ SubSeq(p, 1, Len(d)) = d
Last(p) == p[Len(p)]

ASSUME ViewAssumption ==
  /\ Paths \subseteq Seq(STRING) \ {<< >>} /\ NULL \notin Paths
  /\ \A p \in Paths : \A n \in 1..Len(p) : SubSeq(p, 1, n) \in Paths
  /\ Kinds \subseteq {"file", "symlink", "directory", "special"}
  /\ MaxStaging \in Nat /\ MaxItems \in Nat
  /\ \A j \in Job :
       /\ Input[j] \in [DOMAIN Input[j] -> {"file", "symlink", "directory"}]
       /\ DOMAIN Input[j] \subseteq Paths
       /\ \A p, d \in DOMAIN Input[j] : IsStrictPrefix(d, p) => Input[j][d] = "directory"

None == << >>
Blob == 0      \* a descriptor of an object in the store

VARIABLES
  phase,     \* phase[j]: how far the job's wakebox has come
  job,       \* job[j]: the entry of context.jobs and of g_staged_files
  fds,       \* fds[i]: an open file, or NULL
  disk,      \* backing objects in the staging directory
  counter,   \* g_staging_counter
  handed,    \* handed[j]: staging files in json_out, once wakebox asked for it
  served,    \* served[j]: visible items whose bytes were given to the job
  merged     \* merged[j]: a rename has replaced a directory that was not empty

vars == <<phase, job, fds, disk, counter, handed, served, merged>>

EmptyJob ==
  [visible |-> None, read |-> {}, wrote |-> {}, paths |-> {}, staged |-> None]

-----------------------------------------------------------------------------
(* Paths *)

Below == [d \in Paths \cup {<< >>} |-> {p \in Paths : IsStrictPrefix(d, p)}]
Under(p, d) == p \in Below[d]
Parent(p) == SubSeq(p, 1, Len(p) - 1)
HiddenIn(p) == Append(Parent(p), Hidden)
IsHidden(p) == Last(p) = Hidden
Moved(p, d, e) == e \o SubSeq(p, Len(d) + 1, Len(p))
Drop(f, S) == Restrict(f, DOMAIN f \ S)

ParseListed(entries) == entries
\* Job::parse: explicit entries, and a directory for every ancestor they lack.
Parse(entries) ==
  LET ancestors == {d \in Paths : \E p \in DOMAIN entries : Under(p, d)}
  IN  [p \in DOMAIN entries \cup ancestors |->
         IF p \in DOMAIN entries THEN entries[p] ELSE "directory"]

is_visible(J, p) ==
  \E q \in DOMAIN J.visible : q = p \/ Under(q, p)

is_writeable(J, p) == p \in J.wrote

is_readable(J, p) == is_visible(J, p) \/ is_writeable(J, p) \/ p \in J.paths

Backing(item) == IF item.kind \in {"file", "special"} THEN {item.back} ELSE {}

-----------------------------------------------------------------------------
(* Operations that only look *)

\* The type a lookup of p finds, or ENOENT.
getattr(J, p) ==
  CASE p = << >> -> "directory"
    [] p # << >> /\ ~is_readable(J, p) -> "ENOENT"
    [] p # << >> /\ is_readable(J, p) /\ p \in DOMAIN J.staged ->
         IF Backing(J.staged[p]) \subseteq disk THEN J.staged[p].kind ELSE "ENOENT"
    [] OTHER -> IF p \in DOMAIN J.visible THEN J.visible[p] ELSE "ENOENT"

Exists(J, p) == getattr(J, p) # "ENOENT"

\* access(path, mask) with every mode bit set; mask is "R", "W" or "X".
access(J, p, mask) ==
  CASE ~is_readable(J, p) -> "ENOENT"
    [] is_readable(J, p) /\ p \in DOMAIN J.staged ->
         IF \/ J.staged[p].kind = "special" /\ Backing(J.staged[p]) \cap disk = {}
            \/ J.staged[p].kind = "file" /\ mask = "R" /\ Backing(J.staged[p]) \cap disk = {}
         THEN "ENOENT" ELSE "OK"
    [] OTHER -> IF p \notin DOMAIN J.visible THEN "ENOENT"
                ELSE IF J.visible[p] = "file" /\ mask = "W" THEN "EACCES" ELSE "OK"

\* The names a directory listing gives, apart from "." and "..".
readdir(J, d) ==
  LET all == DOMAIN J.staged \cup J.wrote \cup DOMAIN J.visible
  IN  {p[Len(d) + 1] : p \in {q \in all : Under(q, d)}}

\* How opening p for reading or writing ends: the object behind the descriptor.
open(J, p) ==
  CASE ~is_readable(J, p) -> "ENOENT"
    [] is_readable(J, p) /\ p \in DOMAIN J.staged ->
         CASE J.staged[p].kind = "directory" -> "EISDIR"
           [] J.staged[p].kind = "special" -> "ENXIO"
           [] J.staged[p].kind = "symlink" -> "EINVAL"
           [] OTHER -> IF Backing(J.staged[p]) \subseteq disk THEN "staged" ELSE "ENOENT"
    [] OTHER -> IF p \in DOMAIN J.visible /\ J.visible[p] = "file" THEN "blob" ELSE "ENOENT"

-----------------------------------------------------------------------------
(* Operations that change something they must own.  Each ends in an error, *)
(* on a staged item, or in the branch that works in the real workspace.    *)

Owned(J, p, onStaged) ==
  CASE ~is_readable(J, p) -> "ENOENT"
    [] is_readable(J, p) /\ ~is_writeable(J, p) -> "EACCES"
    [] is_writeable(J, p) /\ p \in DOMAIN J.staged -> onStaged[J.staged[p].kind]
    [] OTHER -> "workspace"

AnyKind == [k \in {"file", "symlink", "directory", "special"} |-> "OK"]
FileOnly ==
  [k \in {"file", "symlink", "directory", "special"} |->
     CASE k = "file" -> "OK" [] k = "directory" -> "EISDIR" [] OTHER -> "EINVAL"]

\* A write through a descriptor, which the kernel knows by the name it has now.
write(J, p) == IF is_writeable(J, p) THEN "OK" ELSE "EACCES"

chmod(J, p) == Owned(J, p, AnyKind)
chown(J, p) == Owned(J, p, AnyKind)
utimens(J, p) == Owned(J, p, AnyKind)
truncate(J, p) == Owned(J, p, FileOnly)
fallocate(J, p) == Owned(J, p, FileOnly)
unlink(J, p) == Owned(J, p, AnyKind)

has_children(J, d) == \E p \in DOMAIN J.staged : Under(p, d)

rmdir(J, p) ==
  IF p \in DOMAIN J.staged /\ J.staged[p].kind = "directory"
  THEN Owned(J, p, [AnyKind EXCEPT !["directory"] = IF has_children(J, p) THEN "ENOTEMPTY" ELSE "OK"])
  ELSE IF Owned(J, p, AnyKind) = "OK" THEN "workspace" ELSE Owned(J, p, AnyKind)

rename(J, f, t) ==
  IF Owned(J, f, AnyKind) \in {"OK", "workspace"} /\ is_visible(J, t) THEN "EACCES"
  ELSE Owned(J, f, AnyKind)

-----------------------------------------------------------------------------
(* The job's entry after an operation that succeeded *)

Stage(J, p, item) ==
  [J EXCEPT !.staged = [q \in DOMAIN J.staged \cup {p} |-> IF q = p THEN item ELSE J.staged[q]],
            !.paths = @ \cup {p},
            !.wrote = @ \cup {p}]

Unstage(J, p) ==
  [J EXCEPT !.staged = Drop(J.staged, {p}),
            !.paths = @ \ {p}, !.wrote = @ \ {p}, !.read = @ \ {p}]

move_members(S, d, e) == {q \in S : ~Under(q, d)} \cup {Moved(q, d, e) : q \in {r \in S : Under(r, d)}}

\* Children of d get their new place, over whatever had it.
move_staged_children(staged, d, e) ==
  LET moving == {q \in DOMAIN staged : Under(q, d)}
      kept == Drop(staged, moving)
      placed == {Moved(q, d, e) : q \in moving}
  IN  [p \in DOMAIN kept \cup placed |->
         IF p \in placed THEN staged[CHOOSE q \in moving : Moved(q, d, e) = p] ELSE kept[p]]

RenameInLists(J, f, t) ==
  LET own == Stage(Unstage(J, f), t, J.staged[f])
  IN  [own EXCEPT !.paths = move_members(own.paths, f, t),
                  !.wrote = move_members(own.wrote, f, t)]
Rename(J, f, t) ==
  LET item == J.staged[f]
      own == Stage(Unstage(J, f), t, item)
  IN  IF item.kind # "directory" THEN own
      ELSE [own EXCEPT !.staged = move_staged_children(own.staged, f, t),
                       !.paths = move_members(own.paths, f, t),
                       !.wrote = move_members(own.wrote, f, t),
                       !.read = move_members(own.read, f, t)]

\* Backing objects rename unlinks.
Replaced(J, t) == IF t \in DOMAIN J.staged THEN Backing(J.staged[t]) ELSE {}

\* Job::dump
Report(J) ==
  LET reported == {p \in DOMAIN J.staged : ~IsHidden(p) /\ J.staged[p].kind # "special"}
  IN  [inputs |-> J.read \ J.wrote,
       outputs |-> {p \in J.wrote : ~IsHidden(p) /\
                      ~(p \in DOMAIN J.staged /\ J.staged[p].kind = "special")},
       staging |-> Restrict(J.staged, reported)]

-----------------------------------------------------------------------------
(* Steps *)

Init ==
  /\ phase = [j \in Job |-> "none"]
  /\ job = [j \in Job |-> EmptyJob]
  /\ fds = [i \in Slots |-> NULL]
  /\ disk = {}
  /\ counter = 0
  /\ handed = [j \in Job |-> {}]
  /\ served = [j \in Job |-> {}]
  /\ merged = [j \in Job |-> FALSE]

\* open(O_CREAT) of .l.<job>: the entry of the job appears.
Attach(j) ==
  /\ phase[j] = "none"
  /\ phase' = [phase EXCEPT ![j] = "attached"]
  /\ job' = [job EXCEPT ![j] = EmptyJob]
  /\ UNCHANGED <<fds, disk, counter, handed, served, merged>>

\* Last release of .i.<job>: the visible entries are parsed, the payload starts.
SendInput(j) ==
  /\ phase[j] = "attached"
  /\ phase' = [phase EXCEPT ![j] = "running"]
  /\ job' = [job EXCEPT ![j].visible = Parse(Input[j])]
  /\ UNCHANGED <<fds, disk, counter, handed, served, merged>>

\* The payload, or a process it left behind, still sees its mount.
Running(j) == phase[j] \in {"running", "reported"}

\* The kernel walks a path through directories.
Reached(J, p) == \A d \in Paths : Under(p, d) => getattr(J, d) = "directory"

\* The kernel asks for a new p: it got to its parent and found none.
MayCreate(j, p) ==
  /\ Running(j)
  /\ Cardinality(DOMAIN job[j].staged) < MaxItems
  /\ ~IsHidden(p)
  /\ Reached(job[j], p) /\ ~Exists(job[j], p)

\* create: an item left without its backing object is forgotten first.
Create(j, p, i) ==
  /\ ~is_visible(job[j], p)
  /\ fds[i] = NULL /\ counter < MaxStaging
  /\ LET J == job[j]
         old == IF p \in DOMAIN J.staged THEN Backing(J.staged[p]) ELSE {}
     IN  /\ counter' = counter + 1
         /\ disk' = (disk \ old) \cup {counter'}
         /\ job' = [job EXCEPT ![j] = Stage(J, p, [kind |-> "file", back |-> counter'])]
         /\ fds' = [fds EXCEPT ![i] = [job |-> j, path |-> p, what |-> counter']]
  /\ UNCHANGED <<phase, handed, served, merged>>

\* mknod, mkdir and symlink refuse what the job already wrote.
MakeNode(j, p, kind) ==
  /\ ~is_visible(job[j], p) /\ ~is_writeable(job[j], p)
  /\ IF kind \in {"file", "special"}
     THEN /\ counter < MaxStaging
          /\ counter' = counter + 1
          /\ disk' = disk \cup {counter'}
          /\ job' = [job EXCEPT ![j] = Stage(@, p, [kind |-> kind, back |-> counter'])]
     ELSE /\ job' = [job EXCEPT ![j] = Stage(@, p, [kind |-> kind])]
          /\ UNCHANGED <<disk, counter>>
  /\ UNCHANGED <<phase, fds, handed, served, merged>>

Mknod(j, p) == \E k \in Kinds \cap {"file", "special"} : MakeNode(j, p, k)
Mkdir(j, p) == "directory" \in Kinds /\ MakeNode(j, p, "directory")
Symlink(j, p) == "symlink" \in Kinds /\ MakeNode(j, p, "symlink")

LinkShared(j, f, t) ==
  /\ MayCreate(j, t) /\ Reached(job[j], f) /\ Exists(job[j], f) /\ ~IsHidden(f)
  /\ ~is_visible(job[j], t) /\ ~is_visible(job[j], f)
  /\ f \in DOMAIN job[j].staged /\ job[j].staged[f].kind = "file"
  /\ job' = [job EXCEPT ![j] = Stage(@, t, @.staged[f])]
  /\ UNCHANGED <<phase, fds, disk, counter, handed, served, merged>>
\* link: the new name has a staging file of its own, a hard link of the old one.
Link(j, f, t) ==
  /\ MayCreate(j, t) /\ Reached(job[j], f) /\ Exists(job[j], f) /\ ~IsHidden(f)
  /\ ~is_visible(job[j], t) /\ ~is_visible(job[j], f)
  /\ f \in DOMAIN job[j].staged /\ job[j].staged[f].kind = "file"
  /\ counter < MaxStaging
  /\ counter' = counter + 1
  /\ disk' = disk \cup {counter'}
  /\ job' = [job EXCEPT ![j] = Stage(@, t, [kind |-> "file", back |-> counter'])]
  /\ UNCHANGED <<phase, fds, handed, served, merged>>

Open(j, p, i) ==
  /\ Running(j) /\ ~IsHidden(p) /\ fds[i] = NULL
  /\ Reached(job[j], p) /\ Exists(job[j], p) /\ open(job[j], p) \in {"staged", "blob"}
  /\ fds' = [fds EXCEPT ![i] =
       [job |-> j, path |-> p,
        what |-> IF open(job[j], p) = "staged" THEN job[j].staged[p].back ELSE Blob]]
  /\ UNCHANGED <<phase, job, disk, counter, handed, served, merged>>

\* read: the name the descriptor has now is recorded.
Read(i) ==
  /\ fds[i] # NULL /\ fds[i].path # NULL
  /\ LET j == fds[i].job IN
     /\ Running(j)
     /\ job' = [job EXCEPT ![j].read = @ \cup {fds[i].path}]
     /\ served' = [served EXCEPT ![j] =
          IF fds[i].what = Blob /\ phase[j] = "running" THEN @ \cup {fds[i].path} ELSE @]
  /\ UNCHANGED <<phase, fds, disk, counter, handed, merged>>

Readlink(j, p) ==
  /\ Running(j) /\ Reached(job[j], p) /\ getattr(job[j], p) = "symlink"
  /\ job' = [job EXCEPT ![j].read = @ \cup {p}]
  /\ served' = [served EXCEPT ![j] =
       IF p \notin DOMAIN job[j].staged /\ phase[j] = "running" THEN @ \cup {p} ELSE @]
  /\ UNCHANGED <<phase, fds, disk, counter, handed, merged>>

OpenOn(j, p) == {i \in Slots : fds[i] # NULL /\ fds[i].job = j /\ fds[i].path = p}

\* Where descriptors point once f was renamed to t; those below a replaced
\* directory have lost their name.
Follow(j, f, t) ==
  [i \in Slots |->
    IF fds[i] = NULL \/ fds[i].job # j \/ fds[i].path = NULL THEN fds[i]
    ELSE [fds[i] EXCEPT !.path = IF @ = f THEN t
                                 ELSE IF Under(@, f) THEN Moved(@, f, t)
                                 ELSE IF Under(@, t) THEN NULL ELSE @]]

\* libfuse takes a hidden name that it does not find in the view.
MayHide(J, p) == HiddenIn(p) \in Paths \ (DOMAIN J.staged \cup DOMAIN J.visible)

\* An open file is renamed to its hidden name, any other is removed.
Unlink(j, p) ==
  /\ Running(j) /\ ~IsHidden(p) /\ Reached(job[j], p)
  /\ getattr(job[j], p) \notin {"directory", "ENOENT"}
  /\ unlink(job[j], p) = "OK"
  /\ IF OpenOn(j, p) # {}
     THEN /\ MayHide(job[j], p)
          /\ job' = [job EXCEPT ![j] = Rename(@, p, HiddenIn(p))]
          /\ fds' = Follow(j, p, HiddenIn(p))
          /\ UNCHANGED disk
     ELSE /\ job' = [job EXCEPT ![j] = Unstage(@, p)]
          /\ disk' = disk \ Backing(job[j].staged[p])
          /\ UNCHANGED fds
  /\ UNCHANGED <<phase, counter, handed, served, merged>>

Rmdir(j, p) ==
  /\ Running(j) /\ Reached(job[j], p) /\ getattr(job[j], p) = "directory"
  /\ rmdir(job[j], p) = "OK"
  /\ job' = [job EXCEPT ![j] = Unstage(@, p)]
  /\ UNCHANGED <<phase, fds, disk, counter, handed, served, merged>>

\* The kernel asks for a rename between items of a kind, neither below the
\* other; libfuse hides a target that is open.
RenameRequest(j, f, t) ==
  /\ Running(j) /\ f # t /\ ~Under(t, f) /\ ~Under(f, t) /\ ~IsHidden(f) /\ ~IsHidden(t)
  /\ Reached(job[j], f) /\ Exists(job[j], f) /\ Reached(job[j], t)
  /\ Exists(job[j], t) =>
       (getattr(job[j], f) = "directory") = (getattr(job[j], t) = "directory")
  /\ rename(job[j], f, t) = "OK"
  /\ move_members(job[j].wrote, f, t) \subseteq Paths   \* bound on the depth
  /\ IF OpenOn(j, t) # {}
     THEN LET J == Rename(job[j], t, HiddenIn(t)) IN
          /\ MayHide(job[j], t)
          /\ job' = [job EXCEPT ![j] = Rename(J, f, t)]
          /\ fds' = [i \in Slots |-> IF i \in OpenOn(j, t)
                                     THEN [fds[i] EXCEPT !.path = HiddenIn(t)]
                                     ELSE Follow(j, f, t)[i]]
          /\ UNCHANGED disk
     ELSE /\ job' = [job EXCEPT ![j] = Rename(@, f, t)]
          /\ fds' = Follow(j, f, t)
          /\ disk' = disk \ Replaced(job[j], t)
  /\ merged' = [merged EXCEPT ![j] = @ \/ has_children(job[j], t)]
  /\ UNCHANGED <<phase, counter, handed, served>>

\* release of a file; libfuse removes a hidden file with its last descriptor.
Release(i) ==
  /\ fds[i] # NULL
  /\ fds' = [fds EXCEPT ![i] = NULL]
  /\ LET j == fds[i].job
         p == fds[i].path
     IN  IF /\ p # NULL /\ IsHidden(p) /\ OpenOn(j, p) = {i}
            /\ Running(j) /\ Exists(job[j], p) /\ unlink(job[j], p) = "OK"
         THEN /\ disk' = disk \ Backing(job[j].staged[p])
              /\ job' = [job EXCEPT ![j] = Unstage(@, p)]
         ELSE UNCHANGED <<disk, job>>
  /\ UNCHANGED <<phase, counter, handed, served, merged>>

\* A write to the live file: Job::dump, once.
Dump(j) ==
  /\ phase[j] = "running"
  /\ phase' = [phase EXCEPT ![j] = "reported"]
  /\ handed' = [handed EXCEPT ![j] = UNION {Backing(i) : i \in Range(Report(job[j]).staging)}]
  /\ job' = [job EXCEPT ![j].read = @ \ job[j].wrote]
  /\ UNCHANGED <<fds, disk, counter, served, merged>>

\* wake has put a reported file into the store and unlinks the staging file.
Ingest(j, n) ==
  /\ n \in handed[j] \cap disk
  /\ disk' = disk \ {n}
  /\ UNCHANGED <<phase, job, fds, counter, handed, served, merged>>

\* Last release of the live file: the job is erased with its special nodes.
Detach(j) ==
  /\ phase[j] \in {"attached", "running", "reported"}
  /\ phase' = [phase EXCEPT ![j] = "gone"]
  /\ disk' = disk \ UNION {Backing(job[j].staged[p]) :
                             p \in {q \in DOMAIN job[j].staged : job[j].staged[q].kind = "special"}}
  /\ job' = [job EXCEPT ![j] = EmptyJob]
  /\ UNCHANGED <<fds, counter, handed, served, merged>>

Next ==
  \/ \E j \in Job : Attach(j) \/ SendInput(j) \/ Dump(j) \/ Detach(j)
  \/ \E j \in Job, p \in Paths :
       \/ /\ MayCreate(j, p)
          /\ \/ Mknod(j, p) \/ Mkdir(j, p) \/ Symlink(j, p)
             \/ \E i \in Slots : Create(j, p, i)
       \/ Readlink(j, p) \/ Unlink(j, p) \/ Rmdir(j, p)
       \/ \E i \in Slots : Open(j, p, i)
  \/ \E j \in Job : \E f \in job[j].wrote, t \in Paths :   \* EACCES for any other f
       Link(j, f, t) \/ RenameRequest(j, f, t)
  \/ \E i \in Slots : Read(i) \/ Release(i)
  \/ \E j \in Job, n \in 1..MaxStaging : Ingest(j, n)

Spec == Init /\ [][Next]_vars

-----------------------------------------------------------------------------
(* Properties *)

\* A job never reaches the branches that work in the real workspace: whatever
\* it may change is staged (the files_wrote, staged_paths and g_staged_files
\* of fuse-waked name the same paths, through renames of whole directories).
WorkspaceIsUntouched ==
  \A j \in Job : \A p \in job[j].wrote :
    LET J == job[j] IN
    /\ "workspace" \notin {chmod(J, p), chown(J, p), utimens(J, p), truncate(J, p),
                           fallocate(J, p), unlink(J, p)}
    /\ getattr(J, p) = "directory" => rmdir(J, p) # "workspace"
    /\ \A t \in Paths : rename(J, p, t) # "workspace"

\* The view is one tree.  While the job runs, a directory lists exactly the
\* names that getattr finds and access accepts, as long as no rename replaces a
\* directory that is not empty, which wakefuse_rename does not refuse; what the
\* job made never covers what it was shown, because is_visible is asked before
\* anything gets a name.
ViewIsCoherent ==
  \A j \in Job : phase[j] = "running" =>
    /\ \A p \in Paths :
         /\ ~merged[j] => Exists(job[j], p) =
                            /\ getattr(job[j], Parent(p)) = "directory"
                            /\ Last(p) \in readdir(job[j], Parent(p))
         /\ Exists(job[j], p) = (access(job[j], p, "R") = "OK")
    /\ \A p \in DOMAIN job[j].staged : ~is_visible(job[j], p)

\* A file a job has open stays writable when it, or a directory above it, is
\* renamed or removed: write asks files_wrote for the name of the moment.
OpenFilesStayWritable ==
  \A i \in Slots :
    fds[i] # NULL /\ fds[i].path # NULL /\ fds[i].what # Blob /\ phase[fds[i].job] = "running"
      => write(job[fds[i].job], fds[i].path) = "OK"

\* The report Job::dump makes, whenever it is made, names as outputs what it
\* describes as staged, each with a staging file of its own that exists ("staging
\* file must exist at dump time"), and as inputs visible paths only, with every
\* one whose bytes the job was given.
ReportIsFaithful ==
  \A j \in Job : phase[j] = "running" =>
    LET R == Report(job[j]) IN
    /\ R.outputs = DOMAIN R.staging
    /\ \A p \in R.outputs :
         /\ Backing(R.staging[p]) \subseteq disk
         /\ \A q \in R.outputs : p = q \/ Backing(R.staging[p]) \cap Backing(R.staging[q]) = {}
    /\ served[j] \subseteq R.inputs
    /\ R.inputs \subseteq DOMAIN job[j].visible \ R.outputs
=============================================================================
