-------------------------- MODULE CasStagingProofs --------------------------
(***************************************************************************)
(* Proofs about CasStaging, for any number of wake processes, paths,       *)
(* contents and jobs, wherever processes are killed.                       *)
(*                                                                         *)
(* Every staging and temporary file carries the number of a process in its *)
(* name.  A step of a process changes files of its own number only, apart  *)
(* from the sweep at its start, which removes files of numbers no process  *)
(* has (StepOwns).  What a process has hashed, copied or half written      *)
(* therefore stays as it is while others run, and CasInv need only say     *)
(* what the place of a process in its job tells about its own files.       *)
(***************************************************************************)
EXTENDS CasStaging, TLAPS

Place_ ==
  {"idle", "inputs", "run", "stage", "staging", "hash", "ingest", "storing", "check", "place",
   "writing", "stored", "mkdir", "direct", "copying", "rename", "done", "failed"}

Job ==
  [at : Place_, kind : {"workspace", "private", NULL},
   type : {"file", "symlink", "directory", NULL}, published : BOOLEAN, path : Path \cup {NULL},
   dir : FileName \cup {NULL}, src : FileName \cup {NULL}, want : Content \cup {NULL},
   tmp : FileName \cup {NULL}]

Object == [type : {"file", "symlink", "directory"}, data : Content]

\* The processes, the workspace and the store.
ProcTyped ==
  /\ alive \in [Wake -> BOOLEAN] /\ job \in [Wake -> Job]
  /\ seq \in [Wake -> Nat] /\ made \in Nat
  /\ \A w \in Wake : job[w].at \notin {"idle", "inputs", "run"} => job[w].path \in Path

TreeTyped == ws \in [Path -> Object \cup {NULL}] /\ blob \in [Content -> Content \cup {NULL}]

\* Files have names, and what a command has written is no half of a file.
FilesTyped ==
  /\ fs \in [DOMAIN fs -> Content \cup {Partial}]
  /\ DOMAIN fs \subseteq FileName
  /\ \A x \in DOMAIN fs : x.what = "out" => fs[x] \in Content

\* A blob holds what its name is the hash of.
BlobsWhole == \A h \in Content : blob[h] \in {NULL, h}

-----------------------------------------------------------------------------
(* What the place of a process in its job says about its files *)

\* The directory, the staging file and the temporary file of a job have the
\* number of its process; the three are of different kinds.
NamesOwned(w) ==
  LET J == job[w] IN
  /\ ~alive[w] \/ J.at = "idle" => J = NoJob
  /\ J.kind = "private" \/ J.at \in {"inputs", "run", "staging", "hash"} =>
       J.dir \in FileName /\ J.dir.own = w
  /\ J.at = "staging" => J.src # NULL
  /\ J.src # NULL => J.src.own = w /\ J.src.what \in {"slot", "out"}
  /\ J.tmp # NULL => J.tmp.own = w /\ J.tmp.what \notin {"slot", "out"}

\* The staging file of an output that was hashed holds what was hashed, if it
\* is there; it is there or the store has the content.
SourceKept(w) ==
  LET J == job[w] IN
  /\ J.at \in {"staging", "hash"} => J.want \in Content
  /\ J.at = "hash" =>
       /\ J.type = "file" => J.src # NULL
       /\ J.src # NULL /\ J.src \in DOMAIN fs => fs[J.src] \in Content
  /\ J.at \in {"ingest", "storing", "check", "place", "writing", "stored", "mkdir", "direct",
               "copying", "rename", "done"} =>
       /\ J.want \in Content
       /\ J.type = "file" => J.src # NULL /\ (J.src \in DOMAIN fs => fs[J.src] = J.want)
  /\ J.at \in {"ingest", "storing", "check", "place"} /\ J.type = "file" =>
       J.src \in DOMAIN fs \/ blob[J.want] = J.want
  /\ J.at \in {"ingest", "storing", "check", "place", "writing", "stored"} => J.published
  /\ J.at = "direct" => ~J.published

\* The temporary file of a copy under way is there, and holds the content once
\* the copy is complete.
CopyKept(w) ==
  LET J == job[w] IN
  /\ J.at \in {"storing", "check", "place", "writing", "copying", "rename"} =>
       J.tmp # NULL /\ J.tmp \in DOMAIN fs
  /\ J.at = "storing" => J.type = "file" /\ J.src \in DOMAIN fs
  /\ J.at \in {"check", "place"} => fs[J.tmp] = J.want
  /\ J.at = "copying" => J.type = "file" /\ (J.published \/ J.src \in DOMAIN fs)
  /\ J.at = "rename" => J.type \in {"file", "symlink"} /\ fs[J.tmp] = J.want
  /\ J.at = "mkdir" => J.type = "directory"
  /\ J.at = "writing" => J.type = "symlink"

\* Once a published output is stored, the store has its content.
StoreKept(w) ==
  LET J == job[w] IN
  /\ J.at \in {"stored", "copying", "rename", "done"}
  /\ J.published /\ J.type \in {"file", "symlink"}
  => blob[J.want] = J.want

JobKept(w) == NamesOwned(w) /\ SourceKept(w) /\ CopyKept(w) /\ StoreKept(w)

CasInv ==
  /\ ProcTyped /\ TreeTyped /\ FilesTyped /\ BlobsWhole
  /\ \A w \in Wake : JobKept(w)

-----------------------------------------------------------------------------
(* A step changes files of its own process only *)

\* What a process other than v, and alive, finds as it was.
OwnFiles(v) ==
  \A x \in FileName : x.own # v /\ alive[x.own] =>
    /\ x \in DOMAIN fs' <=> x \in DOMAIN fs
    /\ x \in DOMAIN fs => fs'[x] = fs[x]

OthersKept(v) ==
  /\ \A w \in Wake \ {v} : alive'[w] = alive[w] /\ job'[w] = job[w]
  /\ \A h \in Content : blob[h] = h => blob'[h] = h
  /\ OwnFiles(v)

\* A file that is made or overwritten.
LEMMA SetFile ==
  ASSUME NEW f, NEW x, NEW c
  PROVE  /\ DOMAIN Set(f, x, c) = DOMAIN f \cup {x}
         /\ Set(f, x, c)[x] = c
         /\ \A y \in DOMAIN f \ {x} : Set(f, x, c)[y] = f[y]
  BY DEF Set

\* Files that are removed.
LEMMA DropFiles ==
  ASSUME NEW f, NEW S
  PROVE  /\ DOMAIN Drop(f, S) = DOMAIN f \ S
         /\ \A y \in DOMAIN f \ S : Drop(f, S)[y] = f[y]
  BY DEF Drop, Restrict

LEMMA SetOwn ==
  ASSUME NEW v, NEW x, NEW c, x.own = v, fs' = Set(fs, x, c)
  PROVE  OwnFiles(v)
  BY DEF OwnFiles, Set

LEMMA DropOwn ==
  ASSUME NEW v, NEW S, \A x \in S \cap FileName : x.own = v \/ ~alive[x.own], fs' = Drop(fs, S)
  PROVE  OwnFiles(v)
  BY DEF OwnFiles, Drop, Restrict

LEMMA WriteOwn ==
  ASSUME NEW v, NEW x, NEW c, x.own = v, FilesTyped, fs' = [fs EXCEPT ![x] = c]
  PROVE  OwnFiles(v)
  BY DEF OwnFiles, FilesTyped

\* remove_staging_dir of a directory of process v.
LEMMA RemoveDirOwn ==
  ASSUME NEW v, NEW d, d.own = v, RemoveDir(d)
  PROVE  OwnFiles(v)
<1>1. \A x \in Within(d) : x.own = v
  BY DEF Within
<1> QED
  BY <1>1, DropOwn DEF RemoveDir

\* The two halves of a copy, whether they succeed or fail.
LEMMA CopyOwn ==
  ASSUME NEW v \in Wake, NEW x, NEW at, NEW c, FilesTyped, NamesOwned(v),
         \/ StartCopy(v, x, at) /\ x.own = v
         \/ FinishCopy(v, c, at) /\ job[v].tmp # NULL
  PROVE  OwnFiles(v)
<1>1. CASE StartCopy(v, x, at) /\ x.own = v
  <2>1. fs' = Drop(fs, {x}) \/ fs' = Set(fs, x, Partial)
    BY <1>1 DEF StartCopy
  <2> QED
    BY <1>1, <2>1, DropOwn, SetOwn
<1>2. CASE FinishCopy(v, c, at) /\ job[v].tmp # NULL
  <2>1. job[v].tmp.own = v
    BY <1>2 DEF NamesOwned
  <2>2. fs' = [fs EXCEPT ![job[v].tmp] = c] \/ fs' = Drop(fs, {job[v].tmp})
    BY <1>2 DEF FinishCopy
  <2> QED
    BY <2>1, <2>2, WriteOwn, DropOwn
<1> QED
  BY <1>1, <1>2

\* The files a job may drop are its own.
LEMMA JobDropsOwn ==
  ASSUME NEW v \in Wake, NamesOwned(v), job[v] \in Job,
         NEW S \in SUBSET {job[v].tmp, job[v].src}, fs' = Drop(fs, S)
  PROVE  OwnFiles(v)
<1>1. \A x \in S \cap FileName : x.own = v
  BY NameAssumption DEF NamesOwned
<1> QED
  BY <1>1, DropOwn

\* No step of v touches the job, the process or the files of another process
\* that is alive, and no blob is ever removed or overwritten with other bytes.
LEMMA StepOwns ==
  ASSUME CasInv, NEW v \in Wake, Step(v)
  PROVE  OthersKept(v)
<1>0. FilesTyped /\ NamesOwned(v) /\ CopyKept(v) /\ job[v] \in Job /\ job \in [Wake -> Job]
  BY DEF CasInv, JobKept, ProcTyped
<1>1. \A w \in Wake \ {v} : alive'[w] = alive[w] /\ job'[w] = job[w]
  <2> USE ONLY CasInv, Step(v) DEF CasInv, ProcTyped, Go, Fail, StartCopy, FinishCopy
  <2>1. CASE Boot(v) \/ Exit(v) \/ Kill(v)
    BY <2>1 DEF Boot, Exit, Kill
  <2>2. CASE RunInWorkspace(v) \/ alloc_staging_dir(v) \/ StageVisible(v) \/ RunPrivately(v)
    BY <2>2 DEF RunInWorkspace, alloc_staging_dir, StageVisible, RunPrivately
  <2>3. CASE StageCopy(v) \/ StageCopied(v) \/ StagePrivate(v) \/ Hash(v)
    BY <2>3 DEF StageCopy, StageCopied, StagePrivate, Hash
  <2>4. CASE IngestFile(v) \/ StoreCopied(v) \/ AlreadyStored(v) \/ NotStored(v) \/ Place(v)
    BY <2>4 DEF IngestFile, StoreCopied, AlreadyStored, NotStored, Place
  <2>5. CASE IngestSymlink(v) \/ DataWritten(v) \/ IngestDirectory(v) \/ InPlace(v)
    BY <2>5 DEF IngestSymlink, DataWritten, IngestDirectory, InPlace
  <2>6. CASE MaterializeFile(v) \/ MaterializeSymlink(v) \/ MaterializeDirectory(v) \/ Mkdir(v)
    BY <2>6 DEF MaterializeFile, MaterializeSymlink, MaterializeDirectory, Mkdir
  <2>7. CASE DirectFile(v) \/ DirectSymlink(v) \/ Unpublished(v) \/ Copied(v) \/ Replace(v)
    BY <2>7 DEF DirectFile, DirectSymlink, Unpublished, Copied, Replace
  <2>8. CASE Finish(v) \/ Redo(v) \/ RedoAlloc(v)
    BY <2>8 DEF Finish, Redo, RedoAlloc
  <2> QED
    BY <2>1, <2>2, <2>3, <2>4, <2>5, <2>6, <2>7, <2>8 DEF Step
<1>2. \A h \in Content : blob[h] = h => blob'[h] = h
  <2>1. CASE Place(v)
    <3>1. blob' = blob \/ blob' = [blob EXCEPT ![job[v].want] = fs[job[v].tmp]]
      BY <2>1 DEF Place
    <3>2. fs[job[v].tmp] = job[v].want
      BY <1>0, <2>1 DEF Place, At, CopyKept
    <3> QED
      BY <3>1, <3>2 DEF CasInv, TreeTyped, BlobsWhole
  <2>2. CASE ~Place(v)
    <3>1. blob' = blob
      BY <2>2 DEF Step, Boot, Exit, Kill, RunInWorkspace, alloc_staging_dir, StageVisible, RunPrivately,
         StageCopy, StageCopied, StagePrivate, Hash, IngestFile, StoreCopied, AlreadyStored, NotStored,
         IngestSymlink, DataWritten, IngestDirectory, InPlace, MaterializeFile, MaterializeSymlink,
         MaterializeDirectory, Mkdir, DirectFile, DirectSymlink, Unpublished, Copied, Replace, Finish,
         Redo, RedoAlloc
    <3> QED
      BY <3>1
  <2> QED
    BY <2>1, <2>2
<1>3. OwnFiles(v)
  <2>1. CASE fs' = fs
    BY <2>1 DEF OwnFiles
  <2>2. CASE Boot(v) /\ fs' # fs
    <3>1. PICK S : /\ fs' = Drop(fs, S)
                   /\ S = {x \in DOMAIN fs : x.what = "slot" /\ x.own \in cleanup_stale_staging(v)}
      BY <2>2 DEF Boot
    <3>2. \A x \in S : ~alive[x.own]
      BY <3>1 DEF cleanup_stale_staging
    <3> QED
      BY <3>1, <3>2, DropOwn
  <2>3. CASE StageVisible(v) \/ StageCopied(v) \/ StagePrivate(v) \/ Finish(v) \/ Redo(v)
    <3>1. CASE StageVisible(v) /\ RemoveDir(job[v].dir)
      BY <1>0, <3>1, RemoveDirOwn DEF NamesOwned, StageVisible, At
    <3>2. CASE StageCopied(v) /\ RemoveDir(job[v].dir)
      BY <1>0, <3>2, RemoveDirOwn DEF NamesOwned, StageCopied, At
    <3>3. CASE StagePrivate(v) /\ RemoveDir(job[v].dir)
      BY <1>0, <3>3, RemoveDirOwn DEF NamesOwned, StagePrivate
    <3>4. CASE Finish(v) /\ job[v].kind = "private" /\ RemoveDir(job[v].dir)
      BY <1>0, <3>4, RemoveDirOwn DEF NamesOwned
    <3>5. CASE Redo(v) /\ job[v].at = "hash" /\ RemoveDir(job[v].dir)
      BY <1>0, <3>5, RemoveDirOwn DEF NamesOwned
    <3>6. CASE StageCopied(v) /\ \E c : fs' = [fs EXCEPT ![job[v].src] = c]
      <4>1. job[v].src.own = v
        BY <1>0, <3>6 DEF NamesOwned, StageCopied, At
      <4> QED
        BY <1>0, <3>6, <4>1, WriteOwn
    <3> QED
      BY <2>1, <2>3, <3>1, <3>2, <3>3, <3>4, <3>5, <3>6
         DEF StageVisible, StageCopied, StagePrivate, Finish, Redo
  <2>4. CASE RunPrivately(v) \/ StageCopy(v) \/ IngestSymlink(v) \/ MaterializeSymlink(v) \/ DirectSymlink(v)
    <3>1. fs' = fs \/ \E x, c : x.own = v /\ fs' = Set(fs, x, c)
      BY <2>4 DEF RunPrivately, StageCopy, IngestSymlink, MaterializeSymlink, DirectSymlink, Out, Name
    <3> QED
      BY <2>1, <3>1, SetOwn
  <2>5. CASE IngestFile(v) \/ MaterializeFile(v) \/ DirectFile(v)
    <3>1. fs' = fs \/ \E x, at : x.own = v /\ StartCopy(v, x, at)
      BY <2>5 DEF IngestFile, MaterializeFile, DirectFile, Name
    <3> QED
      BY <1>0, <2>1, <3>1, CopyOwn
  <2>6. CASE StoreCopied(v) \/ DataWritten(v) \/ Copied(v)
    <3>1. \E c, at : FinishCopy(v, c, at)
      BY <2>6 DEF StoreCopied, DataWritten, Copied
    <3>2. job[v].tmp # NULL
      BY <1>0, <2>6 DEF CopyKept, StoreCopied, DataWritten, Copied, At
    <3> QED
      BY <1>0, <3>1, <3>2, CopyOwn
  <2>7. CASE AlreadyStored(v) \/ Place(v) \/ Unpublished(v) \/ Replace(v)
    <3>1. \E S \in SUBSET {job[v].tmp, job[v].src} : fs' = Drop(fs, S)
      BY <2>7 DEF AlreadyStored, Place, Unpublished, Replace
    <3> QED
      BY <1>0, <3>1, JobDropsOwn
  <2> QED
    <3>1. CASE Boot(v) \/ Exit(v) \/ Kill(v) \/ RunInWorkspace(v) \/ alloc_staging_dir(v) \/ Hash(v)
      BY <2>1, <2>2, <3>1 DEF Exit, Kill, RunInWorkspace, alloc_staging_dir, Hash
    <3>2. CASE \/ NotStored(v) \/ IngestDirectory(v) \/ InPlace(v) \/ MaterializeDirectory(v) \/ Mkdir(v)
               \/ RedoAlloc(v)
      BY <2>1, <3>2 DEF NotStored, IngestDirectory, InPlace, MaterializeDirectory, Mkdir, RedoAlloc
    <3> QED
      BY <2>3, <2>4, <2>5, <2>6, <2>7, <3>1, <3>2 DEF Step
<1> QED
  BY <1>1, <1>2, <1>3 DEF OthersKept

\* What a process knows about its own files survives the steps of the others.
LEMMA OthersKeepJob ==
  ASSUME CasInv, NEW v \in Wake, Step(v), NEW w \in Wake \ {v}
  PROVE  JobKept(w)'
<1>1. alive'[w] = alive[w] /\ job'[w] = job[w] /\ OwnFiles(v)
  BY StepOwns DEF OthersKept
<1>2. JobKept(w) /\ job[w] \in Job
  BY DEF CasInv, ProcTyped
<1>3. CASE ~alive[w]
  <2>1. job[w] = NoJob
    BY <1>2, <1>3 DEF JobKept, NamesOwned
  <2> QED
    BY <1>1, <1>3, <2>1, NameAssumption
       DEF JobKept, NamesOwned, SourceKept, CopyKept, StoreKept, NoJob
<1>4. CASE alive[w]
  <2>1. \A x \in {job[w].src, job[w].tmp} \ {NULL} :
          /\ x \in DOMAIN fs' <=> x \in DOMAIN fs
          /\ x \in DOMAIN fs => fs'[x] = fs[x]
    <3>1. \A x \in {job[w].src, job[w].tmp} \ {NULL} : x \in FileName /\ x.own = w
      BY <1>2 DEF JobKept, NamesOwned, Job
    <3> QED
      BY <1>1, <1>4, <3>1 DEF OwnFiles
  <2>2. \A h \in Content : blob[h] = h => blob'[h] = h
    BY StepOwns DEF OthersKept
  <2> USE ONLY <1>1, <1>2, <2>1, <2>2
  <2>3. NamesOwned(w)'
    BY DEF JobKept, NamesOwned
  <2>4. SourceKept(w)'
    BY DEF JobKept, SourceKept
  <2>5. CopyKept(w)'
    <3>1. job[w].at = "storing" => job[w].src # NULL
      BY DEF JobKept, SourceKept, CopyKept
    <3>2. job[w].at = "copying" => job[w].src # NULL
      BY DEF JobKept, SourceKept, CopyKept
    <3> QED
      BY <3>1, <3>2 DEF JobKept, CopyKept
  <2>6. StoreKept(w)'
    BY DEF JobKept, SourceKept, StoreKept
  <2> QED
    BY <2>3, <2>4, <2>5, <2>6 DEF JobKept
<1> QED
  BY <1>3, <1>4

-----------------------------------------------------------------------------
(* What a process does to its own job and files *)

\* A name that a process makes is one of its own.
LEMMA OwnName ==
  ASSUME NEW what \in {"private", "root", "out", "slot", "store", "data", "mat", "link", "direct"},
         NEW w \in Wake, NEW n \in Nat, NEW on \in Path \cup Content \cup {"private", "root", NULL}
  PROVE  /\ Name(what, w, n, on) \in FileName /\ Name(what, w, n, on) # NULL
         /\ Name(what, w, n, on).own = w /\ Name(what, w, n, on).what = what
  BY NameAssumption DEF Name, FileName

\* The output a job is about stays the same.
SameOutput(w) ==
  /\ job'[w].kind = job[w].kind /\ job'[w].type = job[w].type
  /\ job'[w].published = job[w].published /\ job'[w].dir = job[w].dir
  /\ job'[w].src = job[w].src

\* The job goes on at a with the temporary file t.
Moved(w, a, t) ==
  job'[w].at = a /\ job'[w].tmp = t /\ job'[w].want = job[w].want /\ SameOutput(w)

\* A file that is as it was.
Unmoved(x) ==
  /\ x \in DOMAIN fs' <=> x \in DOMAIN fs
  /\ x \in DOMAIN fs => fs'[x] = fs[x]

\* What is in the files after one was made, or after some were removed.
LEMMA FileSet ==
  ASSUME NEW x, NEW c, fs' = Set(fs, x, c)
  PROVE  /\ x \in DOMAIN fs' /\ fs'[x] = c
         /\ \A y : y # x => Unmoved(y)
  BY DEF Set, Unmoved

LEMMA FilesDropped ==
  ASSUME NEW S, fs' = Drop(fs, S)
  PROVE  \A y \in S : y \notin DOMAIN fs'
  BY DEF Drop, Restrict

\* What may be in the name of a file of a job.
LEMMA NameParts ==
  ASSUME NEW w \in Wake, job \in [Wake -> Job], seq \in [Wake -> Nat]
  PROVE  /\ seq[w] \in Nat /\ 0 \in Nat
         /\ job[w].path \in Path \cup Content \cup {"private", "root", NULL}
         /\ job[w].want \in Path \cup Content \cup {"private", "root", NULL}
         /\ NULL \in Path \cup Content \cup {"private", "root", NULL}
  BY DEF Job

\* The temporary files a job may come to have.
Temp(x, w) ==
  x \in FileName /\ x # NULL /\ x.own = w /\ x.what \notin {"slot", "out"}

LEMMA TempNames ==
  ASSUME NEW w \in Wake, job \in [Wake -> Job], seq \in [Wake -> Nat]
  PROVE  /\ Temp(Name("store", w, seq[w], NULL), w)
         /\ Temp(Name("data", w, 0, job[w].want), w)
         /\ Temp(Name("mat", w, 0, job[w].path), w)
         /\ Temp(Name("link", w, seq[w], job[w].path), w)
         /\ Temp(Name("direct", w, seq[w], job[w].path), w)
<1>1. ASSUME NEW what \in {"store", "data", "mat", "link", "direct"}, NEW n \in Nat,
             NEW on \in Path \cup Content \cup {"private", "root", NULL}
      PROVE  Temp(Name(what, w, n, on), w)
  BY ONLY <1>1, NameAssumption DEF Temp, Name, FileName
<1>2. Temp(Name("store", w, seq[w], NULL), w)
  BY <1>1, NameParts
<1>3. Temp(Name("data", w, 0, job[w].want), w)
  BY <1>1, NameParts
<1>4. Temp(Name("mat", w, 0, job[w].path), w)
  BY <1>1, NameParts
<1>5. Temp(Name("link", w, seq[w], job[w].path), w)
  BY <1>1, NameParts
<1>6. Temp(Name("direct", w, seq[w], job[w].path), w)
  BY <1>1, NameParts
<1> QED
  BY <1>2, <1>3, <1>4, <1>5, <1>6

LEMMA MovedFields ==
  ASSUME NEW w \in Wake, NEW a, NEW t, job \in [Wake -> Job],
         Go(w, [job[w] EXCEPT !.at = a, !.tmp = t])
  PROVE  Moved(w, a, t)
<1>1. job[w] \in Job /\ job'[w] = [job[w] EXCEPT !.at = a, !.tmp = t]
  BY DEF Go
<1> QED
  BY ONLY <1>1 DEF Job, SameOutput, Moved

LEMMA MovedAt ==
  ASSUME NEW w \in Wake, NEW a, job \in [Wake -> Job], Go(w, [job[w] EXCEPT !.at = a])
  PROVE  Moved(w, a, job[w].tmp)
<1>1. job[w] \in Job /\ job'[w] = [job[w] EXCEPT !.at = a]
  BY DEF Go
<1> QED
  BY ONLY <1>1 DEF Job, SameOutput, Moved

\* A process without a job has nothing to keep.
LEMMA NoJobKeeps ==
  ASSUME NEW w \in Wake, job'[w] = NoJob
  PROVE  JobKept(w)'
  BY NameAssumption DEF JobKept, NamesOwned, SourceKept, CopyKept, StoreKept, NoJob

\* A job that has failed has its directory and its staging file.
LEMMA FailKeeps ==
  ASSUME NEW w \in Wake, job \in [Wake -> Job], NamesOwned(w), alive[w], alive' = alive, Fail(w)
  PROVE  JobKept(w)'
<1>1. job'[w].at = "failed" /\ job'[w].tmp = NULL /\ SameOutput(w)
  BY MovedFields DEF Fail, Moved
<1>2. NamesOwned(w)'
  BY <1>1 DEF NamesOwned, SameOutput
<1> QED
  BY <1>1, <1>2 DEF JobKept, SourceKept, CopyKept, StoreKept

\* The names of a job that goes on with the same output, and with a temporary
\* file that it has, has made or has no more.
LEMMA NamesMove ==
  ASSUME NEW w \in Wake, NamesOwned(w), alive[w], alive' = alive, SameOutput(w),
         job'[w].at \notin {"idle", "inputs", "run", "staging", "hash"},
         \/ job'[w].tmp \in {NULL, job[w].tmp}
         \/ job'[w].tmp.own = w /\ job'[w].tmp.what \notin {"slot", "out"}
  PROVE  NamesOwned(w)'
  BY DEF NamesOwned, SameOutput

\* cas_ingest_staged_item of a file: the copy begins, or the blob is there.
LEMMA IngestFileKeeps ==
  ASSUME CasInv, NEW w \in Wake, IngestFile(w)
  PROVE  JobKept(w)'
<1> DEFINE x == Name("store", w, seq[w], NULL)
<1>0. /\ job \in [Wake -> Job] /\ FilesTyped /\ TreeTyped /\ BlobsWhole /\ seq \in [Wake -> Nat]
      /\ JobKept(w) /\ NamesOwned(w) /\ SourceKept(w) /\ CopyKept(w) /\ StoreKept(w)
      /\ alive[w] /\ alive' = alive /\ job[w].at = "ingest" /\ job[w].type = "file"
  BY DEF CasInv, ProcTyped, JobKept, At, IngestFile
<1>1. CASE Fail(w)
  BY <1>0, <1>1, FailKeeps
<1>2. CASE /\ fs' = Set(fs, x, Partial) /\ job[w].src \in DOMAIN fs
           /\ Go(w, [job[w] EXCEPT !.at = "storing", !.tmp = x])
           /\ UNCHANGED blob
  <2>1. Moved(w, "storing", x)
    BY <1>0, <1>2, MovedFields
  <2>2. /\ x \in FileName /\ x # NULL
        /\ x.own = w /\ x.what \notin {"slot", "out"}
    BY ONLY <1>0, TempNames DEF Temp
  <2>3. NamesOwned(w)'
    BY ONLY <1>0, <2>1, <2>2, NamesMove DEF Moved
  <2>4. x \in DOMAIN fs'
    BY ONLY <1>0, <1>2, FileSet
  <2>5. job[w].src # NULL => job[w].src # x
    BY ONLY <1>0, <2>2 DEF NamesOwned
  <2>6. job[w].src # NULL => Unmoved(job[w].src)
    BY ONLY <1>0, <1>2, <2>5, FileSet
  <2>7. blob' = blob /\ job[w].src \in DOMAIN fs
    BY <1>0, <1>2
  <2>8. SourceKept(w)'
    BY ONLY <1>0, <2>1, <2>2, <2>3, <2>4, <2>5, <2>6, <2>7
       DEF SourceKept, CopyKept, StoreKept, SameOutput, Moved, Unmoved
  <2>9. CopyKept(w)'
    BY ONLY <1>0, <2>1, <2>2, <2>3, <2>4, <2>5, <2>6, <2>7
       DEF CopyKept, StoreKept, SourceKept, SameOutput, Moved, Unmoved
  <2>10. StoreKept(w)'
    BY ONLY <1>0, <2>1, <2>2, <2>3, <2>4, <2>5, <2>6, <2>7
       DEF StoreKept, SourceKept, SameOutput, Moved
  <2> QED
    BY ONLY <2>3, <2>8, <2>9, <2>10 DEF JobKept
<1>3. CASE /\ Go(w, Stored(w)) /\ UNCHANGED <<fs, blob>>
           /\ job[w].src \notin DOMAIN fs /\ blob[job[w].want] # NULL
  <2>1. Moved(w, "stored", NULL)
    BY <1>0, <1>3, MovedFields DEF Stored
  <2>2. NamesOwned(w)'
    BY ONLY <1>0, <2>1, NamesMove DEF Moved
  <2>3. blob'[job[w].want] = job[w].want /\ fs' = fs
    BY <1>0, <1>3 DEF SourceKept, BlobsWhole
  <2>4. SourceKept(w)'
    BY ONLY <1>0, <2>1, <2>2, <2>3
       DEF SourceKept, CopyKept, StoreKept, SameOutput, Moved, Unmoved
  <2>5. CopyKept(w)'
    BY ONLY <1>0, <2>1, <2>2, <2>3
       DEF CopyKept, StoreKept, SourceKept, SameOutput, Moved, Unmoved
  <2>6. StoreKept(w)'
    BY ONLY <1>0, <2>1, <2>2, <2>3
       DEF StoreKept, SourceKept, SameOutput, Moved
  <2> QED
    BY ONLY <2>2, <2>4, <2>5, <2>6 DEF JobKept
<1> QED
  BY <1>0, <1>1, <1>2, <1>3 DEF IngestFile, StartCopy

\* The copy for the store is complete, or the disk is full.
LEMMA StoreCopiedKeeps ==
  ASSUME CasInv, NEW w \in Wake, StoreCopied(w)
  PROVE  JobKept(w)'
<1>0. /\ job \in [Wake -> Job] /\ FilesTyped /\ TreeTyped /\ BlobsWhole /\ seq \in [Wake -> Nat]
      /\ JobKept(w) /\ NamesOwned(w) /\ SourceKept(w) /\ CopyKept(w) /\ StoreKept(w)
      /\ alive[w] /\ alive' = alive /\ job[w].at = "storing"
  BY DEF CasInv, ProcTyped, JobKept, At, StoreCopied
<1>1. CASE Fail(w)
  BY <1>0, <1>1, FailKeeps
<1>2. CASE /\ fs' = [fs EXCEPT ![job[w].tmp] = fs[job[w].src]]
           /\ Go(w, [job[w] EXCEPT !.at = "check"])
           /\ UNCHANGED blob
  <2>1. Moved(w, "check", job[w].tmp)
    BY <1>0, <1>2, MovedAt
  <2>2. NamesOwned(w)'
    BY ONLY <1>0, <2>1, NamesMove DEF Moved
  <2>3. fs[job[w].src] = job[w].want
    BY ONLY <1>0 DEF SourceKept, CopyKept
  <2>4. job[w].tmp \in DOMAIN fs' /\ fs'[job[w].tmp] = job[w].want
    BY <1>0, <1>2, <2>3 DEF CopyKept, FilesTyped
  <2>5. job[w].src # NULL => Unmoved(job[w].src)
    BY ONLY <1>0, <1>2 DEF NamesOwned, CopyKept, FilesTyped, Unmoved
  <2>6. blob' = blob
    BY <1>0, <1>2
  <2>7. SourceKept(w)'
    BY ONLY <1>0, <2>1, <2>2, <2>3, <2>4, <2>5, <2>6
       DEF SourceKept, CopyKept, StoreKept, SameOutput, Moved, Unmoved
  <2>8. CopyKept(w)'
    BY ONLY <1>0, <2>1, <2>2, <2>3, <2>4, <2>5, <2>6
       DEF CopyKept, StoreKept, SourceKept, SameOutput, Moved, Unmoved
  <2>9. StoreKept(w)'
    BY ONLY <1>0, <2>1, <2>2, <2>3, <2>4, <2>5, <2>6
       DEF StoreKept, SourceKept, SameOutput, Moved
  <2> QED
    BY ONLY <2>2, <2>7, <2>8, <2>9 DEF JobKept
<1> QED
  BY <1>0, <1>1, <1>2 DEF StoreCopied, FinishCopy

\* The target of a symlink is written, or the disk is full.
LEMMA DataWrittenKeeps ==
  ASSUME CasInv, NEW w \in Wake, DataWritten(w)
  PROVE  JobKept(w)'
<1>0. /\ job \in [Wake -> Job] /\ FilesTyped /\ TreeTyped /\ BlobsWhole /\ seq \in [Wake -> Nat]
      /\ JobKept(w) /\ NamesOwned(w) /\ SourceKept(w) /\ CopyKept(w) /\ StoreKept(w)
      /\ alive[w] /\ alive' = alive /\ job[w].at = "writing"
  BY DEF CasInv, ProcTyped, JobKept, At, DataWritten
<1>1. CASE Fail(w)
  BY <1>0, <1>1, FailKeeps
<1>2. CASE /\ fs' = [fs EXCEPT ![job[w].tmp] = job[w].want]
           /\ Go(w, [job[w] EXCEPT !.at = "place"])
           /\ UNCHANGED blob
  <2>1. Moved(w, "place", job[w].tmp)
    BY <1>0, <1>2, MovedAt
  <2>2. NamesOwned(w)'
    BY ONLY <1>0, <2>1, NamesMove DEF Moved
  <2>3. job[w].want = job[w].want
    OBVIOUS
  <2>4. job[w].tmp \in DOMAIN fs' /\ fs'[job[w].tmp] = job[w].want
    BY <1>0, <1>2, <2>3 DEF CopyKept, FilesTyped
  <2>5. job[w].src # NULL => Unmoved(job[w].src)
    BY ONLY <1>0, <1>2 DEF NamesOwned, CopyKept, FilesTyped, Unmoved
  <2>6. blob' = blob
    BY <1>0, <1>2
  <2>7. SourceKept(w)'
    BY ONLY <1>0, <2>1, <2>2, <2>3, <2>4, <2>5, <2>6
       DEF SourceKept, CopyKept, StoreKept, SameOutput, Moved, Unmoved
  <2>8. CopyKept(w)'
    BY ONLY <1>0, <2>1, <2>2, <2>3, <2>4, <2>5, <2>6
       DEF CopyKept, StoreKept, SourceKept, SameOutput, Moved, Unmoved
  <2>9. StoreKept(w)'
    BY ONLY <1>0, <2>1, <2>2, <2>3, <2>4, <2>5, <2>6
       DEF StoreKept, SourceKept, SameOutput, Moved
  <2> QED
    BY ONLY <2>2, <2>7, <2>8, <2>9 DEF JobKept
<1> QED
  BY <1>0, <1>1, <1>2 DEF DataWritten, FinishCopy

\* The copy for the workspace is complete, or the disk is full.
LEMMA CopiedKeeps ==
  ASSUME CasInv, NEW w \in Wake, Copied(w)
  PROVE  JobKept(w)'
<1> DEFINE c == IF job[w].published THEN blob[job[w].want] ELSE fs[job[w].src]
<1>0. /\ job \in [Wake -> Job] /\ FilesTyped /\ TreeTyped /\ BlobsWhole /\ seq \in [Wake -> Nat]
      /\ JobKept(w) /\ NamesOwned(w) /\ SourceKept(w) /\ CopyKept(w) /\ StoreKept(w)
      /\ alive[w] /\ alive' = alive /\ job[w].at = "copying"
  BY DEF CasInv, ProcTyped, JobKept, At, Copied
<1>1. CASE Fail(w)
  BY <1>0, <1>1, FailKeeps
<1>2. CASE /\ fs' = [fs EXCEPT ![job[w].tmp] = c]
           /\ Go(w, [job[w] EXCEPT !.at = "rename"])
           /\ UNCHANGED blob
  <2>1. Moved(w, "rename", job[w].tmp)
    BY <1>0, <1>2, MovedAt
  <2>2. NamesOwned(w)'
    BY ONLY <1>0, <2>1, NamesMove DEF Moved
  <2>3. c = job[w].want
    BY ONLY <1>0 DEF SourceKept, CopyKept, StoreKept
  <2> HIDE DEF c
  <2>4. job[w].tmp \in DOMAIN fs' /\ fs'[job[w].tmp] = job[w].want
    BY <1>0, <1>2, <2>3 DEF CopyKept, FilesTyped
  <2>5. job[w].src # NULL => Unmoved(job[w].src)
    BY ONLY <1>0, <1>2 DEF NamesOwned, CopyKept, FilesTyped, Unmoved
  <2>6. blob' = blob
    BY <1>0, <1>2
  <2>7. SourceKept(w)'
    BY ONLY <1>0, <2>1, <2>2, <2>3, <2>4, <2>5, <2>6
       DEF SourceKept, CopyKept, StoreKept, SameOutput, Moved, Unmoved
  <2>8. CopyKept(w)'
    BY ONLY <1>0, <2>1, <2>2, <2>3, <2>4, <2>5, <2>6
       DEF CopyKept, StoreKept, SourceKept, SameOutput, Moved, Unmoved
  <2>9. StoreKept(w)'
    BY ONLY <1>0, <2>1, <2>2, <2>3, <2>4, <2>5, <2>6
       DEF StoreKept, SourceKept, SameOutput, Moved
  <2> QED
    BY ONLY <2>2, <2>7, <2>8, <2>9 DEF JobKept
<1> QED
  BY <1>0, <1>1, <1>2 DEF Copied, FinishCopy

\* The blob exists: the copy and the staging file go.
LEMMA AlreadyStoredKeeps ==
  ASSUME CasInv, NEW w \in Wake, AlreadyStored(w)
  PROVE  JobKept(w)'
<1>0. /\ job \in [Wake -> Job] /\ FilesTyped /\ TreeTyped /\ BlobsWhole /\ seq \in [Wake -> Nat]
      /\ JobKept(w) /\ NamesOwned(w) /\ SourceKept(w) /\ CopyKept(w) /\ StoreKept(w)
      /\ alive[w] /\ alive' = alive /\ job[w].at = "check" /\ blob[job[w].want] # NULL
  BY DEF CasInv, ProcTyped, JobKept, At, AlreadyStored
<1>1. CASE fs' = Drop(fs, {job[w].tmp, job[w].src}) /\ Go(w, Stored(w)) /\ UNCHANGED blob
  <2>1. Moved(w, "stored", NULL)
    BY <1>0, <1>1, MovedFields DEF Stored
  <2>2. NamesOwned(w)'
    BY ONLY <1>0, <2>1, NamesMove DEF Moved
  <2>3. job[w].src \notin DOMAIN fs'
    BY ONLY <1>0, <1>1, FilesDropped
  <2>4. blob'[job[w].want] = job[w].want
    BY <1>0, <1>1 DEF SourceKept, BlobsWhole
  <2>5. SourceKept(w)'
    BY ONLY <1>0, <2>1, <2>2, <2>3, <2>4
       DEF SourceKept, CopyKept, StoreKept, SameOutput, Moved, Unmoved
  <2>6. CopyKept(w)'
    BY ONLY <1>0, <2>1, <2>2, <2>3, <2>4
       DEF CopyKept, StoreKept, SourceKept, SameOutput, Moved, Unmoved
  <2>7. StoreKept(w)'
    BY ONLY <1>0, <2>1, <2>2, <2>3, <2>4
       DEF StoreKept, SourceKept, SameOutput, Moved
  <2> QED
    BY ONLY <2>2, <2>5, <2>6, <2>7 DEF JobKept
<1> QED
  BY <1>0, <1>1 DEF AlreadyStored

\* The blob does not exist yet.
LEMMA NotStoredKeeps ==
  ASSUME CasInv, NEW w \in Wake, NotStored(w)
  PROVE  JobKept(w)'
<1>0. /\ job \in [Wake -> Job] /\ FilesTyped /\ TreeTyped /\ BlobsWhole /\ seq \in [Wake -> Nat]
      /\ JobKept(w) /\ NamesOwned(w) /\ SourceKept(w) /\ CopyKept(w) /\ StoreKept(w)
      /\ alive[w] /\ alive' = alive /\ job[w].at = "check"
  BY DEF CasInv, ProcTyped, JobKept, At, NotStored
<1>1. CASE Go(w, [job[w] EXCEPT !.at = "place"]) /\ UNCHANGED <<fs, blob>>
  <2>1. Moved(w, "place", job[w].tmp)
    BY <1>0, <1>1, MovedAt
  <2>2. NamesOwned(w)'
    BY ONLY <1>0, <2>1, NamesMove DEF Moved
  <2>3. fs' = fs /\ blob' = blob
    BY <1>0, <1>1
  <2>4. SourceKept(w)'
    BY ONLY <1>0, <2>1, <2>2, <2>3
       DEF SourceKept, CopyKept, StoreKept, SameOutput, Moved, Unmoved
  <2>5. CopyKept(w)'
    BY ONLY <1>0, <2>1, <2>2, <2>3
       DEF CopyKept, StoreKept, SourceKept, SameOutput, Moved, Unmoved
  <2>6. StoreKept(w)'
    BY ONLY <1>0, <2>1, <2>2, <2>3
       DEF StoreKept, SourceKept, SameOutput, Moved
  <2> QED
    BY ONLY <2>2, <2>4, <2>5, <2>6 DEF JobKept
<1> QED
  BY <1>0, <1>1 DEF NotStored

\* The rename makes the blob; the staging file goes.
LEMMA PlaceKeeps ==
  ASSUME CasInv, NEW w \in Wake, Place(w)
  PROVE  JobKept(w)'
<1>0. /\ job \in [Wake -> Job] /\ FilesTyped /\ TreeTyped /\ BlobsWhole /\ seq \in [Wake -> Nat]
      /\ JobKept(w) /\ NamesOwned(w) /\ SourceKept(w) /\ CopyKept(w) /\ StoreKept(w)
      /\ alive[w] /\ alive' = alive /\ job[w].at = "place"
  BY DEF CasInv, ProcTyped, JobKept, At, Place
<1>1. CASE Fail(w)
  BY <1>0, <1>1, FailKeeps
<1>2. CASE /\ blob' = [blob EXCEPT ![job[w].want] = fs[job[w].tmp]]
           /\ fs' = Drop(fs, {job[w].tmp, job[w].src}) /\ Go(w, Stored(w))
  <2>1. Moved(w, "stored", NULL)
    BY <1>0, <1>2, MovedFields DEF Stored
  <2>2. NamesOwned(w)'
    BY ONLY <1>0, <2>1, NamesMove DEF Moved
  <2>3. job[w].src \notin DOMAIN fs'
    BY ONLY <1>0, <1>2, FilesDropped
  <2>4. blob'[job[w].want] = job[w].want
    BY <1>0, <1>2 DEF SourceKept, CopyKept, TreeTyped
  <2>5. SourceKept(w)'
    BY ONLY <1>0, <2>1, <2>2, <2>3, <2>4
       DEF SourceKept, CopyKept, StoreKept, SameOutput, Moved, Unmoved
  <2>6. CopyKept(w)'
    BY ONLY <1>0, <2>1, <2>2, <2>3, <2>4
       DEF CopyKept, StoreKept, SourceKept, SameOutput, Moved, Unmoved
  <2>7. StoreKept(w)'
    BY ONLY <1>0, <2>1, <2>2, <2>3, <2>4
       DEF StoreKept, SourceKept, SameOutput, Moved
  <2> QED
    BY ONLY <2>2, <2>5, <2>6, <2>7 DEF JobKept
<1> QED
  BY <1>0, <1>1, <1>2 DEF Place

\* cas_ingest_staged_item of a symlink.
LEMMA IngestSymlinkKeeps ==
  ASSUME CasInv, NEW w \in Wake, IngestSymlink(w)
  PROVE  JobKept(w)'
<1> DEFINE x == Name("data", w, 0, job[w].want)
<1>0. /\ job \in [Wake -> Job] /\ FilesTyped /\ TreeTyped /\ BlobsWhole /\ seq \in [Wake -> Nat]
      /\ JobKept(w) /\ NamesOwned(w) /\ SourceKept(w) /\ CopyKept(w) /\ StoreKept(w)
      /\ alive[w] /\ alive' = alive /\ job[w].at = "ingest" /\ job[w].type = "symlink"
  BY DEF CasInv, ProcTyped, JobKept, At, IngestSymlink
<1>1. CASE Go(w, Stored(w)) /\ UNCHANGED <<fs, blob>> /\ blob[job[w].want] # NULL
  <2>1. Moved(w, "stored", NULL)
    BY <1>0, <1>1, MovedFields DEF Stored
  <2>2. NamesOwned(w)'
    BY ONLY <1>0, <2>1, NamesMove DEF Moved
  <2>3. job[w].type # "file" /\ blob'[job[w].want] = job[w].want
    BY <1>0, <1>1 DEF SourceKept, BlobsWhole
  <2>4. SourceKept(w)'
    BY ONLY <1>0, <2>1, <2>2, <2>3
       DEF SourceKept, CopyKept, StoreKept, SameOutput, Moved, Unmoved
  <2>5. CopyKept(w)'
    BY ONLY <1>0, <2>1, <2>2, <2>3
       DEF CopyKept, StoreKept, SourceKept, SameOutput, Moved, Unmoved
  <2>6. StoreKept(w)'
    BY ONLY <1>0, <2>1, <2>2, <2>3
       DEF StoreKept, SourceKept, SameOutput, Moved
  <2> QED
    BY ONLY <2>2, <2>4, <2>5, <2>6 DEF JobKept
<1>2. CASE /\ fs' = Set(fs, x, Partial)
           /\ Go(w, [job[w] EXCEPT !.at = "writing", !.tmp = x])
           /\ UNCHANGED blob
  <2>1. Moved(w, "writing", x)
    BY <1>0, <1>2, MovedFields
  <2>2. /\ x \in FileName /\ x # NULL
        /\ x.own = w /\ x.what \notin {"slot", "out"}
    BY ONLY <1>0, TempNames DEF Temp
  <2>3. NamesOwned(w)'
    BY ONLY <1>0, <2>1, <2>2, NamesMove DEF Moved
  <2>4. x \in DOMAIN fs' /\ job[w].type # "file"
    BY ONLY <1>0, <1>2, FileSet
  <2>5. SourceKept(w)'
    BY ONLY <1>0, <2>1, <2>2, <2>3, <2>4
       DEF SourceKept, CopyKept, StoreKept, SameOutput, Moved, Unmoved
  <2>6. CopyKept(w)'
    BY ONLY <1>0, <2>1, <2>2, <2>3, <2>4
       DEF CopyKept, StoreKept, SourceKept, SameOutput, Moved, Unmoved
  <2>7. StoreKept(w)'
    BY ONLY <1>0, <2>1, <2>2, <2>3, <2>4
       DEF StoreKept, SourceKept, SameOutput, Moved
  <2> QED
    BY ONLY <2>3, <2>5, <2>6, <2>7 DEF JobKept
<1> QED
  BY <1>0, <1>1, <1>2 DEF IngestSymlink

\* cas_ingest_staged_item of a directory stores nothing.
LEMMA IngestDirectoryKeeps ==
  ASSUME CasInv, NEW w \in Wake, IngestDirectory(w)
  PROVE  JobKept(w)'
<1>0. /\ job \in [Wake -> Job] /\ FilesTyped /\ TreeTyped /\ BlobsWhole /\ seq \in [Wake -> Nat]
      /\ JobKept(w) /\ NamesOwned(w) /\ SourceKept(w) /\ CopyKept(w) /\ StoreKept(w)
      /\ alive[w] /\ alive' = alive /\ job[w].at = "ingest" /\ job[w].type = "directory"
  BY DEF CasInv, ProcTyped, JobKept, At, IngestDirectory
<1>1. CASE Go(w, Stored(w)) /\ UNCHANGED <<fs, blob>>
  <2>1. Moved(w, "stored", NULL)
    BY <1>0, <1>1, MovedFields DEF Stored
  <2>2. NamesOwned(w)'
    BY ONLY <1>0, <2>1, NamesMove DEF Moved
  <2>3. job[w].type \notin {"file", "symlink"}
    BY <1>0, <1>1
  <2>4. SourceKept(w)'
    BY ONLY <1>0, <2>1, <2>2, <2>3
       DEF SourceKept, CopyKept, StoreKept, SameOutput, Moved, Unmoved
  <2>5. CopyKept(w)'
    BY ONLY <1>0, <2>1, <2>2, <2>3
       DEF CopyKept, StoreKept, SourceKept, SameOutput, Moved, Unmoved
  <2>6. StoreKept(w)'
    BY ONLY <1>0, <2>1, <2>2, <2>3
       DEF StoreKept, SourceKept, SameOutput, Moved
  <2> QED
    BY ONLY <2>2, <2>4, <2>5, <2>6 DEF JobKept
<1> QED
  BY <1>0, <1>1 DEF IngestDirectory

\* A workspace job has its output in place.
LEMMA InPlaceKeeps ==
  ASSUME CasInv, NEW w \in Wake, InPlace(w)
  PROVE  JobKept(w)'
<1>0. /\ job \in [Wake -> Job] /\ FilesTyped /\ TreeTyped /\ BlobsWhole /\ seq \in [Wake -> Nat]
      /\ JobKept(w) /\ NamesOwned(w) /\ SourceKept(w) /\ CopyKept(w) /\ StoreKept(w)
      /\ alive[w] /\ alive' = alive /\ job[w].at = "stored"
  BY DEF CasInv, ProcTyped, JobKept, At, InPlace
<1>1. CASE Go(w, Done(w)) /\ UNCHANGED <<fs, blob>>
  <2>1. Moved(w, "done", NULL)
    BY <1>0, <1>1, MovedFields DEF Done
  <2>2. NamesOwned(w)'
    BY ONLY <1>0, <2>1, NamesMove DEF Moved
  <2>3. fs' = fs /\ blob' = blob
    BY <1>0, <1>1
  <2>4. SourceKept(w)'
    BY ONLY <1>0, <2>1, <2>2, <2>3
       DEF SourceKept, CopyKept, StoreKept, SameOutput, Moved, Unmoved
  <2>5. CopyKept(w)'
    BY ONLY <1>0, <2>1, <2>2, <2>3
       DEF CopyKept, StoreKept, SourceKept, SameOutput, Moved, Unmoved
  <2>6. StoreKept(w)'
    BY ONLY <1>0, <2>1, <2>2, <2>3
       DEF StoreKept, SourceKept, SameOutput, Moved
  <2> QED
    BY ONLY <2>2, <2>4, <2>5, <2>6 DEF JobKept
<1> QED
  BY <1>0, <1>1 DEF InPlace

\* materialize_blob: the copy begins.
LEMMA MaterializeFileKeeps ==
  ASSUME CasInv, NEW w \in Wake, MaterializeFile(w)
  PROVE  JobKept(w)'
<1> DEFINE x == Name("mat", w, 0, job[w].path)
<1>0. /\ job \in [Wake -> Job] /\ FilesTyped /\ TreeTyped /\ BlobsWhole /\ seq \in [Wake -> Nat]
      /\ JobKept(w) /\ NamesOwned(w) /\ SourceKept(w) /\ CopyKept(w) /\ StoreKept(w)
      /\ alive[w] /\ alive' = alive /\ job[w].at = "stored" /\ job[w].type = "file"
  BY DEF CasInv, ProcTyped, JobKept, At, MaterializeFile
<1>1. CASE Fail(w)
  BY <1>0, <1>1, FailKeeps
<1>2. CASE /\ fs' = Set(fs, x, Partial)
           /\ Go(w, [job[w] EXCEPT !.at = "copying", !.tmp = x])
           /\ UNCHANGED blob
  <2>1. Moved(w, "copying", x)
    BY <1>0, <1>2, MovedFields
  <2>2. /\ x \in FileName /\ x # NULL
        /\ x.own = w /\ x.what \notin {"slot", "out"}
    BY ONLY <1>0, TempNames DEF Temp
  <2>3. NamesOwned(w)'
    BY ONLY <1>0, <2>1, <2>2, NamesMove DEF Moved
  <2>4. x \in DOMAIN fs'
    BY ONLY <1>0, <1>2, FileSet
  <2>5. job[w].src # NULL => job[w].src # x
    BY ONLY <1>0, <2>2 DEF NamesOwned
  <2>6. job[w].src # NULL => Unmoved(job[w].src)
    BY ONLY <1>0, <1>2, <2>5, FileSet
  <2>7. blob' = blob
    BY <1>0, <1>2
  <2>8. SourceKept(w)'
    BY ONLY <1>0, <2>1, <2>2, <2>3, <2>4, <2>5, <2>6, <2>7
       DEF SourceKept, CopyKept, StoreKept, SameOutput, Moved, Unmoved
  <2>9. CopyKept(w)'
    BY ONLY <1>0, <2>1, <2>2, <2>3, <2>4, <2>5, <2>6, <2>7
       DEF CopyKept, StoreKept, SourceKept, SameOutput, Moved, Unmoved
  <2>10. StoreKept(w)'
    BY ONLY <1>0, <2>1, <2>2, <2>3, <2>4, <2>5, <2>6, <2>7
       DEF StoreKept, SourceKept, SameOutput, Moved
  <2> QED
    BY ONLY <2>3, <2>8, <2>9, <2>10 DEF JobKept
<1> QED
  BY <1>0, <1>1, <1>2 DEF MaterializeFile, StartCopy

\* materialize_staged_workspace_item: the copy of an unpublished file begins.
LEMMA DirectFileKeeps ==
  ASSUME CasInv, NEW w \in Wake, DirectFile(w)
  PROVE  JobKept(w)'
<1> DEFINE x == Name("direct", w, seq[w], job[w].path)
<1>0. /\ job \in [Wake -> Job] /\ FilesTyped /\ TreeTyped /\ BlobsWhole /\ seq \in [Wake -> Nat]
      /\ JobKept(w) /\ NamesOwned(w) /\ SourceKept(w) /\ CopyKept(w) /\ StoreKept(w)
      /\ alive[w] /\ alive' = alive /\ job[w].at = "direct" /\ job[w].type = "file"
  BY DEF CasInv, ProcTyped, JobKept, At, DirectFile
<1>1. CASE Fail(w)
  BY <1>0, <1>1, FailKeeps
<1>2. CASE /\ fs' = Set(fs, x, Partial) /\ job[w].src \in DOMAIN fs
           /\ Go(w, [job[w] EXCEPT !.at = "copying", !.tmp = x])
           /\ UNCHANGED blob
  <2>1. Moved(w, "copying", x)
    BY <1>0, <1>2, MovedFields
  <2>2. /\ x \in FileName /\ x # NULL
        /\ x.own = w /\ x.what \notin {"slot", "out"}
    BY ONLY <1>0, TempNames DEF Temp
  <2>3. NamesOwned(w)'
    BY ONLY <1>0, <2>1, <2>2, NamesMove DEF Moved
  <2>4. x \in DOMAIN fs'
    BY ONLY <1>0, <1>2, FileSet
  <2>5. job[w].src # NULL => job[w].src # x
    BY ONLY <1>0, <2>2 DEF NamesOwned
  <2>6. job[w].src # NULL => Unmoved(job[w].src)
    BY ONLY <1>0, <1>2, <2>5, FileSet
  <2>7. job[w].src \in DOMAIN fs
    BY <1>0, <1>2
  <2>8. blob' = blob
    BY <1>0, <1>2
  <2>9. SourceKept(w)'
    BY ONLY <1>0, <2>1, <2>2, <2>3, <2>4, <2>5, <2>6, <2>7, <2>8
       DEF SourceKept, CopyKept, StoreKept, SameOutput, Moved, Unmoved
  <2>10. CopyKept(w)'
    BY ONLY <1>0, <2>1, <2>2, <2>3, <2>4, <2>5, <2>6, <2>7, <2>8
       DEF CopyKept, StoreKept, SourceKept, SameOutput, Moved, Unmoved
  <2>11. StoreKept(w)'
    BY ONLY <1>0, <2>1, <2>2, <2>3, <2>4, <2>5, <2>6, <2>7, <2>8
       DEF StoreKept, SourceKept, SameOutput, Moved
  <2> QED
    BY ONLY <2>3, <2>9, <2>10, <2>11 DEF JobKept
<1> QED
  BY <1>0, <1>1, <1>2 DEF DirectFile, StartCopy

\* cas_materialize_item of a symlink: the link of another name.
LEMMA MaterializeSymlinkKeeps ==
  ASSUME CasInv, NEW w \in Wake, MaterializeSymlink(w)
  PROVE  JobKept(w)'
<1> DEFINE x == Name("link", w, seq[w], job[w].path)
<1>0. /\ job \in [Wake -> Job] /\ FilesTyped /\ TreeTyped /\ BlobsWhole /\ seq \in [Wake -> Nat]
      /\ JobKept(w) /\ NamesOwned(w) /\ SourceKept(w) /\ CopyKept(w) /\ StoreKept(w)
      /\ alive[w] /\ alive' = alive /\ job[w].at = "stored" /\ job[w].type = "symlink"
  BY DEF CasInv, ProcTyped, JobKept, At, MaterializeSymlink
<1>1. CASE Fail(w)
  BY <1>0, <1>1, FailKeeps
<1>2. CASE /\ fs' = Set(fs, x, blob[job[w].want]) /\ blob[job[w].want] # NULL
           /\ Go(w, [job[w] EXCEPT !.at = "rename", !.tmp = x])
           /\ UNCHANGED blob
  <2>1. Moved(w, "rename", x)
    BY <1>0, <1>2, MovedFields
  <2>2. /\ x \in FileName /\ x # NULL
        /\ x.own = w /\ x.what \notin {"slot", "out"}
    BY ONLY <1>0, TempNames DEF Temp
  <2>3. NamesOwned(w)'
    BY ONLY <1>0, <2>1, <2>2, NamesMove DEF Moved
  <2>4. blob[job[w].want] = job[w].want
    BY <1>0, <1>2 DEF SourceKept, BlobsWhole
  <2>5. x \in DOMAIN fs' /\ fs'[x] = job[w].want
    BY ONLY <1>0, <1>2, <2>4, FileSet
  <2>6. job[w].type = "symlink" /\ blob' = blob
    BY <1>0, <1>2
  <2>7. SourceKept(w)'
    BY ONLY <1>0, <2>1, <2>2, <2>3, <2>4, <2>5, <2>6
       DEF SourceKept, CopyKept, StoreKept, SameOutput, Moved, Unmoved
  <2>8. CopyKept(w)'
    BY ONLY <1>0, <2>1, <2>2, <2>3, <2>4, <2>5, <2>6
       DEF CopyKept, StoreKept, SourceKept, SameOutput, Moved, Unmoved
  <2>9. StoreKept(w)'
    BY ONLY <1>0, <2>1, <2>2, <2>3, <2>4, <2>5, <2>6
       DEF StoreKept, SourceKept, SameOutput, Moved
  <2> QED
    BY ONLY <2>3, <2>7, <2>8, <2>9 DEF JobKept
<1> QED
  BY <1>0, <1>1, <1>2 DEF MaterializeSymlink

\* The link of an unpublished output.
LEMMA DirectSymlinkKeeps ==
  ASSUME CasInv, NEW w \in Wake, DirectSymlink(w)
  PROVE  JobKept(w)'
<1> DEFINE x == Name("direct", w, seq[w], job[w].path)
<1>0. /\ job \in [Wake -> Job] /\ FilesTyped /\ TreeTyped /\ BlobsWhole /\ seq \in [Wake -> Nat]
      /\ JobKept(w) /\ NamesOwned(w) /\ SourceKept(w) /\ CopyKept(w) /\ StoreKept(w)
      /\ alive[w] /\ alive' = alive /\ job[w].at = "direct" /\ job[w].type = "symlink"
  BY DEF CasInv, ProcTyped, JobKept, At, DirectSymlink
<1>1. CASE Fail(w)
  BY <1>0, <1>1, FailKeeps
<1>2. CASE /\ fs' = Set(fs, x, job[w].want)
           /\ Go(w, [job[w] EXCEPT !.at = "rename", !.tmp = x])
           /\ UNCHANGED blob
  <2>1. Moved(w, "rename", x)
    BY <1>0, <1>2, MovedFields
  <2>2. /\ x \in FileName /\ x # NULL
        /\ x.own = w /\ x.what \notin {"slot", "out"}
    BY ONLY <1>0, TempNames DEF Temp
  <2>3. NamesOwned(w)'
    BY ONLY <1>0, <2>1, <2>2, NamesMove DEF Moved
  <2>4. job[w].want \in Content
    BY <1>0, <1>2 DEF SourceKept
  <2>5. x \in DOMAIN fs' /\ fs'[x] = job[w].want
    BY ONLY <1>0, <1>2, <2>4, FileSet
  <2>6. job[w].type = "symlink" /\ blob' = blob
    BY <1>0, <1>2
  <2>7. SourceKept(w)'
    BY ONLY <1>0, <2>1, <2>2, <2>3, <2>4, <2>5, <2>6
       DEF SourceKept, CopyKept, StoreKept, SameOutput, Moved, Unmoved
  <2>8. CopyKept(w)'
    BY ONLY <1>0, <2>1, <2>2, <2>3, <2>4, <2>5, <2>6
       DEF CopyKept, StoreKept, SourceKept, SameOutput, Moved, Unmoved
  <2>9. StoreKept(w)'
    BY ONLY <1>0, <2>1, <2>2, <2>3, <2>4, <2>5, <2>6
       DEF StoreKept, SourceKept, SameOutput, Moved
  <2> QED
    BY ONLY <2>3, <2>7, <2>8, <2>9 DEF JobKept
<1> QED
  BY <1>0, <1>1, <1>2 DEF DirectSymlink

\* A directory of the workspace, there or to be made.
LEMMA MaterializeDirectoryKeeps ==
  ASSUME CasInv, NEW w \in Wake, MaterializeDirectory(w)
  PROVE  JobKept(w)'
<1>0. /\ job \in [Wake -> Job] /\ FilesTyped /\ TreeTyped /\ BlobsWhole /\ seq \in [Wake -> Nat]
      /\ JobKept(w) /\ NamesOwned(w) /\ SourceKept(w) /\ CopyKept(w) /\ StoreKept(w)
      /\ alive[w] /\ alive' = alive /\ job[w].at \in {"stored", "direct"} /\ job[w].type = "directory"
  BY DEF CasInv, ProcTyped, JobKept, At, MaterializeDirectory
<1>1. CASE Go(w, Done(w)) /\ UNCHANGED <<fs, blob>>
  <2>1. Moved(w, "done", NULL)
    BY <1>0, <1>1, MovedFields DEF Done
  <2>2. NamesOwned(w)'
    BY ONLY <1>0, <2>1, NamesMove DEF Moved
  <2>3. job[w].type \notin {"file", "symlink"}
    BY <1>0, <1>1
  <2>4. SourceKept(w)'
    BY ONLY <1>0, <2>1, <2>2, <2>3
       DEF SourceKept, CopyKept, StoreKept, SameOutput, Moved, Unmoved
  <2>5. CopyKept(w)'
    BY ONLY <1>0, <2>1, <2>2, <2>3
       DEF CopyKept, StoreKept, SourceKept, SameOutput, Moved, Unmoved
  <2>6. StoreKept(w)'
    BY ONLY <1>0, <2>1, <2>2, <2>3
       DEF StoreKept, SourceKept, SameOutput, Moved
  <2> QED
    BY ONLY <2>2, <2>4, <2>5, <2>6 DEF JobKept
<1>2. CASE Go(w, [job[w] EXCEPT !.at = "mkdir"]) /\ UNCHANGED <<fs, blob>>
  <2>1. Moved(w, "mkdir", job[w].tmp)
    BY <1>0, <1>2, MovedAt
  <2>2. NamesOwned(w)'
    BY ONLY <1>0, <2>1, NamesMove DEF Moved
  <2>3. job[w].type = "directory"
    BY <1>0, <1>2
  <2>4. SourceKept(w)'
    BY ONLY <1>0, <2>1, <2>2, <2>3
       DEF SourceKept, CopyKept, StoreKept, SameOutput, Moved, Unmoved
  <2>5. CopyKept(w)'
    BY ONLY <1>0, <2>1, <2>2, <2>3
       DEF CopyKept, StoreKept, SourceKept, SameOutput, Moved, Unmoved
  <2>6. StoreKept(w)'
    BY ONLY <1>0, <2>1, <2>2, <2>3
       DEF StoreKept, SourceKept, SameOutput, Moved
  <2> QED
    BY ONLY <2>2, <2>4, <2>5, <2>6 DEF JobKept
<1> QED
  BY <1>0, <1>1, <1>2 DEF MaterializeDirectory

\* The directory is made.
LEMMA MkdirKeeps ==
  ASSUME CasInv, NEW w \in Wake, Mkdir(w)
  PROVE  JobKept(w)'
<1>0. /\ job \in [Wake -> Job] /\ FilesTyped /\ TreeTyped /\ BlobsWhole /\ seq \in [Wake -> Nat]
      /\ JobKept(w) /\ NamesOwned(w) /\ SourceKept(w) /\ CopyKept(w) /\ StoreKept(w)
      /\ alive[w] /\ alive' = alive /\ job[w].at = "mkdir"
  BY DEF CasInv, ProcTyped, JobKept, At, Mkdir
<1>1. CASE Go(w, Done(w)) /\ UNCHANGED <<fs, blob>>
  <2>1. Moved(w, "done", NULL)
    BY <1>0, <1>1, MovedFields DEF Done
  <2>2. NamesOwned(w)'
    BY ONLY <1>0, <2>1, NamesMove DEF Moved
  <2>3. job[w].type = "directory"
    BY <1>0, <1>1 DEF CopyKept
  <2>4. SourceKept(w)'
    BY ONLY <1>0, <2>1, <2>2, <2>3
       DEF SourceKept, CopyKept, StoreKept, SameOutput, Moved, Unmoved
  <2>5. CopyKept(w)'
    BY ONLY <1>0, <2>1, <2>2, <2>3
       DEF CopyKept, StoreKept, SourceKept, SameOutput, Moved, Unmoved
  <2>6. StoreKept(w)'
    BY ONLY <1>0, <2>1, <2>2, <2>3
       DEF StoreKept, SourceKept, SameOutput, Moved
  <2> QED
    BY ONLY <2>2, <2>4, <2>5, <2>6 DEF JobKept
<1> QED
  BY <1>0, <1>1 DEF Mkdir

\* The staging file of an unpublished output goes.
LEMMA UnpublishedKeeps ==
  ASSUME CasInv, NEW w \in Wake, Unpublished(w)
  PROVE  JobKept(w)'
<1>0. /\ job \in [Wake -> Job] /\ FilesTyped /\ TreeTyped /\ BlobsWhole /\ seq \in [Wake -> Nat]
      /\ JobKept(w) /\ NamesOwned(w) /\ SourceKept(w) /\ CopyKept(w) /\ StoreKept(w)
      /\ alive[w] /\ alive' = alive /\ job[w].at = "direct"
  BY DEF CasInv, ProcTyped, JobKept, At, Unpublished
<1>1. CASE Go(w, Done(w)) /\ fs' = Drop(fs, {job[w].src}) /\ UNCHANGED blob
  <2>1. Moved(w, "done", NULL)
    BY <1>0, <1>1, MovedFields DEF Done
  <2>2. NamesOwned(w)'
    BY ONLY <1>0, <2>1, NamesMove DEF Moved
  <2>3. job[w].src \notin DOMAIN fs'
    BY ONLY <1>0, <1>1, FilesDropped
  <2>4. SourceKept(w)'
    BY ONLY <1>0, <2>1, <2>2, <2>3
       DEF SourceKept, CopyKept, StoreKept, SameOutput, Moved, Unmoved
  <2>5. CopyKept(w)'
    BY ONLY <1>0, <2>1, <2>2, <2>3
       DEF CopyKept, StoreKept, SourceKept, SameOutput, Moved, Unmoved
  <2>6. StoreKept(w)'
    BY ONLY <1>0, <2>1, <2>2, <2>3
       DEF StoreKept, SourceKept, SameOutput, Moved
  <2> QED
    BY ONLY <2>2, <2>4, <2>5, <2>6 DEF JobKept
<1> QED
  BY <1>0, <1>1 DEF Unpublished

\* The rename into the workspace; the staging file goes.
LEMMA ReplaceKeeps ==
  ASSUME CasInv, NEW w \in Wake, Replace(w)
  PROVE  JobKept(w)'
<1>0. /\ job \in [Wake -> Job] /\ FilesTyped /\ TreeTyped /\ BlobsWhole /\ seq \in [Wake -> Nat]
      /\ JobKept(w) /\ NamesOwned(w) /\ SourceKept(w) /\ CopyKept(w) /\ StoreKept(w)
      /\ alive[w] /\ alive' = alive /\ job[w].at = "rename"
  BY DEF CasInv, ProcTyped, JobKept, At, Replace
<1>1. CASE Fail(w)
  BY <1>0, <1>1, FailKeeps
<1>2. CASE Go(w, Done(w)) /\ fs' = Drop(fs, {job[w].tmp, job[w].src}) /\ UNCHANGED blob
  <2>1. Moved(w, "done", NULL)
    BY <1>0, <1>2, MovedFields DEF Done
  <2>2. NamesOwned(w)'
    BY ONLY <1>0, <2>1, NamesMove DEF Moved
  <2>3. job[w].src \notin DOMAIN fs' /\ blob' = blob
    BY ONLY <1>0, <1>2, FilesDropped
  <2>4. SourceKept(w)'
    BY ONLY <1>0, <2>1, <2>2, <2>3
       DEF SourceKept, CopyKept, StoreKept, SameOutput, Moved, Unmoved
  <2>5. CopyKept(w)'
    BY ONLY <1>0, <2>1, <2>2, <2>3
       DEF CopyKept, StoreKept, SourceKept, SameOutput, Moved, Unmoved
  <2>6. StoreKept(w)'
    BY ONLY <1>0, <2>1, <2>2, <2>3
       DEF StoreKept, SourceKept, SameOutput, Moved
  <2> QED
    BY ONLY <2>2, <2>4, <2>5, <2>6 DEF JobKept
<1> QED
  BY <1>0, <1>1, <1>2 DEF Replace

\* A process starts, ends or is killed without a job.
LEMMA ProcessKeeps ==
  ASSUME CasInv, NEW w \in Wake, Boot(w) \/ Exit(w) \/ Kill(w) \/ Finish(w)
  PROVE  JobKept(w)'
<1>1. job'[w] = NoJob
  <2>1. job \in [Wake -> Job] /\ NamesOwned(w)
    BY DEF CasInv, ProcTyped, JobKept
  <2>2. CASE Boot(w)
    BY ONLY <2>1, <2>2 DEF Boot, NamesOwned
  <2>3. CASE Exit(w)
    BY ONLY <2>1, <2>3 DEF Exit, NamesOwned
  <2>4. CASE Kill(w)
    BY ONLY <2>1, <2>4 DEF Kill
  <2>5. CASE Finish(w)
    BY ONLY <2>1, <2>5 DEF Finish, Go
  <2> QED
    BY <2>2, <2>3, <2>4, <2>5
<1> QED
  BY <1>1, NoJobKeeps

\* A command writes in the workspace: nothing is staged yet.
LEMMA RunInWorkspaceKeeps ==
  ASSUME CasInv, NEW w \in Wake, RunInWorkspace(w)
  PROVE  JobKept(w)'
<1>0. job \in [Wake -> Job] /\ alive[w] /\ alive' = alive
  BY DEF CasInv, ProcTyped, RunInWorkspace, At
<1>1. PICK p \in Path, pub \in BOOLEAN :
        Go(w, [NoJob EXCEPT !.at = "stage", !.kind = "workspace", !.path = p, !.published = pub])
  BY DEF RunInWorkspace
<1>2. /\ job'[w].at = "stage" /\ job'[w].kind = "workspace"
      /\ job'[w].dir = NULL /\ job'[w].src = NULL /\ job'[w].tmp = NULL
  BY ONLY <1>0, <1>1 DEF Go, NoJob
<1> QED
  BY ONLY <1>0, <1>2 DEF JobKept, NamesOwned, SourceKept, CopyKept, StoreKept

\* A directory with the number of the process, or one of an earlier process.
LEMMA AllocKeeps ==
  ASSUME CasInv, NEW w \in Wake, alloc_staging_dir(w) \/ RedoAlloc(w)
  PROVE  JobKept(w)'
<1> DEFINE d == Name("private", w, seq[w], NULL)
<1>0. /\ job \in [Wake -> Job] /\ seq \in [Wake -> Nat] /\ NamesOwned(w)
      /\ alive[w] /\ alive' = alive /\ job[w].at \in {"idle", "inputs"}
  BY DEF CasInv, ProcTyped, JobKept, alloc_staging_dir, RedoAlloc, At
<1>1. d \in FileName /\ d.own = w
  BY ONLY <1>0, NameParts, OwnName
<1> HIDE DEF d
<1>2. CASE job'[w] = NoJob
  BY <1>2, NoJobKeeps
<1>3. CASE Go(w, [NoJob EXCEPT !.at = "inputs", !.kind = "private", !.dir = d])
  <2>1. /\ job'[w].at = "inputs" /\ job'[w].dir = d
        /\ job'[w].src = NULL /\ job'[w].tmp = NULL
    BY ONLY <1>0, <1>3 DEF Go, NoJob
  <2> QED
    BY ONLY <1>0, <1>1, <2>1 DEF JobKept, NamesOwned, SourceKept, CopyKept, StoreKept
<1>4. CASE Go(w, [job[w] EXCEPT !.dir = d]) /\ job[w].at = "inputs"
  <2>1. /\ job'[w].at = "inputs" /\ job'[w].dir = d
        /\ job'[w].src = job[w].src /\ job'[w].tmp = job[w].tmp
    BY ONLY <1>0, <1>4 DEF Go, Job
  <2>2. NamesOwned(w)'
    BY ONLY <1>0, <1>1, <2>1 DEF NamesOwned
  <2> QED
    BY ONLY <2>1, <2>2 DEF JobKept, SourceKept, CopyKept, StoreKept
<1>5. CASE alloc_staging_dir(w)
  <2>1. CASE UNCHANGED job
    BY <1>0, <1>2, <1>5, <2>1 DEF alloc_staging_dir, At, NamesOwned
  <2> QED
    BY <1>3, <1>5, <2>1 DEF alloc_staging_dir, d
<1>6. CASE RedoAlloc(w)
  BY <1>0, <1>2, <1>4, <1>6 DEF RedoAlloc, At, Go, d
<1> QED
  BY <1>5, <1>6

\* The inputs are there, or the job is dropped.
LEMMA StageVisibleKeeps ==
  ASSUME CasInv, NEW w \in Wake, StageVisible(w)
  PROVE  JobKept(w)'
<1>0. /\ job \in [Wake -> Job] /\ NamesOwned(w)
      /\ alive[w] /\ alive' = alive /\ job[w].at = "inputs"
  BY DEF CasInv, ProcTyped, JobKept, StageVisible, At
<1>1. CASE Go(w, NoJob)
  BY <1>0, <1>1, NoJobKeeps DEF Go
<1>2. CASE Go(w, [job[w] EXCEPT !.at = "run"])
  <2>1. job'[w].at = "run" /\ job'[w].tmp = job[w].tmp /\ SameOutput(w)
    BY <1>0, <1>2, MovedAt DEF Moved
  <2>2. NamesOwned(w)'
    BY ONLY <1>0, <2>1 DEF NamesOwned, SameOutput
  <2> QED
    BY ONLY <2>1, <2>2 DEF JobKept, SourceKept, CopyKept, StoreKept
<1> QED
  BY <1>1, <1>2 DEF StageVisible

\* The command of a private job: its output is not staged yet.
LEMMA RunPrivatelyKeeps ==
  ASSUME CasInv, NEW w \in Wake, RunPrivately(w)
  PROVE  JobKept(w)'
<1>0. /\ job \in [Wake -> Job] /\ NamesOwned(w)
      /\ alive[w] /\ alive' = alive /\ job[w].at \in {"inputs", "run"}
  BY DEF CasInv, ProcTyped, JobKept, RunPrivately
<1>1. PICK p \in Path, t \in Types, pub \in BOOLEAN :
        Go(w, [job[w] EXCEPT !.at = "stage", !.path = p, !.type = t, !.published = pub])
  BY DEF RunPrivately
<1>2. /\ job'[w].at = "stage" /\ job'[w].tmp = job[w].tmp /\ job'[w].src = job[w].src
      /\ job'[w].dir = job[w].dir
  BY ONLY <1>0, <1>1 DEF Go, Job
<1>3. NamesOwned(w)'
  BY ONLY <1>0, <1>2 DEF NamesOwned
<1> QED
  BY ONLY <1>2, <1>3 DEF JobKept, SourceKept, CopyKept, StoreKept

\* A staging file is made under the number of the process, or there is none.
LEMMA StageCopyKeeps ==
  ASSUME CasInv, NEW w \in Wake, StageCopy(w)
  PROVE  JobKept(w)'
<1> DEFINE d == Name("root", w, made, NULL)
           x == Name("slot", w, made, "root")
           object == ws[job[w].path]
<1>0. /\ job \in [Wake -> Job] /\ made \in Nat /\ NamesOwned(w) /\ TreeTyped
      /\ alive[w] /\ alive' = alive /\ job[w].at = "stage" /\ job[w].kind = "workspace"
      /\ job[w].path \in Path
  BY DEF CasInv, ProcTyped, JobKept, StageCopy, At
<1>1. d \in FileName /\ d.own = w /\ x \in FileName /\ x.own = w /\ x.what = "slot" /\ x # NULL
  BY ONLY <1>0, OwnName
<1>2. CASE Fail(w)
  BY <1>0, <1>2, FailKeeps
<1>3. CASE object # NULL
  <2>1. /\ fs' = IF object.type = "file" THEN Set(fs, x, Partial) ELSE fs
        /\ Go(w, [job[w] EXCEPT !.at = IF object.type = "file" THEN "staging" ELSE "hash",
                                !.type = object.type, !.dir = d,
                                !.src = IF object.type = "file" THEN x ELSE NULL,
                                !.want = object.data])
    BY <1>3 DEF StageCopy
  <2> HIDE DEF d, x, object
  <2>2. /\ job'[w].at = IF object.type = "file" THEN "staging" ELSE "hash"
        /\ job'[w].type = object.type /\ job'[w].dir = d
        /\ job'[w].src = IF object.type = "file" THEN x ELSE NULL
        /\ job'[w].want = object.data /\ job'[w].tmp = job[w].tmp
    BY ONLY <1>0, <2>1 DEF Go, Job
  <2>3. NamesOwned(w)'
    BY ONLY <1>0, <1>1, <2>2 DEF NamesOwned
  <2>4. object.data \in Content
    BY ONLY <1>0, <1>3 DEF object, TreeTyped, Object
  <2>5. SourceKept(w)'
    BY ONLY <2>2, <2>4 DEF SourceKept
  <2> QED
    BY ONLY <2>2, <2>3, <2>5 DEF JobKept, CopyKept, StoreKept
<1> QED
  BY <1>2, <1>3 DEF StageCopy

\* The staging file has the content of the path, or is removed again.
LEMMA StageCopiedKeeps ==
  ASSUME CasInv, NEW w \in Wake, StageCopied(w)
  PROVE  JobKept(w)'
<1>0. /\ job \in [Wake -> Job] /\ NamesOwned(w) /\ TreeTyped /\ FilesTyped /\ SourceKept(w)
      /\ alive[w] /\ alive' = alive /\ job[w].at = "staging"
      /\ job[w].path \in Path
  BY DEF CasInv, ProcTyped, JobKept, StageCopied, At
<1>1. CASE Fail(w)
  BY <1>0, <1>1, FailKeeps
<1>2. CASE /\ ws[job[w].path] # NULL
           /\ fs' = [fs EXCEPT ![job[w].src] = ws[job[w].path].data]
           /\ Go(w, [job[w] EXCEPT !.at = "hash"])
  <2>1. /\ job'[w].at = "hash" /\ job'[w].tmp = job[w].tmp /\ job'[w].want = job[w].want
        /\ SameOutput(w)
    BY <1>0, <1>2, MovedAt DEF Moved
  <2>2. NamesOwned(w)'
    BY ONLY <1>0, <2>1 DEF NamesOwned, SameOutput
  <2>3. ws[job[w].path].data \in Content
    BY ONLY <1>0, <1>2 DEF TreeTyped, Object
  <2>4. job[w].src \in DOMAIN fs' => fs'[job[w].src] \in Content
    BY ONLY <1>0, <1>2, <2>3 DEF FilesTyped
  <2>5. SourceKept(w)'
    BY ONLY <1>0, <2>1, <2>4 DEF SourceKept, NamesOwned, SameOutput
  <2> QED
    BY ONLY <2>1, <2>2, <2>5 DEF JobKept, CopyKept, StoreKept
<1> QED
  BY <1>1, <1>2 DEF StageCopied

\* The output of a private job is staged where the command left it.
LEMMA StagePrivateKeeps ==
  ASSUME CasInv, NEW w \in Wake, StagePrivate(w)
  PROVE  JobKept(w)'
<1>0. /\ job \in [Wake -> Job] /\ NamesOwned(w) /\ FilesTyped
      /\ alive[w] /\ alive' = alive /\ job[w].at = "stage" /\ job[w].kind = "private"
  BY DEF CasInv, ProcTyped, JobKept, StagePrivate, At
<1>1. CASE Go(w, NoJob)
  BY <1>0, <1>1, NoJobKeeps DEF Go
<1>2. CASE Out(w) \in DOMAIN fs
  <2>1. /\ fs' = fs
        /\ Go(w, [job[w] EXCEPT !.at = "hash", !.want = fs[Out(w)],
                                !.src = IF job[w].type = "file" THEN Out(w) ELSE NULL])
    BY <1>2 DEF StagePrivate
  <2>2. /\ job'[w].at = "hash" /\ job'[w].type = job[w].type /\ job'[w].dir = job[w].dir
        /\ job'[w].src = (IF job[w].type = "file" THEN Out(w) ELSE NULL)
        /\ job'[w].want = fs[Out(w)] /\ job'[w].tmp = job[w].tmp
    BY ONLY <1>0, <2>1 DEF Go, Job
  <2>3. Out(w).own = w /\ Out(w).what = "out"
    BY DEF Out, Name
  <2>4. Out(w) # NULL /\ fs[Out(w)] \in Content
    BY ONLY <1>0, <1>2, <2>3, NameAssumption DEF FilesTyped
  <2>5. NamesOwned(w)'
    BY ONLY <1>0, <2>2, <2>3 DEF NamesOwned
  <2>6. SourceKept(w)'
    BY ONLY <2>1, <2>2, <2>4 DEF SourceKept
  <2> QED
    BY ONLY <2>2, <2>5, <2>6 DEF JobKept, CopyKept, StoreKept
<1> QED
  BY <1>1, <1>2 DEF StagePrivate

\* The staging file is hashed, if there is one.
LEMMA HashKeeps ==
  ASSUME CasInv, NEW w \in Wake, Hash(w)
  PROVE  JobKept(w)'
<1> DEFINE next == IF job[w].published THEN "ingest" ELSE "direct"
<1>0. /\ job \in [Wake -> Job] /\ NamesOwned(w) /\ SourceKept(w) /\ FilesTyped /\ fs' = fs
      /\ alive[w] /\ alive' = alive /\ job[w].at = "hash"
  BY DEF CasInv, ProcTyped, JobKept, Hash, At
<1>1. CASE Fail(w)
  BY <1>0, <1>1, FailKeeps
<1>2. ASSUME NEW c, job'[w] = [job[w] EXCEPT !.at = next, !.want = c], c \in Content,
             job[w].type = "file" => job[w].src \in DOMAIN fs /\ c = fs[job[w].src]
      PROVE  JobKept(w)'
  <2>1. /\ job'[w].at = next /\ job'[w].want = c /\ job'[w].tmp = job[w].tmp /\ SameOutput(w)
    <3>1. job[w] \in Job
      BY <1>0
    <3> QED
      BY ONLY <1>2, <3>1 DEF Job, SameOutput
  <2>2. NamesOwned(w)'
    BY ONLY <1>0, <2>1, NamesMove
  <2>3. SourceKept(w)'
    BY ONLY <1>0, <1>2, <2>1 DEF SourceKept, SameOutput
  <2> QED
    BY ONLY <2>1, <2>2, <2>3 DEF JobKept, CopyKept, StoreKept
<1>3. CASE job[w].src = NULL
  <2>1. job'[w] = [job[w] EXCEPT !.at = next]
    <3>1. ~(job[w].src \in DOMAIN fs)
      BY ONLY <1>0, <1>3, NameAssumption DEF FilesTyped
    <3>2. Go(w, [job[w] EXCEPT !.at = next])
      BY ONLY Hash(w), <1>3, <3>1 DEF Hash
    <3> QED
      BY ONLY <1>0, <3>2 DEF Go
  <2>2. job[w] \in Job
    BY <1>0
  <2>3. job'[w] = [job[w] EXCEPT !.at = next, !.want = job[w].want]
    BY ONLY <2>1, <2>2 DEF Job
  <2> QED
    BY <1>0, <1>2, <1>3, <2>3 DEF SourceKept
<1>4. CASE job[w].src # NULL /\ job[w].src \in DOMAIN fs
  <2>1. job'[w] = [[job[w] EXCEPT !.at = next] EXCEPT !.want = fs[job[w].src]]
    BY <1>0, <1>4 DEF Hash, Go
  <2>2. job[w] \in Job
    BY <1>0
  <2>3. job'[w] = [job[w] EXCEPT !.at = next, !.want = fs[job[w].src]]
    BY ONLY <2>1, <2>2 DEF Job
  <2> QED
    BY <1>0, <1>2, <1>4, <2>3 DEF SourceKept
<1> QED
  BY <1>1, <1>3, <1>4 DEF Hash

\* A primitive executed again begins with the same staging file.
LEMMA RedoKeeps ==
  ASSUME CasInv, NEW w \in Wake, Redo(w)
  PROVE  JobKept(w)'
<1>0. /\ job \in [Wake -> Job] /\ alive[w] /\ alive' = alive /\ Began(job[w]) # NULL
      /\ JobKept(w) /\ NamesOwned(w) /\ SourceKept(w) /\ CopyKept(w) /\ StoreKept(w)
      /\ Go(w, [job[w] EXCEPT !.at = Began(job[w])])
      /\ blob' = blob /\ (job[w].at # "hash" => fs' = fs)
  BY DEF CasInv, ProcTyped, JobKept, Redo
<1>1. /\ job'[w].at = Began(job[w]) /\ job'[w].tmp = job[w].tmp /\ job'[w].want = job[w].want
      /\ SameOutput(w)
  BY <1>0, MovedAt DEF Moved
<1>2. \/ job[w].at = "hash" /\ Began(job[w]) = "stage"
      \/ job[w].at = "stored" /\ Began(job[w]) = "ingest"
      \/ job[w].at = "done" /\ job[w].published /\ Began(job[w]) = "stored"
      \/ job[w].at = "done" /\ ~job[w].published /\ Began(job[w]) = "direct"
  BY ONLY <1>0 DEF Began
<1>3. NamesOwned(w)'
  BY ONLY <1>0, <1>1, <1>2, NamesMove
<1>4. SourceKept(w)'
  BY ONLY <1>0, <1>1, <1>2 DEF SourceKept, StoreKept, SameOutput
<1>5. CopyKept(w)'
  BY ONLY <1>1, <1>2 DEF CopyKept
<1>6. StoreKept(w)'
  BY ONLY <1>0, <1>1, <1>2 DEF StoreKept, SameOutput
<1> QED
  BY <1>3, <1>4, <1>5, <1>6 DEF JobKept

-----------------------------------------------------------------------------
(* Types *)

LEMMA SetTyped ==
  ASSUME FilesTyped, NEW x \in FileName, NEW c \in Content \cup {Partial},
         x.what = "out" => c \in Content, fs' = Set(fs, x, c)
  PROVE  FilesTyped'
  BY DEF FilesTyped, Set

LEMMA DropTyped ==
  ASSUME FilesTyped, NEW S, fs' = Drop(fs, S)
  PROVE  FilesTyped'
  BY DEF FilesTyped, Drop, Restrict

LEMMA WriteTyped ==
  ASSUME FilesTyped, NEW x, NEW c \in Content, fs' = [fs EXCEPT ![x] = c]
  PROVE  FilesTyped'
  BY DEF FilesTyped

\* The two halves of a copy.
LEMMA CopyTyped ==
  ASSUME FilesTyped, NEW w, NEW x, NEW c, NEW at,
         \/ StartCopy(w, x, at) /\ x \in FileName /\ x.what # "out"
         \/ FinishCopy(w, c, at) /\ c \in Content
  PROVE  FilesTyped'
<1>1. CASE StartCopy(w, x, at) /\ x \in FileName /\ x.what # "out"
  <2>1. fs' = Drop(fs, {x}) \/ fs' = Set(fs, x, Partial)
    BY ONLY <1>1 DEF StartCopy
  <2> QED
    BY ONLY FilesTyped, <1>1, <2>1, SetTyped, DropTyped
<1>2. CASE FinishCopy(w, c, at) /\ c \in Content
  <2>1. fs' = [fs EXCEPT ![job[w].tmp] = c] \/ fs' = Drop(fs, {job[w].tmp})
    BY ONLY <1>2 DEF FinishCopy
  <2> QED
    BY ONLY FilesTyped, <1>2, <2>1, WriteTyped, DropTyped
<1> QED
  BY <1>1, <1>2

\* Files keep their type: what a copy ends with is the content it began with.
LEMMA FilesStep ==
  ASSUME CasInv, NEW w \in Wake, Step(w)
  PROVE  FilesTyped'
<1>0. /\ FilesTyped /\ TreeTyped /\ BlobsWhole /\ job \in [Wake -> Job]
      /\ seq \in [Wake -> Nat] /\ made \in Nat
      /\ NamesOwned(w) /\ SourceKept(w) /\ CopyKept(w) /\ StoreKept(w)
      /\ job[w].at \notin {"idle", "inputs", "run"} => job[w].path \in Path
  BY DEF CasInv, ProcTyped, JobKept
<1>1. CASE \/ Exit(w) \/ Kill(w) \/ RunInWorkspace(w) \/ alloc_staging_dir(w) \/ Hash(w)
           \/ NotStored(w) \/ IngestDirectory(w) \/ InPlace(w)
           \/ MaterializeDirectory(w) \/ Mkdir(w) \/ RedoAlloc(w)
  <2>1. fs' = fs
    BY ONLY <1>1 DEF Exit, Kill, RunInWorkspace, alloc_staging_dir, Hash, NotStored,
                     IngestDirectory, InPlace, MaterializeDirectory, Mkdir, RedoAlloc
  <2> QED
    BY ONLY <1>0, <2>1 DEF FilesTyped
<1>2. CASE \/ Boot(w) \/ StageVisible(w) \/ AlreadyStored(w) \/ Place(w) \/ Unpublished(w)
           \/ Replace(w) \/ Finish(w) \/ Redo(w)
  <2>1. fs' = fs \/ \E S : fs' = Drop(fs, S)
    BY ONLY <1>2 DEF Boot, StageVisible, AlreadyStored, Place, Unpublished, Replace, Finish,
                     Redo, RemoveDir
  <2> QED
    BY ONLY <1>0, <2>1, DropTyped DEF FilesTyped
<1>3. CASE RunPrivately(w)
  <2>1. PICK c \in Content : fs' = fs \/ fs' = Set(fs, Out(w), c)
    BY ONLY <1>3 DEF RunPrivately
  <2>2. Out(w) \in FileName
    BY ONLY <1>0, <1>3 DEF RunPrivately, NamesOwned, Out, Name, FileName
  <2> QED
    BY ONLY <1>0, <2>1, <2>2, SetTyped DEF FilesTyped
<1>4. CASE StageCopy(w)
  <2>1. fs' = fs \/ fs' = Set(fs, Name("slot", w, made, "root"), Partial)
    BY ONLY <1>4 DEF StageCopy
  <2>2. /\ Name("slot", w, made, "root") \in FileName
        /\ Name("slot", w, made, "root").what # "out"
    BY ONLY <1>0, OwnName
  <2> QED
    BY ONLY <1>0, <2>1, <2>2, SetTyped DEF FilesTyped
<1>5. CASE StageCopied(w)
  <2>1. \/ /\ ws[job[w].path] # NULL
           /\ fs' = [fs EXCEPT ![job[w].src] = ws[job[w].path].data]
        \/ fs' = Drop(fs, Within(job[w].dir))
    BY ONLY <1>5 DEF StageCopied, RemoveDir
  <2>2. ws[job[w].path] # NULL => ws[job[w].path].data \in Content
    BY ONLY <1>0, <1>5 DEF StageCopied, At, TreeTyped, Object
  <2> QED
    BY ONLY <1>0, <2>1, <2>2, WriteTyped, DropTyped
<1>6. CASE StagePrivate(w)
  <2>1. fs' = fs \/ fs' = Drop(fs, Within(job[w].dir))
    BY ONLY <1>6 DEF StagePrivate, RemoveDir
  <2> QED
    BY ONLY <1>0, <2>1, DropTyped DEF FilesTyped
<1>7. CASE IngestFile(w)
  <2>1. fs' = fs \/ StartCopy(w, Name("store", w, seq[w], NULL), "storing")
    BY ONLY <1>7 DEF IngestFile
  <2>2. /\ Name("store", w, seq[w], NULL) \in FileName
        /\ Name("store", w, seq[w], NULL).what # "out"
    BY ONLY <1>0, TempNames DEF Temp
  <2> QED
    BY ONLY <1>0, <2>1, <2>2, CopyTyped DEF FilesTyped
<1>8. CASE StoreCopied(w)
  <2>1. FinishCopy(w, fs[job[w].src], "check") /\ job[w].at = "storing"
    BY ONLY <1>8 DEF StoreCopied, At
  <2>2. fs[job[w].src] \in Content
    BY ONLY <1>0, <2>1 DEF SourceKept, CopyKept
  <2> QED
    BY ONLY <1>0, <2>1, <2>2, CopyTyped
<1>9. CASE IngestSymlink(w)
  <2>1. fs' = fs \/ fs' = Set(fs, Name("data", w, 0, job[w].want), Partial)
    BY ONLY <1>9 DEF IngestSymlink
  <2>2. /\ Name("data", w, 0, job[w].want) \in FileName
        /\ Name("data", w, 0, job[w].want).what # "out"
    BY ONLY <1>0, TempNames DEF Temp
  <2> QED
    BY ONLY <1>0, <2>1, <2>2, SetTyped DEF FilesTyped
<1>10. CASE DataWritten(w)
  <2>1. FinishCopy(w, job[w].want, "place") /\ job[w].at = "writing"
    BY ONLY <1>10 DEF DataWritten, At
  <2>2. job[w].want \in Content
    BY ONLY <1>0, <2>1 DEF SourceKept
  <2> QED
    BY ONLY <1>0, <2>1, <2>2, CopyTyped
<1>11. CASE MaterializeFile(w)
  <2>1. fs' = fs \/ StartCopy(w, Name("mat", w, 0, job[w].path), "copying")
    BY ONLY <1>11 DEF MaterializeFile
  <2>2. /\ Name("mat", w, 0, job[w].path) \in FileName
        /\ Name("mat", w, 0, job[w].path).what # "out"
    BY ONLY <1>0, TempNames DEF Temp
  <2> QED
    BY ONLY <1>0, <2>1, <2>2, CopyTyped DEF FilesTyped
<1>12. CASE MaterializeSymlink(w)
  <2>1. /\ job[w].at = "stored"
        /\ \/ fs' = fs
           \/ /\ fs' = Set(fs, Name("link", w, seq[w], job[w].path), blob[job[w].want])
              /\ blob[job[w].want] # NULL
    BY ONLY <1>12 DEF MaterializeSymlink, At
  <2>2. /\ Name("link", w, seq[w], job[w].path) \in FileName
        /\ Name("link", w, seq[w], job[w].path).what # "out"
    BY ONLY <1>0, TempNames DEF Temp
  <2>3. blob[job[w].want] # NULL => blob[job[w].want] \in Content
    BY ONLY <1>0, <2>1 DEF SourceKept, BlobsWhole
  <2> QED
    BY ONLY <1>0, <2>1, <2>2, <2>3, SetTyped DEF FilesTyped
<1>13. CASE DirectFile(w)
  <2>1. fs' = fs \/ StartCopy(w, Name("direct", w, seq[w], job[w].path), "copying")
    BY ONLY <1>13 DEF DirectFile
  <2>2. /\ Name("direct", w, seq[w], job[w].path) \in FileName
        /\ Name("direct", w, seq[w], job[w].path).what # "out"
    BY ONLY <1>0, TempNames DEF Temp
  <2> QED
    BY ONLY <1>0, <2>1, <2>2, CopyTyped DEF FilesTyped
<1>14. CASE DirectSymlink(w)
  <2>1. /\ job[w].at = "direct"
        /\ fs' = fs \/ fs' = Set(fs, Name("direct", w, seq[w], job[w].path), job[w].want)
    BY ONLY <1>14 DEF DirectSymlink, At
  <2>2. /\ Name("direct", w, seq[w], job[w].path) \in FileName
        /\ Name("direct", w, seq[w], job[w].path).what # "out"
    BY ONLY <1>0, TempNames DEF Temp
  <2>3. job[w].want \in Content
    BY ONLY <1>0, <2>1 DEF SourceKept
  <2> QED
    BY ONLY <1>0, <2>1, <2>2, <2>3, SetTyped DEF FilesTyped
<1>15. CASE Copied(w)
  <2> DEFINE c == IF job[w].published THEN blob[job[w].want] ELSE fs[job[w].src]
  <2>1. FinishCopy(w, c, "rename") /\ job[w].at = "copying"
    BY ONLY <1>15 DEF Copied, At
  <2>2. c \in Content
    BY ONLY <1>0, <2>1 DEF SourceKept, CopyKept, StoreKept
  <2> QED
    BY ONLY <1>0, <2>1, <2>2, CopyTyped
<1> QED
  BY <1>1, <1>2, <1>3, <1>4, <1>5, <1>6, <1>7, <1>8, <1>9, <1>10, <1>11, <1>12, <1>13, <1>14,
     <1>15 DEF Step

\* The workspace and the store keep their types, and a blob its content.
LEMMA TreeStep ==
  ASSUME CasInv, NEW w \in Wake, Step(w)
  PROVE  TreeTyped' /\ BlobsWhole'
<1>0. /\ FilesTyped /\ TreeTyped /\ BlobsWhole /\ job \in [Wake -> Job]
      /\ NamesOwned(w) /\ SourceKept(w) /\ CopyKept(w) /\ StoreKept(w)
      /\ job[w].at \notin {"idle", "inputs", "run"} => job[w].path \in Path
  BY DEF CasInv, ProcTyped, JobKept
<1>1. CASE RunInWorkspace(w)
  <2>1. PICK p \in Path, t \in Types, c \in Content :
          ws' = [ws EXCEPT ![p] = [type |-> t, data |-> c]]
    BY ONLY <1>1 DEF RunInWorkspace
  <2>2. blob' = blob
    BY ONLY <1>1 DEF RunInWorkspace
  <2>3. [type |-> t, data |-> c] \in Object
    BY ONLY StagingAssumption DEF Object
  <2> QED
    BY ONLY <1>0, <2>1, <2>2, <2>3 DEF TreeTyped, BlobsWhole
<1>2. CASE Place(w)
  <2>1. /\ ws' = ws /\ job[w].at = "place"
        /\ \/ blob' = [blob EXCEPT ![job[w].want] = fs[job[w].tmp]]
           \/ blob' = blob
    BY ONLY <1>2 DEF Place, At
  <2>2. job[w].want \in Content /\ fs[job[w].tmp] = job[w].want
    BY ONLY <1>0, <2>1 DEF SourceKept, CopyKept
  <2> QED
    BY ONLY <1>0, <2>1, <2>2 DEF TreeTyped, BlobsWhole
<1>3. CASE MaterializeDirectory(w)
  <2>1. blob' = blob /\ (ws' = ws \/ ws' = [ws EXCEPT ![job[w].path] = NULL])
    BY ONLY <1>3 DEF MaterializeDirectory
  <2> QED
    BY ONLY <1>0, <2>1 DEF TreeTyped, BlobsWhole
<1>4. CASE Mkdir(w)
  <2>1. /\ blob' = blob /\ job[w].at = "mkdir"
        /\ ws' = [ws EXCEPT ![job[w].path] =
                    IF @ = NULL THEN [type |-> "directory", data |-> job[w].want] ELSE @]
    BY ONLY <1>4 DEF Mkdir, At
  <2>2. [type |-> "directory", data |-> job[w].want] \in Object
    BY ONLY <1>0, <2>1 DEF SourceKept, Object
  <2> QED
    BY ONLY <1>0, <2>1, <2>2 DEF TreeTyped, BlobsWhole
<1>5. CASE Replace(w)
  <2>1. /\ blob' = blob /\ job[w].at = "rename"
        /\ \/ ws' = ws
           \/ ws' = [ws EXCEPT ![job[w].path] = [type |-> job[w].type, data |-> fs[job[w].tmp]]]
    BY ONLY <1>5 DEF Replace, At
  <2>2. [type |-> job[w].type, data |-> fs[job[w].tmp]] \in Object
    BY ONLY <1>0, <2>1 DEF SourceKept, CopyKept, Object
  <2> QED
    BY ONLY <1>0, <2>1, <2>2 DEF TreeTyped, BlobsWhole
<1>6. CASE ws' = ws /\ blob' = blob
  BY ONLY <1>0, <1>6 DEF TreeTyped, BlobsWhole
<1> QED
  <2>1. \/ RunInWorkspace(w) \/ Place(w) \/ MaterializeDirectory(w) \/ Mkdir(w) \/ Replace(w)
        \/ ws' = ws /\ blob' = blob
    BY ONLY Step(w)
       DEF Step, Boot, Exit, Kill, alloc_staging_dir, StageVisible, RunPrivately, StageCopy,
           StageCopied, StagePrivate, Hash, IngestFile, StoreCopied, AlreadyStored, NotStored,
           IngestSymlink, DataWritten, IngestDirectory, InPlace, MaterializeFile,
           MaterializeSymlink, DirectFile, DirectSymlink, Unpublished, Copied, Finish, Redo,
           RedoAlloc
  <2> QED
    BY <1>1, <1>2, <1>3, <1>4, <1>5, <1>6, <2>1

\* Where the output goes, once it is known.
Goes(J) == J \in Job /\ (J.at \notin {"idle", "inputs", "run"} => J.path \in Path)

LEMMA GoTyped ==
  ASSUME ProcTyped, NEW w \in Wake, NEW J, Goes(J), Go(w, J)
  PROVE  /\ job' \in [Wake -> Job]
         /\ \A v \in Wake : job'[v].at \notin {"idle", "inputs", "run"} => job'[v].path \in Path
<1>1. \A v \in Wake : job'[v] = IF v = w THEN J ELSE job[v]
  BY DEF ProcTyped, Go
<1>2. job' \in [Wake -> Job]
  BY DEF ProcTyped, Go, Goes
<1> QED
  BY ONLY ProcTyped, Goes(J), <1>1, <1>2 DEF ProcTyped, Goes

\* A job that moves on with its output.
LEMMA MoveTyped ==
  ASSUME NEW w \in Wake, job[w] \in Job, job[w].path \in Path,
         NEW a \in Place_, NEW t \in FileName \cup {NULL}
  PROVE  /\ Goes([job[w] EXCEPT !.at = a, !.tmp = t]) /\ Goes([job[w] EXCEPT !.at = a])
  BY DEF Goes, Job

\* Processes and their jobs keep their types.
LEMMA ProcStep ==
  ASSUME CasInv, NEW w \in Wake, Step(w)
  PROVE  ProcTyped'
<1>0. /\ ProcTyped /\ FilesTyped /\ TreeTyped /\ job \in [Wake -> Job] /\ job[w] \in Job
      /\ seq \in [Wake -> Nat] /\ made \in Nat
      /\ NamesOwned(w) /\ SourceKept(w)
      /\ job[w].at \notin {"idle", "inputs", "run"} => job[w].path \in Path
  BY DEF CasInv, ProcTyped, JobKept
<1>1. /\ alive' \in [Wake -> BOOLEAN] /\ seq' \in [Wake -> Nat] /\ made' \in Nat
  <2>1. /\ \/ alive' = alive
           \/ \E b \in BOOLEAN : alive' = [alive EXCEPT ![w] = b]
        /\ \/ seq' = seq
           \/ seq' = [seq EXCEPT ![w] = 0]
           \/ seq' = [seq EXCEPT ![w] = @ + 1]
        /\ made' = made \/ made' = made + 1
    BY ONLY Step(w)
       DEF Step, Boot, Exit, Kill, RunInWorkspace, alloc_staging_dir, StageVisible,
           RunPrivately, StageCopy, StageCopied, StagePrivate, Hash, IngestFile, StoreCopied,
           AlreadyStored, NotStored, Place, IngestSymlink, DataWritten, IngestDirectory,
           InPlace, MaterializeFile, MaterializeSymlink, MaterializeDirectory, Mkdir,
           DirectFile, DirectSymlink, Unpublished, Copied, Replace, Finish, Redo, RedoAlloc
  <2> QED
    BY ONLY <1>0, <2>1 DEF ProcTyped
<1>2. CASE job' = job
  BY ONLY <1>0, <1>1, <1>2 DEF ProcTyped
<1>3. ASSUME NEW J, Goes(J), Go(w, J)
      PROVE  ProcTyped'
  BY ONLY <1>0, <1>1, <1>3, GoTyped DEF ProcTyped
<1>4. Goes(NoJob)
  BY NameAssumption DEF Goes, Job, NoJob, Place_
<1>5. ASSUME NEW a \in Place_, NEW t \in FileName \cup {NULL}, job[w].path \in Path,
             \/ Go(w, [job[w] EXCEPT !.at = a, !.tmp = t])
             \/ Go(w, [job[w] EXCEPT !.at = a])
      PROVE  ProcTyped'
  BY ONLY <1>0, <1>3, <1>5, MoveTyped
<1>6. CASE Fail(w) /\ job[w].path \in Path
  BY ONLY <1>5, <1>6 DEF Fail, Place_
<1>7. CASE \/ Boot(w) \/ Exit(w) \/ Kill(w) \/ Finish(w)
  <2>1. job' = job \/ Go(w, NoJob)
    BY ONLY <1>7 DEF Boot, Exit, Kill, Finish, Go
  <2> QED
    BY ONLY <1>2, <1>3, <1>4, <2>1
<1>8. CASE RunInWorkspace(w)
  <2>1. PICK p \in Path, pub \in BOOLEAN :
          Go(w, [NoJob EXCEPT !.at = "stage", !.kind = "workspace", !.path = p, !.published = pub])
    BY ONLY <1>8 DEF RunInWorkspace
  <2>2. Goes([NoJob EXCEPT !.at = "stage", !.kind = "workspace", !.path = p, !.published = pub])
    BY DEF Goes, Job, NoJob, Place_
  <2> QED
    BY ONLY <1>3, <2>1, <2>2
<1>9. CASE alloc_staging_dir(w) \/ RedoAlloc(w)
  <2> DEFINE d == Name("private", w, seq[w], NULL)
  <2>1. d \in FileName
    BY ONLY <1>0, NameParts, OwnName
  <2>2. \/ job' = job \/ Go(w, NoJob)
        \/ Go(w, [NoJob EXCEPT !.at = "inputs", !.kind = "private", !.dir = d])
        \/ Go(w, [job[w] EXCEPT !.dir = d])
    BY ONLY <1>9 DEF alloc_staging_dir, RedoAlloc
  <2> HIDE DEF d
  <2>3. Goes([NoJob EXCEPT !.at = "inputs", !.kind = "private", !.dir = d])
    BY ONLY <2>1, NameAssumption DEF Goes, Job, NoJob, Place_
  <2>4. Goes([job[w] EXCEPT !.dir = d])
    BY ONLY <1>0, <2>1 DEF Goes, Job
  <2> QED
    BY ONLY <1>2, <1>3, <1>4, <2>2, <2>3, <2>4
<1>10. CASE StageVisible(w)
  <2>1. Go(w, NoJob) \/ Go(w, [job[w] EXCEPT !.at = "run"])
    BY ONLY <1>10 DEF StageVisible
  <2>2. Goes([job[w] EXCEPT !.at = "run"])
    BY ONLY <1>0 DEF Goes, Job, Place_
  <2> QED
    BY ONLY <1>3, <1>4, <2>1, <2>2
<1>11. CASE RunPrivately(w)
  <2>1. PICK p \in Path, t \in Types, pub \in BOOLEAN :
          Go(w, [job[w] EXCEPT !.at = "stage", !.path = p, !.type = t, !.published = pub])
    BY ONLY <1>11 DEF RunPrivately
  <2>2. Goes([job[w] EXCEPT !.at = "stage", !.path = p, !.type = t, !.published = pub])
    BY ONLY <1>0, <2>1, StagingAssumption DEF Goes, Job, Place_
  <2> QED
    BY ONLY <1>3, <2>1, <2>2
<1>12. CASE StageCopy(w)
  <2> DEFINE d == Name("root", w, made, NULL)
             x == Name("slot", w, made, "root")
             object == ws[job[w].path]
  <2>0. job[w].path \in Path
    BY ONLY <1>0, <1>12 DEF StageCopy, At
  <2>1. d \in FileName /\ x \in FileName
    BY ONLY <1>0, OwnName
  <2>2. \/ Fail(w)
        \/ /\ object # NULL
           /\ Go(w, [job[w] EXCEPT !.at = IF object.type = "file" THEN "staging" ELSE "hash",
                                   !.type = object.type, !.dir = d,
                                   !.src = IF object.type = "file" THEN x ELSE NULL,
                                   !.want = object.data])
    BY ONLY <1>12 DEF StageCopy
  <2>3. object # NULL => object \in Object
    BY ONLY <1>0, <2>0 DEF TreeTyped
  <2> HIDE DEF d, x, object
  <2>4. object \in Object =>
          Goes([job[w] EXCEPT !.at = IF object.type = "file" THEN "staging" ELSE "hash",
                              !.type = object.type, !.dir = d,
                              !.src = IF object.type = "file" THEN x ELSE NULL,
                              !.want = object.data])
    BY ONLY <1>0, <2>0, <2>1 DEF Goes, Job, Place_, Object
  <2> QED
    BY ONLY <1>3, <1>6, <2>0, <2>2, <2>3, <2>4
<1>13. CASE StagePrivate(w)
  <2>1. /\ job[w].path \in Path
        /\ \/ Go(w, NoJob)
           \/ /\ Out(w) \in DOMAIN fs
              /\ Go(w, [job[w] EXCEPT !.at = "hash", !.want = fs[Out(w)],
                                      !.src = IF job[w].type = "file" THEN Out(w) ELSE NULL])
    BY ONLY <1>0, <1>13 DEF StagePrivate, At
  <2>2. Out(w).what = "out"
    BY DEF Out, Name
  <2>3. Out(w) \in DOMAIN fs => Out(w) \in FileName /\ fs[Out(w)] \in Content
    BY ONLY <1>0, <2>2 DEF FilesTyped
  <2>4. Out(w) \in DOMAIN fs =>
          Goes([job[w] EXCEPT !.at = "hash", !.want = fs[Out(w)],
                              !.src = IF job[w].type = "file" THEN Out(w) ELSE NULL])
    BY ONLY <1>0, <2>1, <2>3 DEF Goes, Job, Place_
  <2> QED
    BY ONLY <1>3, <1>4, <2>1, <2>4
<1>14. CASE Hash(w)
  <2> DEFINE J == [job[w] EXCEPT !.at = IF job[w].published THEN "ingest" ELSE "direct"]
  <2>1. job[w].path \in Path /\ job[w].at = "hash"
    BY ONLY <1>0, <1>14 DEF Hash, At
  <2>2. \/ Fail(w) \/ Go(w, J)
        \/ /\ job[w].src # NULL /\ job[w].src \in DOMAIN fs
           /\ Go(w, [J EXCEPT !.want = fs[job[w].src]])
    <3>1. ~(NULL \in DOMAIN fs)
      BY ONLY <1>0, NameAssumption DEF FilesTyped
    <3> QED
      BY ONLY <1>14, <3>1 DEF Hash
  <2>3. Goes(J)
    BY ONLY <1>0, <2>1 DEF Goes, Job, Place_
  <2>4. job[w].src # NULL /\ job[w].src \in DOMAIN fs => fs[job[w].src] \in Content
    BY ONLY <1>0, <2>1 DEF SourceKept
  <2> HIDE DEF J
  <2>5. ASSUME NEW c \in Content PROVE Goes([J EXCEPT !.want = c])
    BY ONLY <2>3, <2>5 DEF Goes, Job
  <2> QED
    BY ONLY <1>3, <1>6, <2>1, <2>2, <2>3, <2>4, <2>5
<1>15. CASE \/ StageCopied(w) \/ StoreCopied(w) \/ NotStored(w) \/ DataWritten(w) \/ Copied(w)
            \/ MaterializeDirectory(w) \/ Redo(w)
  <2>1. job[w].path \in Path
    BY ONLY <1>0, <1>15
       DEF StageCopied, StoreCopied, NotStored, DataWritten, Copied, MaterializeDirectory, Redo,
           At, Began
  <2>2. Redo(w) => Began(job[w]) \in Place_
    BY ONLY TRUE DEF Redo, Began, Place_
  <2>3. \/ Fail(w) \/ Go(w, Done(w)) \/ \E a \in Place_ : Go(w, [job[w] EXCEPT !.at = a])
    BY ONLY <1>15, <2>2
       DEF StageCopied, StoreCopied, NotStored, DataWritten, Copied, MaterializeDirectory, Redo,
           FinishCopy, Place_
  <2> QED
    BY ONLY <1>5, <1>6, <2>1, <2>3 DEF Done, Place_
<1>16. CASE \/ AlreadyStored(w) \/ Place(w) \/ IngestDirectory(w) \/ InPlace(w) \/ Mkdir(w)
            \/ Unpublished(w) \/ Replace(w)
  <2>1. job[w].path \in Path
    BY ONLY <1>0, <1>16
       DEF AlreadyStored, Place, IngestDirectory, InPlace, Mkdir, Unpublished, Replace, At
  <2>2. \/ Fail(w) \/ Go(w, Done(w)) \/ Go(w, Stored(w))
    BY ONLY <1>16
       DEF AlreadyStored, Place, IngestDirectory, InPlace, Mkdir, Unpublished, Replace
  <2> QED
    BY ONLY <1>5, <1>6, <2>1, <2>2 DEF Done, Stored, Place_
<1>17. CASE \/ IngestFile(w) \/ IngestSymlink(w) \/ MaterializeFile(w) \/ MaterializeSymlink(w)
            \/ DirectFile(w) \/ DirectSymlink(w)
  <2>1. job[w].path \in Path
    BY ONLY <1>0, <1>17
       DEF IngestFile, IngestSymlink, MaterializeFile, MaterializeSymlink, DirectFile,
           DirectSymlink, At
  <2>2. /\ Name("store", w, seq[w], NULL) \in FileName
        /\ Name("link", w, seq[w], job[w].path) \in FileName
        /\ Name("direct", w, seq[w], job[w].path) \in FileName
    BY ONLY <1>0, TempNames DEF Temp
  <2>3. /\ Name("data", w, 0, job[w].want) \in FileName
        /\ Name("mat", w, 0, job[w].path) \in FileName
    BY ONLY <1>0, TempNames DEF Temp
  <2>4. \/ Fail(w) \/ Go(w, Stored(w))
        \/ \E a \in Place_, t \in FileName : Go(w, [job[w] EXCEPT !.at = a, !.tmp = t])
    BY ONLY <1>17, <2>2, <2>3
       DEF IngestFile, IngestSymlink, MaterializeFile, MaterializeSymlink, DirectFile,
           DirectSymlink, StartCopy, Place_
  <2> QED
    BY ONLY <1>5, <1>6, <2>1, <2>4 DEF Stored, Place_
<1> QED
  BY <1>7, <1>8, <1>9, <1>10, <1>11, <1>12, <1>13, <1>14, <1>15, <1>16, <1>17 DEF Step

-----------------------------------------------------------------------------
(* The theorems *)

LEMMA CasInit == Init => CasInv
<1> SUFFICES ASSUME Init PROVE CasInv
  OBVIOUS
<1>1. NoJob \in Job
  BY NameAssumption DEF Job, NoJob, Place_
<1>2. ProcTyped /\ TreeTyped /\ BlobsWhole
  BY <1>1 DEF Init, ProcTyped, TreeTyped, BlobsWhole, NoJob
<1>3. FilesTyped
  <2>1. fs = << >> /\ DOMAIN fs = {}
    BY DEF Init
  <2> QED
    BY ONLY <2>1 DEF FilesTyped
<1>4. ASSUME NEW w \in Wake PROVE JobKept(w)
  BY NameAssumption DEF Init, JobKept, NamesOwned, SourceKept, CopyKept, StoreKept, NoJob
<1> QED
  BY <1>2, <1>3, <1>4 DEF CasInv

\* A process keeps what its own place in its job says.
LEMMA StepKeepsOwn ==
  ASSUME CasInv, NEW w \in Wake, Step(w)
  PROVE  JobKept(w)'
  BY ProcessKeeps, RunInWorkspaceKeeps, AllocKeeps, StageVisibleKeeps, RunPrivatelyKeeps,
     StageCopyKeeps, StageCopiedKeeps, StagePrivateKeeps, HashKeeps, IngestFileKeeps,
     StoreCopiedKeeps, AlreadyStoredKeeps, NotStoredKeeps, PlaceKeeps, IngestSymlinkKeeps,
     DataWrittenKeeps, IngestDirectoryKeeps, InPlaceKeeps, MaterializeFileKeeps,
     MaterializeSymlinkKeeps, MaterializeDirectoryKeeps, MkdirKeeps, DirectFileKeeps,
     DirectSymlinkKeeps, UnpublishedKeeps, CopiedKeeps, ReplaceKeeps, RedoKeeps
  DEF Step

LEMMA CasNext == CasInv /\ [Next]_vars => CasInv'
<1>1. ASSUME CasInv, UNCHANGED vars PROVE CasInv'
  <2>1. /\ alive' = alive /\ job' = job /\ seq' = seq /\ made' = made
        /\ ws' = ws /\ blob' = blob /\ fs' = fs
    BY <1>1 DEF vars
  <2>2. ProcTyped' /\ TreeTyped' /\ FilesTyped' /\ BlobsWhole'
    BY <1>1, <2>1 DEF CasInv, ProcTyped, TreeTyped, FilesTyped, BlobsWhole
  <2>3. ASSUME NEW w \in Wake PROVE JobKept(w)'
    BY <1>1, <2>1 DEF CasInv, JobKept, NamesOwned, SourceKept, CopyKept, StoreKept
  <2> QED
    BY <2>2, <2>3 DEF CasInv
<1>2. ASSUME CasInv, NEW v \in Wake, Step(v) PROVE CasInv'
  <2>1. ProcTyped' /\ TreeTyped' /\ FilesTyped' /\ BlobsWhole'
    BY ONLY <1>2, ProcStep, TreeStep, FilesStep
  <2>2. JobKept(v)'
    BY ONLY <1>2, StepKeepsOwn
  <2>3. ASSUME NEW w \in Wake \ {v} PROVE JobKept(w)'
    BY ONLY <1>2, <2>3, OthersKeepJob
  <2> QED
    BY <2>1, <2>2, <2>3 DEF CasInv
<1> QED
  BY <1>1, <1>2 DEF Next

LEMMA CasAlways == Spec => []CasInv
  BY CasInit, CasNext, PTL DEF Spec

\* FilesAreWhole holds for any number of wake processes, paths, contents, jobs,
\* kills and primitives executed again: with rename as the only way into the
\* store and the workspace, nobody finds an incomplete file in store_blob_from_file_impl,
\* materialize_blob or materialize_staged_workspace_item.
THEOREM FilesAreAlwaysWhole == Spec => []FilesAreWhole
<1>1. CasInv => FilesAreWhole
  BY StagingAssumption DEF CasInv, BlobsWhole, TreeTyped, Object, FilesAreWhole
<1> QED
  BY <1>1, CasAlways, PTL

\* HashedOutputsSurvive holds likewise: from the hash to the end of the job the
\* bytes that were hashed are in the staging file of stage_outputs or in the
\* store of cas_ingest_staged_item, whatever the other processes do.
THEOREM HashedOutputsAlwaysSurvive == Spec => []HashedOutputsSurvive
<1>1. CasInv => HashedOutputsSurvive
  <2> SUFFICES ASSUME CasInv, NEW w \in Wake, alive[w], job[w].published
               PROVE  /\ /\ job[w].at \in {"ingest", "storing", "check", "place"}
                         /\ job[w].type = "file"
                         =>
                           \/ job[w].src \in DOMAIN fs /\ fs[job[w].src] = job[w].want
                           \/ blob[job[w].want] = job[w].want
                      /\ job[w].at \in {"stored", "done"} /\ job[w].type \in {"file", "symlink"} =>
                           blob[job[w].want] = job[w].want
    BY DEF HashedOutputsSurvive
  <2>1. SourceKept(w) /\ StoreKept(w)
    BY DEF CasInv, JobKept
  <2> QED
    BY ONLY <2>1, job[w].published DEF SourceKept, StoreKept
<1> QED
  BY <1>1, CasAlways, PTL
=============================================================================
