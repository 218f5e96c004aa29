------------------------------ MODULE Migrate ------------------------------
(***************************************************************************)
(* wake-migrate (tools/wake-migrate/main.cpp) rewriting wake.db for a new  *)
(* schema version: it clones the database into wake.db.migrated, applies   *)
(* the steps of its registry there, one transaction each, and swaps the    *)
(* clone in with two renames.  Beside it run wake processes of older and   *)
(* newer releases, which Database::open lets in by schema version.         *)
(*                                                                         *)
(* A database is abstracted to what the steps tell apart: the version      *)
(* stamps, the jobs with their runner_status, the files with type and time *)
(* of modification, the filetree rows, and the jobs that have rows in log, *)
(* tags and unhashed_files.  SQLite is external: a transaction is one      *)
(* step, and a connection of anyone else denies the exclusive lock.        *)
(***************************************************************************)
EXTENDS Integers, FiniteSets, FiniteSetsExt, TLC

CONSTANTS
  Wake,       \* the wake processes that may run beside the tool
  Releases,   \* the schema versions of the wake releases installed
  Targets,    \* the values SCHEMA_VERSION takes in the tool
  Found,      \* the databases the tool may be pointed at
  Workspaces, \* what lstat() says of each path of the database
  NewJob,     \* the job a wake adds
  NewFile,    \* the file that job writes
  MaxTries,   \* bound: how often the tool is started
  Heeds       \* TRUE: no wake is started while the tool runs, as it asks

VARIABLES
  fs,     \* the directory: path -> inode, 0 where there is no such file
  disk,   \* inode -> database
  ws,     \* file -> "gone", "file", "symlink" or "directory"
  tool,   \* the running wake-migrate
  conn,   \* wake process -> the inode it has open, 0 when it has none
  tries   \* how often the tool has been started

vars == <<fs, disk, ws, tool, conn, tries>>

Inode == 1 .. MaxTries + 1

Path == {"wake.db", "backup", "migrated"}

\* A text runner_status: NULL, or the message the copy of a number becomes.
NULL == <<>>
NumericReturnCode(n) == <<"Numeric return code", n>>

Rows(db) == DOMAIN db.tree

----------------------------------------------------------------------------
(* The registry of steps.  Each takes the database inside its transaction. *)

get_version(db) ==
  IF db.user_version > 0 THEN db.user_version ELSE Max(db.schema \union {0})

set_version(db, v) ==
  [db EXCEPT !.user_version = v, !.schema = @ \union {v}]

\* 6 -> 7: the column runner_status appears, 0 for every job.
AddRunnerStatus(db) ==
  [db EXCEPT !.jobs = [j \in DOMAIN db.jobs |-> 0]]

\* 8 -> 9: the number becomes a text, NULL for 0.
RunnerStatusToText(db) ==
  [db EXCEPT !.jobs = [j \in DOMAIN db.jobs |->
     IF db.jobs[j] = 0 THEN NULL ELSE NumericReturnCode(db.jobs[j])]]

\* 9 -> 10, the paths that are gone and the jobs that read or wrote one.
Evicted(db) ==
  {r.job : r \in {q \in Rows(db) : q.access \in {1, 2} /\ ws[q.file] = "gone"}}

\* Foreign keys are off in the tool: deleting a job leaves its rows behind.
\* Variant: the filetree is left out of the sweep.
CleanupButTree(db, kept) ==
  [db EXCEPT !.log = @ \intersect kept,
             !.tags = @ \intersect kept,
             !.unhashed = @ \intersect kept]

Cleanup(db, kept) ==
  [db EXCEPT !.tree = [r \in {q \in Rows(db) : q.job \in kept} |-> db.tree[r]],
             !.log = @ \intersect kept,
             !.tags = @ \intersect kept,
             !.unhashed = @ \intersect kept]

TypeOf(file, f) ==
  IF file.dirhash THEN "directory" ELSE IF ws[f] = "symlink" THEN "symlink" ELSE "file"

BackfillTypes(db) ==
  LET kept == DOMAIN db.jobs \ Evicted(db)
      typed == [f \in DOMAIN db.files |->
                  IF ws[f] = "gone" THEN db.files[f]
                  ELSE [db.files[f] EXCEPT !.type = TypeOf(db.files[f], f)]]
  IN Cleanup([db EXCEPT !.files = typed, !.jobs = [j \in kept |-> @[j]]], kept)

\* 12 -> 13: the time of modification moves from the file to its rows.
ModifiedToFiletree(db) ==
  [db EXCEPT
     !.tree = [r \in {q \in Rows(db) : q.file \in DOMAIN db.files} |-> db.files[r.file].modified],
     !.files = [f \in DOMAIN db.files |-> [db.files[f] EXCEPT !.modified = 0]]]

\* Steps whose columns and indexes are below this abstraction: 7 -> 8 adds an
\* index, 11 -> 12 drops the stale column, 13 -> 14 adds a table only live
\* runs fill, 14 -> 15 a flag that is 0 for every file.
Restructure(db) == db

\* 10 -> 11 and 15 -> 16 have no conversion and always fail.
Unsupported == {10, 15}

migrate_func(v, db) ==
  CASE v = 6  -> AddRunnerStatus(db)
    [] v = 8  -> RunnerStatusToText(db)
    [] v = 9  -> BackfillTypes(db)
    [] v = 12 -> ModifiedToFiletree(db)
    [] OTHER  -> Restructure(db)

----------------------------------------------------------------------------
(* The tool.  tool.inode is its open database, tool.locked its exclusive   *)
(* lock, tool.at the version the clone has reached.                        *)

Idle(exit) == [pc |-> "idle", inode |-> 0, locked |-> FALSE, at |-> 0,
               target |-> tool.target, exit |-> exit]

Init ==
  /\ fs = [p \in Path |-> IF p = "wake.db" THEN 1 ELSE 0]
  /\ \E db \in Found : disk = [i \in Inode |-> db]
  /\ ws \in Workspaces
  /\ \E t \in Targets : tool = [pc |-> "idle", inode |-> 0, locked |-> FALSE, at |-> 0,
                                target |-> t, exit |-> "none"]
  /\ conn = [w \in Wake |-> 0]
  /\ tries = 0

\* sqlite3_open_v2 without the CREATE flag.
OpenDatabase ==
  /\ tool.pc = "idle" /\ tries < MaxTries
  /\ tries' = tries + 1
  /\ tool' = IF fs["wake.db"] = 0 THEN Idle("failed")
             ELSE [tool EXCEPT !.pc = "opened", !.inode = fs["wake.db"], !.exit = "none"]
  /\ UNCHANGED <<fs, disk, ws, conn>>

\* PRAGMA locking_mode=EXCLUSIVE, then the checkpoint and the three checks of
\* the version.
TakeExclusive ==
  /\ tool.pc = "opened"
  /\ LET v == get_version(disk[tool.inode]) IN
     tool' = IF \E w \in Wake : conn[w] = tool.inode THEN Idle("failed")
             ELSE IF v = tool.target THEN Idle("up to date")
             ELSE IF v > tool.target \/ v < 6 THEN Idle("refused")
             ELSE [tool EXCEPT !.pc = "clone", !.locked = TRUE, !.at = v]
  /\ UNCHANGED <<fs, disk, ws, conn, tries>>

\* remove_with_aux(migrated_path): what every failure of the copy ends in.
GiveUp ==
  /\ fs' = [fs EXCEPT !["migrated"] = 0]
  /\ tool' = Idle("failed")

\* The clone goes into a new file, or over what a crash left there.
Clone ==
  /\ tool.pc = "clone"
  /\ \/ LET fresh == IF fs["migrated"] # 0 THEN fs["migrated"] ELSE tries + 1 IN
        /\ fs' = [fs EXCEPT !["migrated"] = fresh]
        /\ disk' = [disk EXCEPT ![fresh] = disk[tool.inode]]
        /\ tool' = [tool EXCEPT !.pc = "copy"]
     \/ GiveUp /\ UNCHANGED disk
  /\ UNCHANGED <<ws, conn, tries>>

\* One step of the registry in its transaction: it commits with its version
\* stamp, or rolls back and ends the migration.
ApplyStep ==
  /\ tool.pc = "copy" /\ tool.at < tool.target
  /\ \/ /\ tool.at \notin Unsupported
        /\ disk' = [disk EXCEPT ![fs["migrated"]] =
                      set_version(migrate_func(tool.at, @), tool.at + 1)]
        /\ tool' = [tool EXCEPT !.at = @ + 1]
        /\ UNCHANGED fs
     \/ GiveUp /\ UNCHANGED disk
  /\ UNCHANGED <<ws, conn, tries>>

\* The schema, the integrity check and the checkpoint of the clone, then the
\* close of the original, which drops the lock.
FinishCopy ==
  /\ tool.pc = "copy" /\ tool.at = tool.target
  /\ \/ /\ disk' = [disk EXCEPT ![fs["migrated"]] = set_version(@, tool.target)]
        /\ tool' = [tool EXCEPT !.pc = "move", !.locked = FALSE, !.inode = 0]
        /\ UNCHANGED fs
     \/ GiveUp /\ UNCHANGED disk
  /\ UNCHANGED <<ws, conn, tries>>

\* Variant: the clone replaces the original, which is not kept.
move_to_backup_nothing ==
  /\ tool.pc = "move"
  /\ fs' = [fs EXCEPT !["wake.db"] = 0]
  /\ tool' = [tool EXCEPT !.pc = "install"]
  /\ UNCHANGED <<disk, ws, conn, tries>>

move_to_backup ==
  /\ tool.pc = "move"
  /\ \/ /\ fs["wake.db"] # 0
        /\ fs' = [fs EXCEPT !["backup"] = fs["wake.db"], !["wake.db"] = 0]
        /\ tool' = [tool EXCEPT !.pc = "install"]
     \/ GiveUp
  /\ UNCHANGED <<disk, ws, conn, tries>>

\* The second rename; when it fails both files stay and the tool prints how
\* to recover.
Install ==
  /\ tool.pc = "install"
  /\ \/ /\ fs' = [fs EXCEPT !["wake.db"] = fs["migrated"], !["migrated"] = 0]
        /\ tool' = Idle("completed")
     \/ tool' = Idle("failed") /\ UNCHANGED fs
  /\ UNCHANGED <<disk, ws, conn, tries>>

\* The tool is killed: its lock goes with it, its files stay.
Crash ==
  /\ tool.pc # "idle"
  /\ tool' = Idle("crashed")
  /\ UNCHANGED <<fs, disk, ws, conn, tries>>

\* The user follows the recovery line: mv wake.db.backup wake.db.
Recover ==
  /\ tool.pc = "idle" /\ fs["wake.db"] = 0 /\ fs["backup"] # 0
  /\ fs' = [fs EXCEPT !["wake.db"] = fs["backup"], !["backup"] = 0]
  /\ UNCHANGED <<disk, ws, tool, conn, tries>>

----------------------------------------------------------------------------
(* The wake processes.                                                     *)

\* What a database of release r holds for a finished job that wrote NewFile.
AddJob(db, r) ==
  LET row == [job |-> NewJob, file |-> NewFile, access |-> 2]
      status == IF r < 9 THEN 0 ELSE NULL
      file == [type |-> IF r < 10 THEN "" ELSE "file", dirhash |-> FALSE,
               modified |-> IF r < 13 THEN 1 ELSE 0]
  IN [db EXCEPT !.jobs = (NewJob :> status) @@ @,
                !.files = (NewFile :> file) @@ @,
                !.tree = (row :> IF r < 13 THEN 0 ELSE 1) @@ @,
                !.log = @ \union {NewJob}]

\* Database::open of a wake of release r: refused while the tool holds its
\* lock, refused for another version, the schema applied to an empty database.
Open(w, r) ==
  /\ Heeds => tool.pc = "idle"
  /\ conn[w] = 0 /\ fs["wake.db"] # 0
  /\ ~(tool.locked /\ tool.inode = fs["wake.db"])
  /\ get_version(disk[fs["wake.db"]]) \in {0, r}
  /\ conn' = [conn EXCEPT ![w] = fs["wake.db"]]
  /\ disk' = [disk EXCEPT ![fs["wake.db"]] = set_version(@, r)]
  /\ UNCHANGED <<fs, ws, tool, tries>>

\* A build: the job's rows go to the file the process has open, whatever its
\* name is by then.  The job's output is in the workspace.
Build(w) ==
  /\ conn[w] # 0
  /\ NewJob \notin DOMAIN disk[conn[w]].jobs
  /\ disk' = [disk EXCEPT ![conn[w]] = AddJob(@, get_version(@))]
  /\ ws' = [ws EXCEPT ![NewFile] = "file"]
  /\ UNCHANGED <<fs, tool, conn, tries>>

Close(w) ==
  /\ conn[w] # 0
  /\ conn' = [conn EXCEPT ![w] = 0]
  /\ UNCHANGED <<fs, disk, ws, tool, tries>>

Next ==
  \/ OpenDatabase \/ TakeExclusive \/ Clone \/ ApplyStep \/ FinishCopy
  \/ move_to_backup \/ Install \/ Crash \/ Recover
  \/ \E w \in Wake : Build(w) \/ Close(w) \/ \E r \in Releases : Open(w, r)

Spec == Init /\ [][Next]_vars

----------------------------------------------------------------------------
(* What the migration promises.                                            *)

Failed(db, j) == IF get_version(db) < 7 THEN FALSE
                 ELSE IF get_version(db) < 9 THEN db.jobs[j] # 0 ELSE db.jobs[j] # NULL

Modified(db, r) == IF get_version(db) < 13 THEN db.files[r.file].modified ELSE db.tree[r]

Crossed(a, b, v) == get_version(a) <= v /\ get_version(b) > v

\* The jobs of a that survive a migration to b.
Survivors(a, b) ==
  IF Crossed(a, b, 9)
    THEN {j \in DOMAIN a.jobs : \A r \in Rows(a) :
            r.job = j /\ r.access \in {1, 2} => ws[r.file] # "gone"}
    ELSE DOMAIN a.jobs

\* b says of every surviving job what a said, and nothing of any other job.
SaysTheSame(a, b) ==
  LET kept == Survivors(a, b) IN
  /\ DOMAIN b.jobs = kept
  /\ \A j \in kept : Failed(a, j) = Failed(b, j)
  /\ Rows(b) = {r \in Rows(a) : r.job \in kept}
  /\ \A r \in Rows(b) : Modified(a, r) = Modified(b, r)
  /\ b.log = a.log \intersect kept /\ b.tags = a.tags \intersect kept
  /\ b.unhashed = a.unhashed \intersect kept
  /\ Crossed(a, b, 9) => \A r \in Rows(b) :
       r.access \in {1, 2} => b.files[r.file].type = ws[r.file]

\* What a migration installs as wake.db says of the jobs what the database in
\* the backup says, less the jobs whose files are gone: no orphan row, no
\* build lost on the way, no failure turned into a success (get_migrations,
\* the lock and the order of the steps in main).
MigrationIsFaithful ==
  /\ tool.pc = "install" => SaysTheSame(disk[fs["backup"]], disk[fs["migrated"]])
  /\ tool.exit = "completed" /\ NewJob \notin DOMAIN disk[fs["wake.db"]].jobs
       => SaysTheSame(disk[fs["backup"]], disk[fs["wake.db"]])

\* No crash and no failure of the tool loses a build: every job of the
\* database the tool was given, and of any database a wake has open, is in a
\* file under the name wake.db or the name of the backup, unless the step
\* 9 -> 10 evicted it (main, move_to_backup, remove_with_aux).
OriginalSurvives ==
  \A i \in ({1} \union {conn[w] : w \in Wake}) \ {0} :
    \E p \in {"wake.db", "backup"} :
      /\ fs[p] # 0
      /\ Survivors(disk[i], disk[fs[p]]) \subseteq DOMAIN disk[fs[p]].jobs

\* Database::open tells the user of an older database to "run 'wake-migrate
\* wake.db' to upgrade it": some run of the tool that meets no failure of the
\* system gets past every step.
MigrationIsSupported ==
  tool.pc = "copy" /\ tool.at < tool.target => tool.at \notin Unsupported
=============================================================================
