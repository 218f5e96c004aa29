------------------------------- MODULE Inspect -------------------------------
(***************************************************************************)
(* Queries over the build database: build_query_filters and the functions  *)
(* beside it in tools/wake/main.cpp, and Database::matching with what it   *)
(* uses in src/runtime/database.cpp.                                       *)
(*                                                                         *)
(* A row of jobs is a record: run, label, hidden, tags, inputs, outputs,   *)
(* starttime, stat (whether it has a row in stats), status and             *)
(* runner_status.  A pattern is a record: the strings it matches, and      *)
(* whether it starts with "!".  A group is a set of patterns given in one  *)
(* option, separated by commas; an option may be repeated.                 *)
(***************************************************************************)
EXTENDS Integers, FiniteSets, FiniteSetsExt

CONSTANT NULL

\* `lhs like pattern` or `lhs not like pattern`; neither holds of NULL.
make_like_query(lhs, p) == lhs # NULL /\ ((lhs \in p.matches) # p.negate)

\* One column against the groups of an option: repeated options are joined by
\* AND, the patterns of one by OR.
make_and_group(groups, lhs) == \A g \in groups : \E p \in g : make_like_query(lhs, p)

\* The tags of a job are one string with every tag between delimiters, or
\* NULL for a job without tags.
TagsLike(tags, p) == tags # {} /\ ((tags \cap p.matches # {}) # p.negate)

\* The files of a job: some row of filetree meets every group at once.
FilesMatch(groups, files) == groups # {} => \E f \in files : make_and_group(groups, f)

hide_internal_jobs(j) == ~j.hidden

\* The last run that has an end time; crashed runs that were reaped have one.
LastEnded(runs) ==
  LET ended == {r \in DOMAIN runs : runs[r].end_time # NULL}
  IN  IF ended = {} THEN NULL ELSE Max(ended)

\* (mutant of UnfinishedFilters) --active takes any run that has no end time.
UnfinishedFiltersOpen(flags, live, runs, j) ==
  LET open == {r \in DOMAIN runs : runs[r].end_time = NULL}
  IN  flags \cap {"canceled", "active", "queued", "in-flight", "ps"} # {} =>
        /\ ~j.stat
        /\ "canceled" \in flags => j.run \notin live
        /\ "active" \in flags => j.starttime # 0 /\ j.run \in open
        /\ "queued" \in flags => j.starttime = 0 /\ j.run \in live
        /\ flags \cap {"in-flight", "ps"} # {} => j.run \in live

\* Filters on unfinished jobs.  `live` is what get_live_run_ids returned, in
\* a transaction of its own before this query.
UnfinishedFilters(flags, live, runs, j) ==
  flags \cap {"canceled", "active", "queued", "in-flight", "ps"} # {} =>
    /\ ~j.stat
    /\ "canceled" \in flags => j.run \notin live
    /\ "active" \in flags => j.starttime # 0 /\ j.run \in live
    /\ "queued" \in flags => j.starttime = 0 /\ j.run \in live
    /\ flags \cap {"in-flight", "ps"} # {} => j.run \in live

\* build_query_filters, applied to one row.
build_query_filters(q, flags, live, runs, id, j) ==
  /\ make_and_group(q.jobs, id)
  /\ make_and_group(q.labels, j.label)
  /\ \A g \in q.tags : \E p \in g : TagsLike(j.tags, p)
  /\ "last-executed" \in flags => LastEnded(runs) # NULL /\ j.run = LastEnded(runs)
  /\ "last" \in flags => LastEnded(runs) # NULL /\ id \in runs[LastEnded(runs)].run_jobs
  /\ "failed" \in flags => (j.stat /\ j.status # 0) \/ j.runner_status # NULL
  /\ UnfinishedFilters(flags, live, runs, j)
  /\ "include-hidden" \notin flags => hide_internal_jobs(j)

\* Database::matching: the ids the filters let through, files included.
matching(q, flags, live, runs, jobs) ==
  {id \in DOMAIN jobs :
     /\ build_query_filters(q, flags, live, runs, id, jobs[id])
     /\ FilesMatch(q.inputs, jobs[id].inputs)
     /\ FilesMatch(q.outputs, jobs[id].outputs)}

\* Database::matching_open_runs: of those, the unfinished jobs a run without
\* an end time uses, each with that run.
matching_open_runs(q, flags, live, runs, jobs) ==
  {<<r, id>> \in (DOMAIN runs) \X matching(q, flags, live, runs, jobs) :
     runs[r].end_time = NULL /\ id \in runs[r].run_jobs /\ ~jobs[id].stat}

\* get_live_run_ids: runs without an end time whose lock is held.
get_live_run_ids(runs, locked) ==
  {r \in DOMAIN runs : runs[r].end_time = NULL /\ r \in locked}

\* What --history says of a run: the row is from get_runs, the lock is probed
\* afterwards.
query_runs(row, locked) ==
  IF row.end_time = NULL /\ locked THEN "running"
  ELSE IF row.end_time = NULL \/ row.end_time < 0 THEN "crashed"
  ELSE "ended"
=============================================================================
