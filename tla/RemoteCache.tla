---------------------------- MODULE RemoteCache ----------------------------
(***************************************************************************)
(* The remote shared cache: the server (rust/rsc), its Postgres tables and *)
(* its local blob store on one side, the runner of the wake library        *)
(* (remote_cache_runner.wake, remote_cache_api.wake) on the other.         *)
(*                                                                         *)
(* A wake job has at most one request in flight.  The handler of a request *)
(* takes one step per database statement or file, as it awaits each, and   *)
(* interleaves with the other handlers and with the eviction tasks.  A     *)
(* statement, and the transaction of add_job, is atomic; the transaction   *)
(* of read_job is not, as each of its statements has a snapshot of its own *)
(* (READ COMMITTED, the default of Postgres).                              *)
(*                                                                         *)
(* A job has one output file, kept in the local store, and one standard    *)
(* output, small and so kept in its database row; stderr is handled like   *)
(* stdout.  Every execution of a command produces another file (commands   *)
(* are not reproducible in general) and, for one key, the same text.       *)
(***************************************************************************)
EXTENDS Naturals, FiniteSets, Functions

CONSTANTS Jobs,         \* wake jobs of one workspace
          Key,          \* [Jobs -> keys]: the hash of what a job depends on
          Policy,       \* [Jobs -> {"pull", "push", "pushpull"}]
          Invocation,   \* [Jobs -> wake invocations]
          Chunk,        \* blobs that one eviction statement deletes
          MaxFaults     \* errors, crashes and interventions that may happen

ASSUME RemoteAssumption ==
  /\ IsFiniteSet(Jobs) /\ DOMAIN Key = Jobs /\ DOMAIN Invocation = Jobs
  /\ Policy \in [Jobs -> {"pull", "push", "pushpull"}]
  /\ Chunk \in Nat \ {0} /\ MaxFaults \in Nat

VARIABLES pc,       \* where the runner of each job is
          push,     \* the job may be uploaded after it ran
          req,      \* the request in flight of each job, with its handler's state
          ids,      \* the blob ids that a job's uploads have returned
          got,      \* what the job has downloaded and verified
          result,   \* the outputs the job ended with
          ran,      \* the command was executed
          virtual,  \* the job was completed from the cache
          sentinel, \* the invocation whose id .build/tmp/disable_remote_cache holds
          blob,     \* table blob, by id
          jobRow,   \* tables job and output_file, by the unique hash
          disk,     \* files of the local blob store, by key
          evict,    \* the ids that the eviction statement in progress has chosen
          remove,   \* files that the tasks spawned by eviction are to delete
          faults    \* faults so far

client == <<pc, push, ids, got, result, ran, virtual>>
tables == <<blob, jobRow>>
vars == <<client, req, sentinel, tables, disk, evict, remove, faults>>

None == <<>>
Torn == <<"torn">>
Idle == [route |-> "idle"]
Parts == {"file", "stdout"}

\* What running the command of j writes: a file of its own, and the text of its key.
Output(j) == [file |-> j, stdout |-> Key[j]]

CanPush(j) == Policy[j] \in {"push", "pushpull"}
CanPull(j) == Policy[j] \in {"pull", "pushpull"}

Init ==
  /\ pc = [j \in Jobs |-> "start"] /\ push = [j \in Jobs |-> FALSE]
  /\ req = [j \in Jobs |-> Idle]
  /\ ids = [j \in Jobs |-> <<>>] /\ got = [j \in Jobs |-> <<>>]
  /\ result = [j \in Jobs |-> <<>>]
  /\ ran = [j \in Jobs |-> FALSE] /\ virtual = [j \in Jobs |-> FALSE]
  /\ sentinel = None
  /\ blob = <<>> /\ jobRow = <<>> /\ disk = <<>>
  /\ evict = {} /\ remove = {} /\ faults = 0

Fault == faults < MaxFaults /\ faults' = faults + 1

-----------------------------------------------------------------------------
(* The runner *)

\* guardRemoteCacheDisabled: only the invocation that wrote the sentinel heeds it.
Disabled(j) == sentinel = Invocation[j]

Send(j, r) == req' = [req EXCEPT ![j] = r]

\* The server has answered.
Answered(j, route) == req[j].route = route /\ req[j].step = "answer"

\* run up to the lookup.  hashFn may fail, which ends the job; a guard that
\* refuses counts as a failed lookup: the job runs and is not uploaded.
Begin(j) ==
  /\ pc[j] = "start"
  /\ \/ Fault /\ pc' = [pc EXCEPT ![j] = "failed"] /\ UNCHANGED <<push, req>>
     \/ /\ ~CanPull(j)
        /\ pc' = [pc EXCEPT ![j] = "run"] /\ push' = [push EXCEPT ![j] = TRUE]
        /\ UNCHANGED <<req, faults>>
     \/ /\ CanPull(j) /\ Disabled(j)
        /\ pc' = [pc EXCEPT ![j] = "run"] /\ UNCHANGED <<push, req, faults>>
     \/ /\ CanPull(j) /\ ~Disabled(j)
        /\ pc' = [pc EXCEPT ![j] = "find"]
        /\ Send(j, [route |-> "matching", step |-> "job"])
        /\ UNCHANGED <<push, faults>>
  /\ UNCHANGED <<ids, got, result, ran, virtual, sentinel, tables, disk, evict, remove>>

\* cacheLookupSucceeded and cacheLookupFailed.
Found(j) ==
  /\ pc[j] = "find" /\ Answered(j, "matching")
  /\ LET a == req[j].answer IN
       /\ pc' = [pc EXCEPT ![j] = IF a.status = "match" THEN "download" ELSE "run"]
       /\ push' = [push EXCEPT ![j] = a.status = "nomatch"]
       /\ got' = [got EXCEPT ![j] = IF a.status = "match" THEN a ELSE <<>>]
  /\ Send(j, Idle)
  /\ UNCHANGED <<ids, result, ran, virtual, sentinel, tables, disk, evict, remove, faults>>

\* Mutant: what arrives is taken as it is.
verifyNothing(bytes, contentHash) == TRUE

\* verifyBlobHash: the hash of the bytes at hand against the one the server sent.
verifyBlobHash(bytes, contentHash) == bytes = contentHash

\* Everything a match names, downloaded and verified.  A file:// url reads the
\* file of the store as it is now; the bytes of a db:// url are in the url.
Downloads(a) ==
  /\ a.file = None \/ (a.file.url \in DOMAIN disk
                       /\ verifyBlobHash(disk[a.file.url], a.file.hash))
  /\ verifyBlobHash(a.stdout.url, a.stdout.hash)

\* The first half of rehydrateJob: nothing is written to the workspace unless
\* every blob has arrived.  If one has not the job runs, and is not uploaded.
Download(j) ==
  /\ pc[j] = "download"
  /\ LET a == got[j] IN
       IF Downloads(a)
         THEN /\ pc' = [pc EXCEPT ![j] = "materialize"]
              /\ got' = [got EXCEPT ![j] =
                   [file |-> IF a.file = None THEN None ELSE disk[a.file.url],
                    stdout |-> a.stdout.url, of |-> a.of]]
         ELSE pc' = [pc EXCEPT ![j] = "run"] /\ got' = [got EXCEPT ![j] = <<>>]
  /\ UNCHANGED <<push, req, ids, result, ran, virtual, sentinel, tables, disk, evict, remove, faults>>

\* The second half: directories, files, symlinks, and only then the virtual job.
Materialize(j) ==
  /\ pc[j] = "materialize"
  /\ \/ /\ pc' = [pc EXCEPT ![j] = "done"]
        /\ virtual' = [virtual EXCEPT ![j] = TRUE]
        /\ result' = [result EXCEPT ![j] = got[j]]
        /\ UNCHANGED faults
     \/ Fault /\ pc' = [pc EXCEPT ![j] = "run"] /\ UNCHANGED <<virtual, result>>
  /\ got' = [got EXCEPT ![j] = <<>>]
  /\ UNCHANGED <<push, req, ids, ran, sentinel, tables, disk, evict, remove>>

\* baseDoIt, and runJobAndUpload up to its question.  A failed command is not uploaded.
Run(j) ==
  /\ pc[j] = "run"
  /\ ran' = [ran EXCEPT ![j] = TRUE] /\ result' = [result EXCEPT ![j] = Output(j)]
  /\ \/ Fault /\ pc' = [pc EXCEPT ![j] = "done"] /\ UNCHANGED req
     \/ /\ ~(push[j] /\ CanPush(j) /\ ~Disabled(j))
        /\ pc' = [pc EXCEPT ![j] = "done"] /\ UNCHANGED <<req, faults>>
     \/ /\ push[j] /\ CanPush(j) /\ ~Disabled(j)
        /\ pc' = [pc EXCEPT ![j] = "allow"]
        /\ Send(j, [route |-> "allowed", step |-> "job"]) /\ UNCHANGED faults
  /\ UNCHANGED <<push, ids, got, virtual, sentinel, tables, disk, evict, remove>>

\* rscApiCheckJobAllowed: anything but a status of 2xx means no.
Allowed(j) ==
  /\ pc[j] = "allow" /\ Answered(j, "allowed")
  /\ pc' = [pc EXCEPT ![j] = IF req[j].answer.status = "ok" THEN "upload" ELSE "done"]
  /\ Send(j, Idle)
  /\ UNCHANGED <<push, ids, got, result, ran, virtual, sentinel, tables, disk, evict, remove, faults>>

\* postJob uploads each part in a request of its own, in any order; a part that
\* is refused by the guard does not stop the others.
UploadBlob(j, p) ==
  /\ pc[j] = "upload" /\ req[j] = Idle /\ p \notin DOMAIN ids[j]
  /\ IF Disabled(j)
       THEN ids' = [ids EXCEPT ![j] = [q \in DOMAIN @ \cup {p} |-> IF q = p THEN None ELSE @[q]]]
            /\ UNCHANGED req
       ELSE Send(j, [route |-> "blob", step |-> "stream", part |-> p]) /\ UNCHANGED ids
  /\ UNCHANGED <<pc, push, got, result, ran, virtual, sentinel, tables, disk, evict, remove, faults>>

\* The end of uploadBlobRequest: the id, or none for anything but a 200.
Uploaded(j) ==
  /\ pc[j] = "upload" /\ Answered(j, "blob")
  /\ ids' = [ids EXCEPT ![j] = [q \in DOMAIN @ \cup {req[j].part} |->
                                  IF q = req[j].part THEN req[j].answer.id ELSE @[q]]]
  /\ Send(j, Idle)
  /\ UNCHANGED <<pc, push, got, result, ran, virtual, sentinel, tables, disk, evict, remove, faults>>

\* rscApiPostJob, once every upload has returned; without all ids there is no post.
PostJob(j) ==
  /\ pc[j] = "upload" /\ req[j] = Idle /\ DOMAIN ids[j] = Parts
  /\ IF None \in Range(ids[j]) \/ Disabled(j)
       THEN pc' = [pc EXCEPT ![j] = "done"] /\ UNCHANGED req
       ELSE pc' = [pc EXCEPT ![j] = "post"] /\ Send(j, [route |-> "job", step |-> "insert"])
  /\ UNCHANGED <<push, ids, got, result, ran, virtual, sentinel, tables, disk, evict, remove, faults>>

\* Nobody waits for the outcome of the post.
Posted(j) ==
  /\ pc[j] = "post" /\ Answered(j, "job")
  /\ pc' = [pc EXCEPT ![j] = "done"] /\ Send(j, Idle)
  /\ UNCHANGED <<push, ids, got, result, ran, virtual, sentinel, tables, disk, evict, remove, faults>>

\* What the caller of a request that failed makes of it.
GiveUp(j) ==
  CASE pc[j] = "find" -> pc' = [pc EXCEPT ![j] = "run"] /\ UNCHANGED ids
    [] pc[j] = "upload" -> /\ ids' = [ids EXCEPT ![j] = [q \in DOMAIN @ \cup {req[j].part} |->
                                           IF q = req[j].part THEN None ELSE @[q]]]
                           /\ UNCHANGED pc
    [] OTHER -> pc' = [pc EXCEPT ![j] = "done"] /\ UNCHANGED ids

\* curl exits with 28 before or after the handler is through, and
\* matchRequestResult disables the cache for this invocation.  The handler is
\* dropped where it stands.
Timeout(j) ==
  /\ req[j] # Idle
  /\ GiveUp(j)
  /\ sentinel' = Invocation[j]
  /\ Send(j, Idle)
  /\ UNCHANGED <<push, got, result, ran, virtual, tables, disk, evict, remove, faults>>

-----------------------------------------------------------------------------
(* The handlers *)

Handler(j, route, step) == req[j].route = route /\ req[j].step = step

Answer(j, a) == req' = [req EXCEPT ![j] =
                  [x \in DOMAIN @ \cup {"answer"} |->
                     CASE x = "answer" -> a [] x = "step" -> "answer" [] OTHER -> @[x]]]

\* References to a blob: foreign keys of output_file and job, on delete restrict.
Referenced(rows) == UNION {{rows[k].file, rows[k].stdout} : k \in DOMAIN rows}

\* read_job, first statement: the job by its hash.
ReadJob(j) ==
  /\ Handler(j, "matching", "job")
  /\ IF Key[j] \in DOMAIN jobRow
       THEN Send(j, [route |-> "matching", step |-> "outputs",
                     of |-> jobRow[Key[j]].by, stdout |-> jobRow[Key[j]].stdout])
       ELSE Answer(j, [status |-> "nomatch"])
  /\ UNCHANGED <<client, sentinel, tables, disk, evict, remove, faults>>

\* read_job, second statement: the outputs of that job.  They were deleted with
\* the job (on delete cascade) if it has gone since.
ReadOutputs(j) ==
  /\ Handler(j, "matching", "outputs")
  /\ LET k == Key[j]
         there == k \in DOMAIN jobRow /\ jobRow[k].by = req[j].of
     IN Send(j, [route |-> "matching", step |-> "resolve", of |-> req[j].of,
                 stdout |-> req[j].stdout, file |-> IF there THEN jobRow[k].file ELSE None])
  /\ UNCHANGED <<client, sentinel, tables, disk, evict, remove, faults>>

\* A blob as a match describes it: a url, and the content hash of its row.
Resolved(id) == [url |-> blob[id].key, hash |-> blob[id].hash]

\* resolve_blobs, outside the transaction: a blob that is gone makes it a miss.
ResolveBlobs(j) ==
  /\ Handler(j, "matching", "resolve")
  /\ LET f == req[j].file
         s == req[j].stdout
     IN IF ({f, s} \ {None}) \subseteq DOMAIN blob
          THEN Answer(j, [status |-> "match", of |-> req[j].of, stdout |-> Resolved(s),
                          file |-> IF f = None THEN None ELSE Resolved(f)])
          ELSE Answer(j, [status |-> "nomatch"])
  /\ UNCHANGED <<client, sentinel, tables, disk, evict, remove, faults>>

\* allow_job: too short, shed under load, cached already, or welcome.
AllowJob(j) ==
  /\ Handler(j, "allowed", "job")
  /\ \E refused \in BOOLEAN :
       Answer(j, [status |-> IF refused \/ Key[j] \in DOMAIN jobRow THEN "refused" ELSE "ok"])
  /\ UNCHANGED <<client, sentinel, tables, disk, evict, remove, faults>>

\* create_blob up to the end of stream.  The local store writes a file under a
\* random name; the database store turns the bytes into the key.
StreamBlob(j) ==
  /\ Handler(j, "blob", "stream")
  /\ req' = [req EXCEPT ![j].step = "upsert"]
  /\ disk' = IF req[j].part = "file" THEN [k \in DOMAIN disk \cup {j} |-> IF k = j THEN j ELSE disk[k]]
                                     ELSE disk
  /\ UNCHANGED <<client, sentinel, tables, evict, remove, faults>>

\* upsert_blob: a row with the same key of the same store is refreshed and its
\* id returned; the files of the local store never meet one.
UpsertBlob(j) ==
  /\ Handler(j, "blob", "upsert")
  /\ LET p == req[j].part
         content == Output(j)[p]
         same == {i \in DOMAIN blob : i[1] = p /\ blob[i].key = content}
         id == IF same = {} THEN <<p, j>> ELSE CHOOSE i \in same : TRUE
         hash == IF same = {} THEN content ELSE blob[id].hash
     IN /\ blob' = [i \in DOMAIN blob \cup {id} |->
                      IF i = id THEN [key |-> content, hash |-> hash, old |-> FALSE] ELSE blob[i]]
        /\ Answer(j, [status |-> "ok", id |-> id])
  /\ UNCHANGED <<client, sentinel, jobRow, disk, evict, remove, faults>>

\* add_job, one transaction: it fails on a hash that is there (unique) and on a
\* blob that is not (foreign key), and inserts the job with its outputs otherwise.
AddJob(j) ==
  /\ Handler(j, "job", "insert")
  /\ LET k == Key[j]
         fits == k \notin DOMAIN jobRow /\ Range(ids[j]) \subseteq DOMAIN blob
     IN /\ jobRow' = IF fits
                       THEN [h \in DOMAIN jobRow \cup {k} |-> IF h # k THEN jobRow[h]
                               ELSE [by |-> j, file |-> ids[j].file, stdout |-> ids[j].stdout, old |-> FALSE]]
                       ELSE jobRow
        /\ Answer(j, [status |-> IF fits THEN "ok" ELSE "error"])
  /\ UNCHANGED <<client, sentinel, blob, disk, evict, remove, faults>>

\* A handler fails: no valid api key, a stream that breaks, a database error.
\* read_job calls that a miss, the others answer 4xx or 5xx.
HandlerFails(j) ==
  /\ req[j] # Idle /\ req[j].step # "answer"
  /\ Fault
  /\ Answer(j, IF req[j].route = "matching" THEN [status |-> "nomatch"]
                                            ELSE [status |-> "error", id |-> None])
  /\ UNCHANGED <<client, sentinel, tables, disk, evict, remove>>

-----------------------------------------------------------------------------
(* Eviction and intervention *)

\* The time to live of a row has passed since its last update.
BlobAges(i) ==
  /\ i \in DOMAIN blob /\ ~blob[i].old
  /\ blob' = [blob EXCEPT ![i].old = TRUE]
  /\ UNCHANGED <<client, req, sentinel, jobRow, disk, evict, remove, faults>>

JobAges(k) ==
  /\ k \in DOMAIN jobRow /\ ~jobRow[k].old
  /\ jobRow' = [jobRow EXCEPT ![k].old = TRUE]
  /\ UNCHANGED <<client, req, sentinel, blob, disk, evict, remove, faults>>

\* evict_jobs_ttl: every job past its time, outputs included.
EvictJobs ==
  /\ \E k \in DOMAIN jobRow : jobRow[k].old
  /\ jobRow' = Restrict(jobRow, {k \in DOMAIN jobRow : ~jobRow[k].old})
  /\ UNCHANGED <<client, req, sentinel, blob, disk, evict, remove, faults>>

\* delete_job and delete_all_jobs of rsc_tool: one job, or a chunk of them.
RemoveJobs ==
  /\ Fault
  /\ \E ks \in SUBSET DOMAIN jobRow \ {{}} :
       jobRow' = Restrict(jobRow, DOMAIN jobRow \ ks)
  /\ UNCHANGED <<client, req, sentinel, blob, disk, evict, remove>>

\* What delete_unreferenced_blobs may delete.
Eligible == {i \in DOMAIN blob : blob[i].old} \ Referenced(jobRow)

\* The statement chooses its victims in the snapshot it starts with.
EvictScan ==
  /\ evict = {}
  /\ \E s \in SUBSET Eligible \ {{}} :
       /\ Cardinality(s) <= Chunk
       /\ s = Eligible \/ Cardinality(s) = Chunk
       /\ evict' = s
  /\ UNCHANGED <<client, req, sentinel, tables, disk, remove, faults>>

\* Mutant: the files are handed to the tasks before the statement has succeeded.
EvictDeleteFilesFirst ==
  /\ evict # {}
  /\ evict' = {}
  /\ remove' = remove \cup {blob[i].key : i \in {e \in evict : e[1] = "file"}}
  /\ blob' = IF evict \cap Referenced(jobRow) = {}
               THEN Restrict(blob, DOMAIN blob \ evict) ELSE blob
  /\ UNCHANGED <<client, req, sentinel, jobRow, disk, faults>>

\* It deletes them by id, whether or not they were refreshed since; it fails as
\* a whole when one has been referenced.  The loop goes on either way, and files
\* are left to spawned tasks.
EvictDelete ==
  /\ evict # {}
  /\ evict' = {}
  /\ IF evict \cap Referenced(jobRow) = {}
       THEN /\ blob' = Restrict(blob, DOMAIN blob \ evict)
            /\ remove' = remove \cup {blob[i].key : i \in {e \in evict : e[1] = "file"}}
       ELSE UNCHANGED <<blob, remove>>
  /\ UNCHANGED <<client, req, sentinel, jobRow, disk, faults>>

\* delete_key; a file that cannot be deleted is logged as orphaned and left.
RemoveFile(k) ==
  /\ k \in remove
  /\ remove' = remove \ {k}
  /\ \/ disk' = Restrict(disk, DOMAIN disk \ {k}) /\ UNCHANGED faults
     \/ Fault /\ UNCHANGED disk
  /\ UNCHANGED <<client, req, sentinel, tables, evict>>

\* The server or its machine stops and starts again.  Handlers and tasks are
\* gone, a statement in progress is rolled back, and files that were not on disk
\* yet (nothing syncs them) are cut short.
Restart ==
  /\ Fault
  /\ \E t \in SUBSET {k \in DOMAIN disk : <<"file", k>> \in DOMAIN blob => ~blob[<<"file", k>>].old} :
       disk' = [k \in DOMAIN disk |-> IF k \in t THEN Torn ELSE disk[k]]
  /\ req' = [j \in Jobs |->
       IF req[j] = Idle \/ req[j].step = "answer" THEN req[j]
       ELSE [x \in DOMAIN req[j] \cup {"answer"} |->
               CASE x = "answer" -> [status |-> "error", id |-> None]
                 [] x = "step" -> "answer" [] OTHER -> req[j][x]]]
  /\ evict' = {} /\ remove' = {}
  /\ UNCHANGED <<client, sentinel, tables>>

-----------------------------------------------------------------------------
Client(j) ==
  \/ Begin(j) \/ Found(j) \/ Download(j) \/ Materialize(j) \/ Run(j) \/ Allowed(j)
  \/ \E p \in Parts : UploadBlob(j, p)
  \/ Uploaded(j) \/ PostJob(j) \/ Posted(j) \/ Timeout(j)

Server(j) ==
  \/ ReadJob(j) \/ ReadOutputs(j) \/ ResolveBlobs(j) \/ AllowJob(j) \/ StreamBlob(j)
  \/ UpsertBlob(j) \/ AddJob(j) \/ HandlerFails(j)

Eviction ==
  \/ \E i \in Parts \X Jobs : BlobAges(i)
  \/ \E k \in Range(Key) : JobAges(k)
  \/ EvictJobs \/ EvictScan \/ EvictDelete
  \/ \E k \in Jobs : RemoveFile(k)

Next == (\E j \in Jobs : Client(j) \/ Server(j)) \/ Eviction \/ RemoveJobs \/ Restart

Spec == Init /\ [][Next]_vars

-----------------------------------------------------------------------------
(* Properties *)

\* A job in the table can be served: each blob it refers to has a row, and each
\* row of the local store has its file, although uploads, posts and two kinds of
\* eviction interleave.  Files are written before their rows and deleted after.
StoredIsReadable ==
  /\ Referenced(jobRow) \subseteq DOMAIN blob
  /\ \A i \in DOMAIN blob : i[1] = "file" => blob[i].key \in DOMAIN disk

\* What a job takes from the cache is what one execution of a command with its
\* key has produced, whatever was evicted, cut short or posted twice meanwhile:
\* rehydrateJob verifies each blob before it uses any.  Only the file may be
\* missing, when the job was deleted between the statements of read_job.
HitsAreGenuine ==
  \A j \in Jobs : virtual[j] =>
    LET by == result[j].of IN
      /\ Key[by] = Key[j] /\ ran[by]
      /\ result[j].stdout = Output(by).stdout
      /\ \/ result[j].file = Output(by).file
         \/ /\ result[j].file = None
            /\ \A k \in DOMAIN jobRow : jobRow[k].by # by

\* Every job that ends was either executed or completed from the cache, and not
\* both: run falls back to the command only before primJobVirtual.
ResolvedOnce ==
  \A j \in Jobs : pc[j] = "done" => (ran[j] # virtual[j])

\* A hit has all outputs of the job it names: "Fetch the job and related entities
\* in a single transaction" (read_job.rs:143).
HitsAreComplete ==
  \A j \in Jobs : virtual[j] => result[j].file # None

\* A blob that was uploaded or refreshed within the grace period is not deleted:
\* "This gives clients time to reference a blob before it gets evicted"
\* (main.rs:279).
GraceIsHonoured ==
  [][\A i \in DOMAIN blob : ~blob[i].old => i \in DOMAIN blob']_vars
=============================================================================
