------------------------- MODULE RemoteCacheProofs -------------------------
(***************************************************************************)
(* Proofs about RemoteCache, for any set of jobs, keys and policies, and   *)
(* any number of faults.                                                   *)
(*                                                                         *)
(* Two arguments carry them.  The file of a job is uploaded at most once,  *)
(* so a file that eviction has handed to its tasks never gets a row again  *)
(* (FilesKept).  A job that has a row is past its post, so a row that was  *)
(* deleted never comes back, and what a handler of read_job has taken from *)
(* it stays true of the execution it names (Hit, Taken).                   *)
(***************************************************************************)
EXTENDS RemoteCache, TLAPS

-----------------------------------------------------------------------------
(* The protocol between a runner and its handler *)

Domains ==
  /\ DOMAIN pc = Jobs /\ DOMAIN req = Jobs /\ DOMAIN ids = Jobs /\ DOMAIN got = Jobs
  /\ DOMAIN result = Jobs /\ DOMAIN ran = Jobs /\ DOMAIN virtual = Jobs

\* The fields of a request, by its route.
ReqShape(j) ==
  /\ "route" \in DOMAIN req[j]
  /\ req[j].route = "idle" <=> req[j] = Idle
  /\ req[j].route # "idle" => "step" \in DOMAIN req[j]
  /\ req[j].route = "blob" => "part" \in DOMAIN req[j] /\ req[j].part \in Parts

\* Where a runner is says which request it has in flight and what it has done.
Protocol(j) ==
  /\ pc[j] = "find" => req[j].route = "matching"
  /\ pc[j] = "allow" => req[j].route = "allowed"
  /\ pc[j] = "upload" => req[j].route \in {"idle", "blob"}
  /\ pc[j] = "post" => req[j].route = "job"
  /\ pc[j] \notin {"find", "allow", "upload", "post"} => req[j].route = "idle"
  /\ pc[j] \in {"allow", "upload", "post"} => ran[j] = TRUE
  /\ pc[j] = "post" => DOMAIN ids[j] = Parts /\ None \notin Range(ids[j])
  /\ req[j].route = "blob" => req[j].part \notin DOMAIN ids[j]
  /\ virtual[j] => pc[j] = "done"

ProtocolInv == Domains /\ \A j \in Jobs : ReqShape(j) /\ Protocol(j)

-----------------------------------------------------------------------------
(* Rows and files *)

\* The id of a row with the text of key k.
TextOf(id, k) == \E x \in Jobs : id = <<"stdout", x>> /\ Key[x] = k

\* What an upload may have returned for a part.
IdFits(id, p, j) ==
  \/ id = None
  \/ p = "file" /\ id = <<"file", j>>
  \/ p = "stdout" /\ TextOf(id, Key[j])

IdsFit(j) ==
  /\ \A p \in DOMAIN ids[j] : IdFits(ids[j][p], p, j)
  /\ req[j].route = "blob" /\ req[j].step = "answer" => IdFits(req[j].answer.id, req[j].part, j)

\* The key of a row is the hash of its content, the one of the job that made it.
BlobsFit ==
  \A i \in DOMAIN blob :
    /\ blob[i] \in [key : Jobs \cup Range(Key), hash : Jobs \cup Range(Key), old : BOOLEAN]
    /\ blob[i].hash = blob[i].key
    /\ \/ \E x \in Jobs : i = <<"file", x>> /\ blob[i].key = x
       \/ \E x \in Jobs : i = <<"stdout", x>> /\ blob[i].key = Key[x]

\* The file of j has not had a row so far.
Fresh(j) ==
  /\ "file" \notin DOMAIN ids[j]
  /\ ~(req[j].route = "blob" /\ req[j].part = "file" /\ req[j].step = "answer")

\* A row has its file, which no task is to delete.
FilesKept(j) ==
  /\ <<"file", j>> \in DOMAIN blob => j \in DOMAIN disk /\ j \notin remove
  /\ Fresh(j) => <<"file", j>> \notin DOMAIN blob /\ j \notin remove
  /\ req[j].route = "blob" /\ req[j].part = "file" /\ req[j].step = "upsert" => j \in DOMAIN disk

DiskFits == \A k \in DOMAIN disk : disk[k] \in {k, Torn}

\* The job of a row is past its post.
Over(j) == pc[j] = "done" \/ (pc[j] = "post" /\ req[j].step = "answer")

\* A row of table job is of an execution with its key, and its blobs have rows.
RowFits(k) ==
  LET r == jobRow[k] IN
  /\ DOMAIN r = {"by", "file", "stdout", "old"}
  /\ r.by \in Jobs /\ Key[r.by] = k /\ ran[r.by] = TRUE /\ Over(r.by)
  /\ r.file = <<"file", r.by>> /\ r.file \in DOMAIN blob
  /\ TextOf(r.stdout, k) /\ r.stdout \in DOMAIN blob

StoreInv ==
  /\ BlobsFit /\ DiskFits /\ evict \subseteq DOMAIN blob
  /\ \A j \in Jobs : IdsFit(j) /\ FilesKept(j)
  /\ \A k \in DOMAIN jobRow : RowFits(k)

-----------------------------------------------------------------------------
(* Hits *)

NoRow(o) == \A k \in DOMAIN jobRow : jobRow[k].by # o

\* An execution that j may take its outputs from.
Source(o, j) == o \in Jobs /\ Key[o] = Key[j] /\ ran[o] = TRUE /\ Over(o)

\* A match, before and after its blobs were downloaded.
Hit(a, j) ==
  /\ Source(a.of, j) /\ a.stdout.hash = Key[j]
  /\ \/ a.file # None /\ a.file.hash = a.of
     \/ a.file = None /\ NoRow(a.of)

Taken(g, j) ==
  /\ Source(g.of, j) /\ g.stdout = Key[j]
  /\ g.file = g.of \/ (g.file = None /\ NoRow(g.of))

\* What a handler of read_job knows at each of its steps.
Matching(j) ==
  /\ req[j].step = "outputs" => Source(req[j].of, j) /\ TextOf(req[j].stdout, Key[j])
  /\ req[j].step = "resolve" =>
       /\ Source(req[j].of, j) /\ TextOf(req[j].stdout, Key[j])
       /\ req[j].file = <<"file", req[j].of>> \/ (req[j].file = None /\ NoRow(req[j].of))
  /\ req[j].step = "answer" /\ req[j].answer.status = "match" => Hit(req[j].answer, j)

HitsKept(j) ==
  /\ req[j].route = "matching" => Matching(j)
  /\ pc[j] = "download" => Hit(got[j], j)
  /\ pc[j] = "materialize" => Taken(got[j], j)
  /\ virtual[j] => Taken(result[j], j)

HitInv == \A j \in Jobs : HitsKept(j)

CacheInv == ProtocolInv /\ StoreInv /\ HitInv

-----------------------------------------------------------------------------
(* Steps of one job *)

\* What a step of j leaves alone.
Others(j) ==
  \A i \in Jobs \ {j} :
    /\ pc'[i] = pc[i] /\ req'[i] = req[i] /\ ids'[i] = ids[i] /\ got'[i] = got[i]
    /\ result'[i] = result[i] /\ ran'[i] = ran[i] /\ virtual'[i] = virtual[i]

\* An answer is added to a request, which is otherwise kept.
LEMMA AnswerFields ==
  ASSUME Domains, NEW j \in Jobs, NEW a, Answer(j, a)
  PROVE  /\ DOMAIN req' = Jobs /\ \A i \in Jobs \ {j} : req'[i] = req[i]
         /\ DOMAIN req'[j] = DOMAIN req[j] \cup {"answer"}
         /\ req'[j].answer = a
         /\ "step" \in DOMAIN req[j] => req'[j].step = "answer"
         /\ \A x \in DOMAIN req[j] \ {"answer", "step"} : req'[j][x] = req[j][x]
<1>1. DOMAIN req = Jobs
  BY DEF Domains
<1>2. /\ DOMAIN req' = Jobs /\ \A i \in Jobs \ {j} : req'[i] = req[i]
      /\ req'[j] = [x \in DOMAIN req[j] \cup {"answer"} |->
                      CASE x = "answer" -> a [] x = "step" -> "answer" [] OTHER -> req[j][x]]
  BY ONLY <1>1, Answer(j, a), j \in Jobs DEF Answer
<1>3. /\ DOMAIN req'[j] = DOMAIN req[j] \cup {"answer"}
      /\ req'[j]["answer"] = a
      /\ "step" \in DOMAIN req[j] => req'[j]["step"] = "answer"
      /\ \A x \in DOMAIN req[j] \ {"answer", "step"} : req'[j][x] = req[j][x]
  BY ONLY <1>2
<1> QED
  BY ONLY <1>2, <1>3

\* Requests in flight belong to one job each.
LEMMA ReqOthers ==
  ASSUME Domains, NEW j \in Jobs,
         \/ UNCHANGED req
         \/ \E r : Send(j, r)
         \/ \E a : Answer(j, a)
         \/ \E s : req' = [req EXCEPT ![j].step = s]
  PROVE  DOMAIN req' = Jobs /\ \A i \in Jobs \ {j} : req'[i] = req[i]
  BY DEF Domains, Send, Answer

\* A step of one job changes nothing of the others.
LEMMA JobStep ==
  ASSUME Domains, NEW j \in Jobs, Client(j) \/ Server(j)
  PROVE  Domains' /\ Others(j)
<1>1. DOMAIN req' = Jobs /\ \A i \in Jobs \ {j} : req'[i] = req[i]
  <2>1. CASE Server(j)
    <3>1. \/ \E r : Send(j, r)
          \/ \E a : Answer(j, a)
          \/ \E s : req' = [req EXCEPT ![j].step = s]
      BY ONLY <2>1 DEF Server, ReadJob, ReadOutputs, ResolveBlobs, AllowJob, StreamBlob,
                       UpsertBlob, AddJob, HandlerFails
    <3> QED
      BY ONLY Domains, j \in Jobs, <3>1, ReqOthers
  <2>2. CASE Client(j)
    <3>1. UNCHANGED req \/ \E r : Send(j, r)
      BY ONLY <2>2, ZenonT(30) DEF Client, Begin, Found, Download, Materialize, Run, Allowed, UploadBlob,
                       Uploaded, PostJob, Posted, Timeout
    <3> QED
      BY ONLY Domains, j \in Jobs, <3>1, ReqOthers
  <2> QED
    BY <2>1, <2>2
<1>2. CASE Server(j)
  <2>1. UNCHANGED client
    BY ONLY <1>2 DEF Server, ReadJob, ReadOutputs, ResolveBlobs, AllowJob, StreamBlob,
                     UpsertBlob, AddJob, HandlerFails
  <2> QED
    BY ONLY Domains, <1>1, <2>1 DEF Domains, Others, client
<1>3. CASE Client(j)
  <2>1. /\ pc' = pc \/ \E v : pc' = [pc EXCEPT ![j] = v]
        /\ got' = got \/ \E v : got' = [got EXCEPT ![j] = v]
        /\ result' = result \/ \E v : result' = [result EXCEPT ![j] = v]
        /\ ran' = ran \/ \E v : ran' = [ran EXCEPT ![j] = v]
        /\ virtual' = virtual \/ \E v : virtual' = [virtual EXCEPT ![j] = v]
    BY ONLY <1>3, ZenonT(30) DEF Client, Begin, Found, Download, Materialize, Run, Allowed, UploadBlob,
                     Uploaded, PostJob, Posted, Timeout, GiveUp
  <2>2. ids' = ids \/ \E v : ids' = [ids EXCEPT ![j] = v]
    BY ONLY <1>3, ZenonT(30) DEF Client, Begin, Found, Download, Materialize, Run, Allowed, UploadBlob,
                     Uploaded, PostJob, Posted, Timeout, GiveUp
  <2> QED
    BY ONLY Domains, <1>1, <2>1, <2>2 DEF Domains, Others
<1> QED
  BY <1>2, <1>3

-----------------------------------------------------------------------------
(* The protocol is kept *)

\* A job that has no request in flight.
LEMMA IdleShape ==
  ASSUME NEW j \in Jobs, req'[j] = Idle
  PROVE  ReqShape(j)' /\ req'[j].route = "idle"
  BY DEF ReqShape, Idle

\* An answer keeps the route and the part of its request.
LEMMA AnswerShape ==
  ASSUME Domains, NEW j \in Jobs, ReqShape(j), req[j].route # "idle", NEW a, Answer(j, a)
  PROVE  /\ ReqShape(j)' /\ req'[j].route = req[j].route /\ req'[j].step = "answer"
         /\ req'[j].answer = a
         /\ req[j].route = "blob" => req'[j].part = req[j].part
<1>1. /\ DOMAIN req'[j] = DOMAIN req[j] \cup {"answer"}
      /\ req'[j].answer = a /\ req'[j].step = "answer"
      /\ \A x \in DOMAIN req[j] \ {"answer", "step"} : req'[j][x] = req[j][x]
  BY AnswerFields DEF ReqShape
<1>2. "route" \in DOMAIN req[j] /\ (req[j].route = "blob" => "part" \in DOMAIN req[j])
  BY DEF ReqShape
<1>3. req'[j]["route"] = req[j]["route"] /\ (req[j].route = "blob" => req'[j]["part"] = req[j]["part"])
  BY ONLY <1>1, <1>2
<1>4. req'[j].route # "idle" /\ req'[j] # Idle
  BY <1>3 DEF Idle
<1> QED
  BY <1>1, <1>2, <1>3, <1>4 DEF ReqShape

\* The handlers keep the protocol.
LEMMA ServerProtocol ==
  ASSUME ProtocolInv, NEW j \in Jobs, Server(j)
  PROVE  ReqShape(j)' /\ Protocol(j)'
<1>0. /\ Domains /\ ReqShape(j) /\ Protocol(j)
      /\ pc' = pc /\ ids' = ids /\ ran' = ran /\ virtual' = virtual
  BY DEF ProtocolInv, Server, ReadJob, ReadOutputs, ResolveBlobs, AllowJob, StreamBlob,
         UpsertBlob, AddJob, HandlerFails, client
<1>1. req[j].route # "idle"
  BY <1>0 DEF Server, ReadJob, ReadOutputs, ResolveBlobs, AllowJob, StreamBlob,
              UpsertBlob, AddJob, HandlerFails, Handler, ReqShape
<1>2. ASSUME ReqShape(j)', req'[j].route = req[j].route,
             req[j].route = "blob" => req'[j].part = req[j].part
      PROVE  ReqShape(j)' /\ Protocol(j)'
  BY ONLY <1>0, <1>2 DEF Protocol
<1>3. CASE \E a : Answer(j, a)
  BY ONLY <1>0, <1>1, <1>2, <1>3, j \in Jobs, AnswerShape
<1>4. CASE StreamBlob(j)
  <2>1. req'[j] = [req[j] EXCEPT !.step = "upsert"]
    BY ONLY <1>0, <1>4, j \in Jobs DEF StreamBlob, Domains
  <2>2. /\ DOMAIN req'[j] = DOMAIN req[j]
        /\ \A x \in DOMAIN req[j] \ {"step"} : req'[j][x] = req[j][x]
    BY ONLY <2>1
  <2>3. /\ "route" \in DOMAIN req[j] /\ "step" \in DOMAIN req[j]
        /\ req[j].route = "blob" => "part" \in DOMAIN req[j] /\ req[j].part \in Parts
    BY ONLY <1>0, <1>1 DEF ReqShape
  <2>4. req'[j]["route"] = req[j]["route"] /\ (req[j].route = "blob" => req'[j]["part"] = req[j]["part"])
    BY ONLY <2>2, <2>3
  <2>5. req'[j].route # "idle" /\ req'[j] # Idle
    BY <1>1, <2>4 DEF Idle
  <2>6. ReqShape(j)'
    BY ONLY <2>2, <2>3, <2>4, <2>5 DEF ReqShape
  <2> QED
    BY ONLY <1>2, <2>4, <2>6
<1>5. CASE /\ req[j].route = "matching"
           /\ \E o, s : Send(j, [route |-> "matching", step |-> "outputs", of |-> o, stdout |-> s])
  <2>1. req'[j].route = "matching" /\ DOMAIN req'[j] = {"route", "step", "of", "stdout"}
    BY ONLY <1>0, <1>5, j \in Jobs DEF Send, Domains
  <2>2. ReqShape(j)'
    BY ONLY <2>1 DEF ReqShape, Idle
  <2> QED
    BY ONLY <1>2, <1>5, <2>1, <2>2
<1>6. CASE /\ req[j].route = "matching"
           /\ \E o, s, f : Send(j, [route |-> "matching", step |-> "resolve", of |-> o,
                                    stdout |-> s, file |-> f])
  <2>1. req'[j].route = "matching" /\ DOMAIN req'[j] = {"route", "step", "of", "stdout", "file"}
    BY ONLY <1>0, <1>6, j \in Jobs DEF Send, Domains
  <2>2. ReqShape(j)'
    BY ONLY <2>1 DEF ReqShape, Idle
  <2> QED
    BY ONLY <1>2, <1>6, <2>1, <2>2
<1> QED
  <2>1. CASE ReadJob(j)
    BY ONLY <2>1, <1>3, <1>5, ZenonT(30) DEF ReadJob, Handler
  <2>2. CASE ReadOutputs(j)
    BY ONLY <2>2, <1>6, ZenonT(30) DEF ReadOutputs, Handler
  <2>3. CASE ResolveBlobs(j) \/ AllowJob(j) \/ UpsertBlob(j) \/ AddJob(j) \/ HandlerFails(j)
    BY ONLY <2>3, <1>3 DEF ResolveBlobs, AllowJob, UpsertBlob, AddJob, HandlerFails
  <2> QED
    BY <2>1, <2>2, <2>3, <1>4 DEF Server

\* What a request with a route and a step looks like.
LEMMA SendShape ==
  ASSUME Domains, NEW j \in Jobs, NEW r \in {"matching", "allowed", "job"}, NEW s,
         Send(j, [route |-> r, step |-> s])
  PROVE  ReqShape(j)' /\ req'[j].route = r /\ req'[j].step = s
<1>1. req'[j].route = r /\ req'[j].step = s /\ DOMAIN req'[j] = {"route", "step"}
  BY DEF Send, Domains
<1> QED
  BY ONLY <1>1, r \in {"matching", "allowed", "job"} DEF ReqShape, Idle

\* What the request for an upload looks like.
LEMMA StreamShape ==
  ASSUME Domains, NEW j \in Jobs, NEW p,
         Send(j, [route |-> "blob", step |-> "stream", part |-> p])
  PROVE  req'[j].route = "blob" /\ req'[j].step = "stream" /\ req'[j].part = p
<1>1. req'[j] = [route |-> "blob", step |-> "stream", part |-> p]
  BY DEF Send, Domains
<1> QED
  BY ONLY <1>1

\* The route of read_job stays the same from one statement to the next.
LEMMA ReadRoute ==
  ASSUME Domains, NEW j \in Jobs, ReadJob(j) \/ ReadOutputs(j), ~\E a : Answer(j, a)
  PROVE  req[j].route = "matching" /\ req'[j].route = "matching"
<1>1. ASSUME NEW o, NEW s, Send(j, [route |-> "matching", step |-> "outputs", of |-> o, stdout |-> s])
      PROVE  req'[j].route = "matching"
  BY ONLY Domains, j \in Jobs, <1>1 DEF Send, Domains
<1>2. ASSUME NEW o, NEW s, NEW f,
             Send(j, [route |-> "matching", step |-> "resolve", of |-> o, stdout |-> s, file |-> f])
      PROVE  req'[j].route = "matching"
  BY ONLY Domains, j \in Jobs, <1>2 DEF Send, Domains
<1>3. CASE ReadJob(j)
  BY ONLY <1>1, <1>3, ~\E a : Answer(j, a) DEF ReadJob, Handler
<1>4. CASE ReadOutputs(j)
  BY ONLY <1>2, <1>4 DEF ReadOutputs, Handler
<1> QED
  BY <1>3, <1>4

\* The runner keeps the protocol.
LEMMA ClientProtocol ==
  ASSUME ProtocolInv, NEW j \in Jobs, Client(j)
  PROVE  ReqShape(j)' /\ Protocol(j)'
<1>0. /\ Domains /\ ReqShape(j) /\ Protocol(j)
      /\ DOMAIN pc = Jobs /\ DOMAIN ran = Jobs /\ DOMAIN virtual = Jobs
      /\ DOMAIN ids = Jobs /\ DOMAIN req = Jobs /\ j \in Jobs
  BY DEF ProtocolInv, Domains
<1>1. ASSUME UNCHANGED req
      PROVE  ReqShape(j)' /\ req'[j] = req[j]
  BY ONLY <1>0, <1>1 DEF ReqShape
<1>2. CASE Begin(j)
  <2>1. /\ pc[j] = "start" /\ ran' = ran /\ virtual' = virtual /\ ids' = ids
        /\ \/ /\ pc'[j] \in {"failed", "run"} /\ UNCHANGED req
           \/ /\ pc'[j] = "find" /\ Send(j, [route |-> "matching", step |-> "job"])
    BY ONLY <1>0, <1>2 DEF Begin
  <2>2. \/ pc'[j] \in {"failed", "run"} /\ ReqShape(j)' /\ req'[j].route = "idle"
        \/ pc'[j] = "find" /\ ReqShape(j)' /\ req'[j].route = "matching"
    BY ONLY <1>0, <1>1, <2>1, SendShape DEF Protocol
  <2> QED
    BY ONLY <1>0, <2>1, <2>2 DEF Protocol
<1>3. CASE Found(j)
  <2>1. /\ pc[j] = "find" /\ pc'[j] \in {"download", "run"} /\ req'[j] = Idle
        /\ ran' = ran /\ virtual' = virtual /\ ids' = ids
    BY ONLY <1>0, <1>3 DEF Found, Send
  <2> QED
    BY ONLY <1>0, <2>1, IdleShape DEF Protocol
<1>4. CASE Download(j)
  <2>1. /\ pc[j] = "download" /\ pc'[j] \in {"materialize", "run"} /\ UNCHANGED req
        /\ ran' = ran /\ virtual' = virtual /\ ids' = ids
    BY ONLY <1>0, <1>4 DEF Download
  <2> QED
    BY ONLY <1>0, <1>1, <2>1 DEF Protocol
<1>5. CASE Materialize(j)
  <2>1. /\ pc[j] = "materialize" /\ UNCHANGED req /\ ran' = ran /\ ids' = ids
        /\ \/ pc'[j] = "done" /\ virtual'[j] = TRUE
           \/ pc'[j] = "run" /\ virtual' = virtual
    BY ONLY <1>0, <1>5 DEF Materialize
  <2> QED
    BY ONLY <1>0, <1>1, <2>1 DEF Protocol
<1>6. CASE Run(j)
  <2>1. /\ pc[j] = "run" /\ ran'[j] = TRUE /\ virtual' = virtual /\ ids' = ids
        /\ \/ pc'[j] = "done" /\ UNCHANGED req
           \/ pc'[j] = "allow" /\ Send(j, [route |-> "allowed", step |-> "job"])
    BY ONLY <1>0, <1>6 DEF Run
  <2>2. \/ pc'[j] = "done" /\ ReqShape(j)' /\ req'[j].route = "idle"
        \/ pc'[j] = "allow" /\ ReqShape(j)' /\ req'[j].route = "allowed"
    BY ONLY <1>0, <1>1, <2>1, SendShape DEF Protocol
  <2> QED
    BY ONLY <1>0, <2>1, <2>2 DEF Protocol
<1>7. CASE Allowed(j)
  <2>1. /\ pc[j] = "allow" /\ pc'[j] \in {"upload", "done"} /\ req'[j] = Idle
        /\ ran' = ran /\ virtual' = virtual /\ ids' = ids
    BY ONLY <1>0, <1>7 DEF Allowed, Send
  <2> QED
    BY ONLY <1>0, <2>1, IdleShape DEF Protocol
<1>8. ASSUME NEW p \in Parts, UploadBlob(j, p)
      PROVE  ReqShape(j)' /\ Protocol(j)'
  <2>1. /\ pc[j] = "upload" /\ pc' = pc /\ ran' = ran /\ virtual' = virtual
        /\ req[j] = Idle /\ p \notin DOMAIN ids[j]
    BY ONLY <1>8 DEF UploadBlob
  <2>2. CASE UNCHANGED req
    BY ONLY <1>0, <1>1, <2>1, <2>2, IdleShape DEF Protocol
  <2>3. CASE Send(j, [route |-> "blob", step |-> "stream", part |-> p]) /\ UNCHANGED ids
    <3>1. /\ req'[j].route = "blob" /\ req'[j].part = p
          /\ DOMAIN req'[j] = {"route", "step", "part"}
      BY ONLY <1>0, <2>3 DEF Send
    <3>2. ReqShape(j)'
      BY ONLY <1>8, <3>1 DEF ReqShape, Idle
    <3> QED
      BY ONLY <1>0, <2>1, <2>3, <3>1, <3>2 DEF Protocol
  <2> QED
    BY ONLY <1>8, <2>2, <2>3 DEF UploadBlob
<1>9. CASE Uploaded(j)
  <2>1. /\ pc[j] = "upload" /\ pc' = pc /\ ran' = ran /\ virtual' = virtual /\ req'[j] = Idle
    BY ONLY <1>0, <1>9 DEF Uploaded, Send
  <2> QED
    BY ONLY <1>0, <2>1, IdleShape DEF Protocol
<1>10. CASE PostJob(j)
  <2>1. /\ pc[j] = "upload" /\ ran' = ran /\ virtual' = virtual /\ ids' = ids
        /\ DOMAIN ids[j] = Parts /\ req[j] = Idle
        /\ \/ pc'[j] = "done" /\ UNCHANGED req
           \/ /\ pc'[j] = "post" /\ None \notin Range(ids[j])
              /\ Send(j, [route |-> "job", step |-> "insert"])
    BY ONLY <1>0, <1>10 DEF PostJob
  <2>2. \/ pc'[j] = "done" /\ ReqShape(j)' /\ req'[j].route = "idle"
        \/ pc'[j] = "post" /\ None \notin Range(ids[j]) /\ ReqShape(j)' /\ req'[j].route = "job"
    BY ONLY <1>0, <1>1, <2>1, SendShape, IdleShape
  <2> QED
    BY ONLY <1>0, <2>1, <2>2 DEF Protocol
<1>11. CASE Posted(j)
  <2>1. /\ pc[j] = "post" /\ pc'[j] = "done" /\ req'[j] = Idle
        /\ ran' = ran /\ virtual' = virtual /\ ids' = ids
    BY ONLY <1>0, <1>11 DEF Posted, Send
  <2> QED
    BY ONLY <1>0, <2>1, IdleShape DEF Protocol
<1>12. CASE Timeout(j)
  <2>1. /\ req[j] # Idle /\ req'[j] = Idle /\ ran' = ran /\ virtual' = virtual
        /\ \/ pc[j] = "find" /\ pc'[j] = "run"
           \/ pc[j] = "upload" /\ pc' = pc
           \/ pc[j] \notin {"find", "upload"} /\ pc'[j] = "done"
    BY ONLY <1>0, <1>12 DEF Timeout, GiveUp, Send
  <2> QED
    BY ONLY <1>0, <2>1, IdleShape DEF Protocol, ReqShape
<1> QED
  BY <1>2, <1>3, <1>4, <1>5, <1>6, <1>7, <1>8, <1>9, <1>10, <1>11, <1>12 DEF Client

\* Requests and their handlers after a restart of the server.
LEMMA RestartFields ==
  ASSUME ProtocolInv, Restart, NEW j \in Jobs
  PROVE  /\ DOMAIN req' = Jobs
         /\ \/ req'[j] = req[j]
            \/ /\ req[j].route # "idle" /\ req[j].step # "answer"
               /\ DOMAIN req'[j] = DOMAIN req[j] \cup {"answer"}
               /\ req'[j].answer = [status |-> "error", id |-> None]
               /\ req'[j].step = "answer" /\ req'[j].route = req[j].route
               /\ req[j].route = "blob" => req'[j].part = req[j].part
<1>1. DOMAIN req' = Jobs
  BY DEF Restart
<1>2. ReqShape(j)
  BY DEF ProtocolInv
<1>3. CASE req[j] = Idle \/ req[j].step = "answer"
  BY <1>1, <1>3 DEF Restart
<1>4. CASE ~(req[j] = Idle \/ req[j].step = "answer")
  <2>1. req'[j] = [x \in DOMAIN req[j] \cup {"answer"} |->
                     CASE x = "answer" -> [status |-> "error", id |-> None]
                       [] x = "step" -> "answer" [] OTHER -> req[j][x]]
    BY <1>4 DEF Restart
  <2>2. /\ "route" \in DOMAIN req[j] /\ "step" \in DOMAIN req[j] /\ req[j].route # "idle"
        /\ req[j].route = "blob" => "part" \in DOMAIN req[j]
    BY ONLY <1>2, <1>4 DEF ReqShape
  <2>3. /\ DOMAIN req'[j] = DOMAIN req[j] \cup {"answer"}
        /\ req'[j]["answer"] = [status |-> "error", id |-> None]
        /\ req'[j]["step"] = "answer" /\ req'[j]["route"] = req[j]["route"]
    BY ONLY <2>1, <2>2
  <2>4. req[j].route = "blob" => req'[j]["part"] = req[j]["part"]
    BY ONLY <2>1, <2>2
  <2> QED
    BY ONLY <1>1, <1>4, <2>2, <2>3, <2>4
<1> QED
  BY <1>3, <1>4

\* Every step keeps the protocol.
LEMMA ProtocolNext == ProtocolInv /\ [Next]_vars => ProtocolInv'
<1>1. ASSUME ProtocolInv, NEW j \in Jobs, Client(j) \/ Server(j) PROVE ProtocolInv'
  <2>1. Domains' /\ Others(j)
    BY ONLY <1>1, JobStep DEF ProtocolInv
  <2>2. ReqShape(j)' /\ Protocol(j)'
    BY ONLY <1>1, ClientProtocol, ServerProtocol
  <2>3. ASSUME NEW i \in Jobs \ {j} PROVE ReqShape(i)' /\ Protocol(i)'
    <3>1. ReqShape(i) /\ Protocol(i)
      BY ONLY <1>1, <2>3 DEF ProtocolInv
    <3>2. /\ pc'[i] = pc[i] /\ req'[i] = req[i] /\ ids'[i] = ids[i]
          /\ ran'[i] = ran[i] /\ virtual'[i] = virtual[i]
      BY ONLY <2>1, <2>3 DEF Others
    <3> QED
      BY ONLY <3>1, <3>2 DEF ReqShape, Protocol
  <2> QED
    BY ONLY <2>1, <2>2, <2>3 DEF ProtocolInv
<1>2. ASSUME ProtocolInv, UNCHANGED <<client, req>> PROVE ProtocolInv'
  BY ONLY <1>2 DEF ProtocolInv, Domains, ReqShape, Protocol, client
<1>3. ASSUME ProtocolInv, Restart PROVE ProtocolInv'
  <2>1. /\ pc' = pc /\ ids' = ids /\ got' = got /\ result' = result /\ ran' = ran
        /\ virtual' = virtual
    BY ONLY <1>3 DEF Restart, client
  <2>2. Domains'
    BY ONLY <1>3, <2>1 DEF ProtocolInv, Domains, Restart
  <2>3. ASSUME NEW j \in Jobs PROVE ReqShape(j)' /\ Protocol(j)'
    <3>1. ReqShape(j) /\ Protocol(j)
      BY ONLY <1>3, <2>3 DEF ProtocolInv
    <3>2. CASE req'[j] = req[j]
      <4>1. ReqShape(j)'
        BY ONLY <3>1, <3>2 DEF ReqShape
      <4>2. Protocol(j)'
        BY ONLY <2>1, <3>1, <3>2 DEF Protocol
      <4> QED
        BY ONLY <4>1, <4>2
    <3>3. CASE /\ req[j].route # "idle"
               /\ DOMAIN req'[j] = DOMAIN req[j] \cup {"answer"}
               /\ req'[j].route = req[j].route
               /\ req[j].route = "blob" => req'[j].part = req[j].part
      <4>1. ReqShape(j)'
        BY ONLY <3>1, <3>3 DEF ReqShape, Idle
      <4> QED
        BY ONLY <2>1, <3>1, <3>3, <4>1 DEF Protocol
    <3> QED
      BY ONLY <1>3, <2>3, <3>2, <3>3, RestartFields
  <2> QED
    BY ONLY <2>2, <2>3 DEF ProtocolInv
<1>4. ASSUME Eviction \/ RemoveJobs \/ UNCHANGED vars PROVE UNCHANGED <<client, req>>
  BY ONLY <1>4, ZenonT(30) DEF Eviction, BlobAges, JobAges, EvictJobs, EvictScan, EvictDelete, RemoveFile,
                   RemoveJobs, vars
<1> QED
  BY <1>1, <1>2, <1>3, <1>4 DEF Next

-----------------------------------------------------------------------------
(* What lasts *)

\* A command that was executed was executed for good.
LEMMA RanStays ==
  ASSUME ProtocolInv, [Next]_vars, NEW o \in Jobs, ran[o] = TRUE
  PROVE  ran'[o] = TRUE
<1>1. ran' = ran \/ \E j \in Jobs : ran' = [ran EXCEPT ![j] = TRUE]
  <2>1. ASSUME NEW j \in Jobs, Client(j)
        PROVE  ran' = ran \/ ran' = [ran EXCEPT ![j] = TRUE]
    BY ONLY <2>1, ZenonT(30) DEF Client, Begin, Found, Download, Materialize, Run, Allowed, UploadBlob,
                     Uploaded, PostJob, Posted, Timeout
  <2>2. ASSUME NEW j \in Jobs, Server(j) PROVE ran' = ran
    BY ONLY <2>2 DEF Server, ReadJob, ReadOutputs, ResolveBlobs, AllowJob, StreamBlob,
                     UpsertBlob, AddJob, HandlerFails, client
  <2>3. ASSUME Eviction \/ RemoveJobs \/ Restart \/ UNCHANGED vars PROVE ran' = ran
    BY ONLY <2>3, ZenonT(30) DEF Eviction, BlobAges, JobAges, EvictJobs, EvictScan, EvictDelete, RemoveFile,
                     RemoveJobs, Restart, vars, client
  <2> QED
    BY ONLY [Next]_vars, <2>1, <2>2, <2>3 DEF Next
<1>2. DOMAIN ran = Jobs
  BY DEF ProtocolInv, Domains
<1> QED
  BY ONLY <1>1, <1>2, ran[o] = TRUE, o \in Jobs

\* A job that is past its post stays there, and its handler has answered.
LEMMA OverStays ==
  ASSUME ProtocolInv, [Next]_vars, NEW o \in Jobs, Over(o)
  PROVE  Over(o)'
<1>0. Domains /\ ReqShape(o) /\ Protocol(o)
  BY DEF ProtocolInv
<1>1. /\ req[o].route \in {"idle", "job"}
      /\ req[o].route # "idle" => req[o].step = "answer" /\ pc[o] = "post"
  BY ONLY <1>0, Over(o) DEF Over, Protocol
<1>2. CASE UNCHANGED <<client, req>>
  BY ONLY <1>2, Over(o) DEF Over, client
<1>3. CASE Restart
  <2>1. req'[o] = req[o] /\ pc' = pc
    BY ONLY ProtocolInv, o \in Jobs, Over(o), <1>1, <1>3, RestartFields DEF Restart, client
  <2> QED
    BY ONLY Over(o), <2>1 DEF Over
<1>4. CASE \E j \in Jobs \ {o} : Client(j) \/ Server(j)
  <2>1. PICK j \in Jobs \ {o} : Client(j) \/ Server(j)
    BY <1>4
  <2>2. Others(j)
    BY ONLY <1>0, <2>1, JobStep
  <2> QED
    BY ONLY Over(o), o \in Jobs, <2>1, <2>2 DEF Others, Over
<1>5. CASE Server(o)
  BY ONLY <1>0, <1>1, <1>5
     DEF Server, ReadJob, ReadOutputs, ResolveBlobs, AllowJob, StreamBlob, UpsertBlob, AddJob,
         HandlerFails, Handler, ReqShape
<1>6. CASE Client(o)
  <2>1. CASE pc[o] = "done"
    <3>1. req[o] = Idle
      BY ONLY <1>0, <2>1 DEF Protocol, ReqShape
    <3> QED
      BY ONLY <1>6, <2>1, <3>1
         DEF Client, Begin, Found, Download, Materialize, Run, Allowed, UploadBlob, Uploaded,
             PostJob, Posted, Timeout
  <2>2. CASE pc[o] = "post"
    <3>1. pc'[o] = "done"
      BY ONLY <1>0, <1>6, <2>2, o \in Jobs
         DEF Client, Begin, Found, Download, Materialize, Run, Allowed, UploadBlob, Uploaded,
             PostJob, Posted, Timeout, GiveUp, Domains
    <3> QED
      BY ONLY <3>1 DEF Over
  <2> QED
    BY <2>1, <2>2 DEF Over
<1>7. ASSUME Eviction \/ RemoveJobs \/ UNCHANGED vars PROVE UNCHANGED <<client, req>>
  BY ONLY <1>7, ZenonT(30) DEF Eviction, BlobAges, JobAges, EvictJobs, EvictScan, EvictDelete, RemoveFile,
                   RemoveJobs, vars
<1> QED
  BY <1>2, <1>3, <1>4, <1>5, <1>6, <1>7 DEF Next

-----------------------------------------------------------------------------
(* Rows and files are kept *)

\* upsert_blob refreshes the row with the content, or makes one for the job.
LEMMA Upserted ==
  ASSUME ProtocolInv, BlobsFit, NEW j \in Jobs, UpsertBlob(j)
  PROVE  \E id :
    /\ DOMAIN blob' = DOMAIN blob \cup {id} /\ \A i \in DOMAIN blob \ {id} : blob'[i] = blob[i]
    /\ req[j].route = "blob" /\ req[j].step = "upsert" /\ req[j].part \in {"file", "stdout"}
    /\ req[j].part = "file" =>
         id = <<"file", j>> /\ blob'[id] = [key |-> j, hash |-> j, old |-> FALSE]
    /\ req[j].part = "stdout" =>
         TextOf(id, Key[j]) /\ blob'[id] = [key |-> Key[j], hash |-> Key[j], old |-> FALSE]
    /\ Answer(j, [status |-> "ok", id |-> id])
<1> DEFINE p == req[j].part
           content == Output(j)[p]
           same == {i \in DOMAIN blob : i[1] = p /\ blob[i].key = content}
           id == IF same = {} THEN <<p, j>> ELSE CHOOSE i \in same : TRUE
           hash == IF same = {} THEN content ELSE blob[id].hash
<1>1. /\ req[j].route = "blob" /\ req[j].step = "upsert"
      /\ blob' = [i \in DOMAIN blob \cup {id} |->
                    IF i = id THEN [key |-> content, hash |-> hash, old |-> FALSE] ELSE blob[i]]
      /\ Answer(j, [status |-> "ok", id |-> id])
  BY DEF UpsertBlob, Handler
<1>2. p \in {"file", "stdout"}
  BY <1>1 DEF ProtocolInv, ReqShape, Parts
<1>3. content = IF p = "file" THEN j ELSE Key[j]
  BY <1>2 DEF Output
<1>4. same # {} => id \in same
  OBVIOUS
<1> HIDE DEF id, content, same, hash
<1>5. same # {} => /\ id \in DOMAIN blob /\ id[1] = p /\ blob[id].key = content
                   /\ hash = content
  BY <1>4 DEF same, hash, BlobsFit
<1>6. hash = content
  BY <1>5 DEF hash
<1>7. p = "file" => id = <<"file", j>>
  <2>1. CASE same = {}
    BY <2>1 DEF id
  <2>2. CASE same # {} /\ p = "file"
    <3>1. id \in DOMAIN blob /\ id[1] = "file" /\ blob[id].key = j
      BY ONLY <1>3, <1>5, <2>2
    <3> QED
      BY ONLY BlobsFit, <3>1 DEF BlobsFit
  <2> QED
    BY <2>1, <2>2
<1>8. p = "stdout" => TextOf(id, Key[j])
  <2>1. CASE same = {}
    BY <2>1 DEF id, TextOf
  <2>2. CASE same # {} /\ p = "stdout"
    <3>1. id \in DOMAIN blob /\ id[1] = "stdout" /\ blob[id].key = Key[j]
      BY ONLY <1>3, <1>5, <2>2
    <3> QED
      BY ONLY BlobsFit, <3>1 DEF BlobsFit, TextOf
  <2> QED
    BY <2>1, <2>2
<1>9. /\ DOMAIN blob' = DOMAIN blob \cup {id} /\ \A i \in DOMAIN blob \ {id} : blob'[i] = blob[i]
      /\ blob'[id] = [key |-> content, hash |-> content, old |-> FALSE]
  BY ONLY <1>1, <1>6
<1> QED
  BY ONLY <1>1, <1>2, <1>3, <1>7, <1>8, <1>9, ZenonT(30)

\* Which steps change what.
LEMMA StoreFrame ==
  ASSUME [Next]_vars
  PROVE  /\ \/ blob' = blob \/ EvictDelete
            \/ \E j \in Jobs : UpsertBlob(j)
            \/ \E i \in Parts \X Jobs : BlobAges(i)
         /\ \/ jobRow' = jobRow \/ EvictJobs \/ RemoveJobs
            \/ \E j \in Jobs : AddJob(j)
            \/ \E k \in Range(Key) : JobAges(k)
         /\ evict' = evict \/ EvictScan \/ EvictDelete \/ Restart
         /\ \/ disk' = disk \/ Restart
            \/ \E j \in Jobs : StreamBlob(j)
            \/ \E k \in Jobs : RemoveFile(k)
         /\ \/ remove' = remove \/ EvictDelete \/ Restart
            \/ \E k \in Jobs : RemoveFile(k)
<1>1. ASSUME NEW j \in Jobs, Client(j)
      PROVE  /\ blob' = blob /\ jobRow' = jobRow /\ evict' = evict /\ disk' = disk
             /\ remove' = remove
  BY ONLY <1>1 DEF Client, Begin, Found, Download, Materialize, Run, Allowed, UploadBlob,
                   Uploaded, PostJob, Posted, Timeout, tables
<1>2. ASSUME NEW j \in Jobs, Server(j)
      PROVE  /\ blob' = blob \/ UpsertBlob(j)
             /\ jobRow' = jobRow \/ AddJob(j)
             /\ evict' = evict /\ remove' = remove
             /\ disk' = disk \/ StreamBlob(j)
  BY ONLY <1>2 DEF Server, ReadJob, ReadOutputs, ResolveBlobs, AllowJob, StreamBlob,
                   UpsertBlob, AddJob, HandlerFails, tables
<1>3. ASSUME Eviction
      PROVE  /\ blob' = blob \/ EvictDelete \/ \E i \in Parts \X Jobs : BlobAges(i)
             /\ jobRow' = jobRow \/ EvictJobs \/ \E k \in Range(Key) : JobAges(k)
             /\ evict' = evict \/ EvictScan \/ EvictDelete
             /\ disk' = disk \/ \E k \in Jobs : RemoveFile(k)
             /\ remove' = remove \/ EvictDelete \/ \E k \in Jobs : RemoveFile(k)
  BY ONLY <1>3, ZenonT(30) DEF Eviction, BlobAges, JobAges, EvictJobs, EvictScan, EvictDelete, RemoveFile,
                   tables
<1>4. ASSUME RemoveJobs \/ Restart \/ UNCHANGED vars
      PROVE  /\ blob' = blob
             /\ jobRow' = jobRow \/ RemoveJobs
             /\ evict' = evict \/ Restart
             /\ disk' = disk \/ Restart
             /\ remove' = remove \/ Restart
  BY ONLY <1>4, ZenonT(30) DEF RemoveJobs, Restart, vars, tables
<1>5. \/ \E j \in Jobs : Client(j)
      \/ \E j \in Jobs : Server(j)
      \/ Eviction
      \/ RemoveJobs \/ Restart \/ UNCHANGED vars
  BY ONLY [Next]_vars DEF Next
<1>6. CASE \E j \in Jobs : Client(j)
  BY ONLY <1>1, <1>6
<1>7. CASE \E j \in Jobs : Server(j)
  <2>1. PICK j \in Jobs : Server(j)
    BY <1>7
  <2> QED
    BY ONLY <1>2, <2>1
<1>8. CASE Eviction
  BY ONLY <1>3, <1>8
<1>9. CASE RemoveJobs \/ Restart \/ UNCHANGED vars
  BY ONLY <1>4, <1>9
<1> QED
  BY ONLY <1>5, <1>6, <1>7, <1>8, <1>9

\* Rows are made by upsert_blob, and keep their key and hash.
LEMMA BlobsStep ==
  ASSUME ProtocolInv, StoreInv, [Next]_vars
  PROVE  BlobsFit'
<1>0. BlobsFit
  BY DEF StoreInv
<1>1. CASE blob' = blob
  BY ONLY <1>0, <1>1 DEF BlobsFit
<1>2. CASE EvictDelete
  <2>1. blob' = blob \/ blob' = Restrict(blob, DOMAIN blob \ evict)
    BY ONLY <1>2 DEF EvictDelete
  <2>2. DOMAIN blob' \subseteq DOMAIN blob /\ \A i \in DOMAIN blob' : blob'[i] = blob[i]
    BY ONLY <2>1 DEF Restrict
  <2> QED
    BY ONLY <1>0, <2>2 DEF BlobsFit
<1>3. ASSUME NEW j \in Jobs, UpsertBlob(j) PROVE BlobsFit'
  <2>1. PICK id :
    /\ DOMAIN blob' = DOMAIN blob \cup {id} /\ \A i \in DOMAIN blob \ {id} : blob'[i] = blob[i]
    /\ req[j].part \in {"file", "stdout"}
    /\ req[j].part = "file" =>
         id = <<"file", j>> /\ blob'[id] = [key |-> j, hash |-> j, old |-> FALSE]
    /\ req[j].part = "stdout" =>
         TextOf(id, Key[j]) /\ blob'[id] = [key |-> Key[j], hash |-> Key[j], old |-> FALSE]
    BY ONLY ProtocolInv, <1>0, <1>3, Upserted, ZenonT(30)
  <2>2. Key[j] \in Range(Key)
    BY ONLY <1>3, RemoteAssumption DEF Range
  <2>3. /\ blob'[id] \in [key : Jobs \cup Range(Key), hash : Jobs \cup Range(Key), old : BOOLEAN]
        /\ blob'[id].hash = blob'[id].key
    <3>1. ASSUME NEW c \in Jobs \cup Range(Key), blob'[id] = [key |-> c, hash |-> c, old |-> FALSE]
          PROVE  /\ blob'[id] \in [key : Jobs \cup Range(Key), hash : Jobs \cup Range(Key), old : BOOLEAN]
                 /\ blob'[id].hash = blob'[id].key
      BY ONLY <3>1
    <3> QED
      BY ONLY <1>3, <2>1, <2>2, <3>1
  <2>4. \/ \E x \in Jobs : id = <<"file", x>> /\ blob'[id].key = x
        \/ \E x \in Jobs : id = <<"stdout", x>> /\ blob'[id].key = Key[x]
    <3>0. ASSUME NEW c, blob'[id] = [key |-> c, hash |-> c, old |-> FALSE] PROVE blob'[id].key = c
      BY ONLY <3>0
    <3>1. CASE req[j].part = "file"
      <4>1. id = <<"file", j>> /\ blob'[id].key = j
        BY ONLY <2>1, <3>0, <3>1
      <4> QED
        BY ONLY <1>3, <4>1
    <3>2. CASE req[j].part = "stdout"
      <4>1. TextOf(id, Key[j]) /\ blob'[id].key = Key[j]
        BY ONLY <2>1, <3>0, <3>2
      <4> QED
        BY ONLY <4>1 DEF TextOf
    <3> QED
      BY ONLY <2>1, <3>1, <3>2
  <2>5. ASSUME NEW i \in DOMAIN blob, i # id
        PROVE  blob'[i] = blob[i]
    BY ONLY <2>1, <2>5
  <2>6. ASSUME NEW i \in DOMAIN blob', i # id
        PROVE  i \in DOMAIN blob /\ blob'[i] = blob[i]
    BY ONLY <2>1, <2>5, <2>6
  <2>7. ASSUME NEW i \in DOMAIN blob'
        PROVE  /\ blob'[i] \in [key : Jobs \cup Range(Key), hash : Jobs \cup Range(Key), old : BOOLEAN]
               /\ blob'[i].hash = blob'[i].key
               /\ \/ \E x \in Jobs : i = <<"file", x>> /\ blob'[i].key = x
                  \/ \E x \in Jobs : i = <<"stdout", x>> /\ blob'[i].key = Key[x]
    <3>1. CASE i = id
      BY ONLY <2>3, <2>4, <3>1
    <3>2. CASE i # id
      BY ONLY <1>0, <2>6, <2>7, <3>2 DEF BlobsFit
    <3> QED
      BY ONLY <3>1, <3>2
  <2> QED
    BY ONLY <2>7 DEF BlobsFit
<1>4. ASSUME NEW i \in Parts \X Jobs, BlobAges(i) PROVE BlobsFit'
  <2>1. i \in DOMAIN blob /\ blob' = [blob EXCEPT ![i] = [blob[i] EXCEPT !.old = TRUE]]
    BY ONLY <1>4 DEF BlobAges
  <2>2. DOMAIN blob' = DOMAIN blob /\ \A x \in DOMAIN blob \ {i} : blob'[x] = blob[x]
    BY ONLY <2>1
  <2>3. blob'[i] = [blob[i] EXCEPT !.old = TRUE]
    BY ONLY <2>1
  <2>4. /\ blob'[i] \in [key : Jobs \cup Range(Key), hash : Jobs \cup Range(Key), old : BOOLEAN]
        /\ blob'[i].hash = blob[i].hash /\ blob'[i].key = blob[i].key
    BY ONLY <1>0, <2>1, <2>3, ZenonT(30) DEF BlobsFit
  <2>5. ASSUME NEW x \in DOMAIN blob
        PROVE  /\ blob'[x] \in [key : Jobs \cup Range(Key), hash : Jobs \cup Range(Key), old : BOOLEAN]
               /\ blob'[x].hash = blob[x].hash /\ blob'[x].key = blob[x].key
    BY ONLY <1>0, <2>2, <2>4, <2>5 DEF BlobsFit
  <2> QED
    BY ONLY <1>0, <2>2, <2>5 DEF BlobsFit
<1> QED
  BY ONLY [Next]_vars, <1>1, <1>2, <1>3, <1>4, StoreFrame

\* Only the statement that chose them deletes rows.
LEMMA EvictStep ==
  ASSUME ProtocolInv, StoreInv, [Next]_vars
  PROVE  evict' \subseteq DOMAIN blob'
<1>0. evict \subseteq DOMAIN blob /\ BlobsFit
  BY DEF StoreInv
<1>1. CASE EvictScan
  BY ONLY <1>1 DEF EvictScan, Eligible, tables
<1>2. CASE EvictDelete \/ Restart
  BY ONLY <1>2 DEF EvictDelete, Restart
<1>3. CASE evict' = evict /\ ~EvictDelete
  <2>1. ASSUME NEW j \in Jobs, UpsertBlob(j) PROVE DOMAIN blob \subseteq DOMAIN blob'
    BY ONLY ProtocolInv, <1>0, <2>1, Upserted, ZenonT(30)
  <2>2. ASSUME NEW i \in Parts \X Jobs, BlobAges(i) PROVE DOMAIN blob \subseteq DOMAIN blob'
    BY ONLY <2>2 DEF BlobAges
  <2> QED
    BY ONLY [Next]_vars, <1>0, <1>3, <2>1, <2>2, StoreFrame
<1> QED
  BY ONLY [Next]_vars, <1>1, <1>2, <1>3, StoreFrame

\* A file has its content, or was cut short.
LEMMA DiskStep ==
  ASSUME StoreInv, [Next]_vars
  PROVE  DiskFits'
<1>0. DiskFits
  BY DEF StoreInv
<1>1. CASE disk' = disk
  BY ONLY <1>0, <1>1 DEF DiskFits
<1>2. CASE Restart
  BY ONLY <1>0, <1>2 DEF DiskFits, Restart
<1>3. ASSUME NEW j \in Jobs, StreamBlob(j) PROVE DiskFits'
  BY ONLY <1>0, <1>3 DEF DiskFits, StreamBlob
<1>4. ASSUME NEW k \in Jobs, RemoveFile(k) PROVE DiskFits'
  BY ONLY <1>0, <1>4 DEF DiskFits, RemoveFile, Restrict
<1> QED
  BY ONLY [Next]_vars, <1>1, <1>2, <1>3, <1>4, StoreFrame

\* The ids that a job has are ids of rows with its contents.
LEMMA IdsStep ==
  ASSUME ProtocolInv, StoreInv, [Next]_vars, NEW i \in Jobs
  PROVE  IdsFit(i)'
<1>0. Domains /\ ReqShape(i) /\ Protocol(i) /\ IdsFit(i) /\ BlobsFit
  BY DEF ProtocolInv, StoreInv
<1>1. CASE ids'[i] = ids[i] /\ req'[i] = req[i]
  BY ONLY <1>0, <1>1 DEF IdsFit, IdFits, TextOf
<1>2. ASSUME NEW j \in Jobs \ {i}, Client(j) \/ Server(j) PROVE IdsFit(i)'
  <2>1. Others(j)
    BY ONLY <1>0, <1>2, JobStep
  <2> QED
    BY ONLY <1>1, <1>2, <2>1, i \in Jobs DEF Others
<1>3. CASE Server(i)
  <2>1. ids' = ids
    BY ONLY <1>3 DEF Server, ReadJob, ReadOutputs, ResolveBlobs, AllowJob, StreamBlob,
                     UpsertBlob, AddJob, HandlerFails, client
  <2>2. CASE ~(req'[i].route = "blob" /\ req'[i].step = "answer")
    BY ONLY <1>0, <2>1, <2>2 DEF IdsFit, IdFits, TextOf
  <2>3. CASE UpsertBlob(i)
    <3>1. PICK id : /\ req[i].route = "blob" /\ req[i].part \in {"file", "stdout"}
                    /\ req[i].part = "file" => id = <<"file", i>>
                    /\ req[i].part = "stdout" => TextOf(id, Key[i])
                    /\ Answer(i, [status |-> "ok", id |-> id])
      BY ONLY ProtocolInv, <1>0, <2>3, i \in Jobs, Upserted, ZenonT(30)
    <3>2. req'[i].answer = [status |-> "ok", id |-> id] /\ req'[i].part = req[i].part
      BY ONLY <1>0, <3>1, i \in Jobs, AnswerShape
    <3>3. IdFits(req'[i].answer.id, req'[i].part, i)
      <4>1. req'[i].answer.id = id
        BY ONLY <3>2
      <4>2. IdFits(id, req[i].part, i)
        BY ONLY <3>1 DEF IdFits
      <4> QED
        BY ONLY <3>2, <4>1, <4>2
    <3> QED
      BY ONLY <1>0, <2>1, <3>3 DEF IdsFit, IdFits, TextOf
  <2>4. CASE HandlerFails(i) /\ req[i].route = "blob"
    <3>1. Answer(i, [status |-> "error", id |-> None])
      BY ONLY <2>4 DEF HandlerFails
    <3>2. req'[i].answer = [status |-> "error", id |-> None]
      BY ONLY <1>0, <2>4, <3>1, i \in Jobs, AnswerShape
    <3>3. IdFits(req'[i].answer.id, req'[i].part, i)
      BY ONLY <3>2 DEF IdFits
    <3> QED
      BY ONLY <1>0, <2>1, <3>3 DEF IdsFit, IdFits, TextOf
  <2>5. CASE StreamBlob(i)
    <3>1. req'[i] = [req[i] EXCEPT !.step = "upsert"] /\ "step" \in DOMAIN req[i]
      BY ONLY <1>0, <2>5, i \in Jobs DEF StreamBlob, Handler, Domains, ReqShape
    <3>2. req'[i]["step"] = "upsert"
      BY ONLY <3>1
    <3> QED
      BY ONLY <2>2, <3>2
  <2>6. CASE req[i].route \notin {"blob", "idle"}
    <3>1. req'[i].route = req[i].route
      <4>1. CASE \E a : Answer(i, a)
        BY ONLY <1>0, <2>6, <4>1, i \in Jobs, AnswerShape
      <4>2. CASE ReadJob(i) /\ ~\E a : Answer(i, a)
        BY ONLY <1>0, <4>2, i \in Jobs, ReadRoute
      <4>3. CASE ReadOutputs(i) /\ ~\E a : Answer(i, a)
        BY ONLY <1>0, <4>3, i \in Jobs, ReadRoute
      <4> QED
        BY ONLY <1>3, <2>6, <4>1, <4>2, <4>3
           DEF Server, ResolveBlobs, AllowJob, StreamBlob, UpsertBlob, AddJob, HandlerFails, Handler
    <3> QED
      BY ONLY <2>2, <2>6, <3>1
  <2> QED
    BY ONLY <1>0, <1>3, <2>3, <2>4, <2>5, <2>6
       DEF Server, ReadJob, ReadOutputs, ResolveBlobs, AllowJob, AddJob, HandlerFails, Handler,
           ReqShape
<1>4. CASE Client(i)
  <2>1. CASE ids' = ids
    <3>1. CASE req' = req
      BY ONLY <1>1, <2>1, <3>1
    <3>0. ASSUME ~(req'[i].route = "blob" /\ req'[i].step = "answer") PROVE IdsFit(i)'
      BY ONLY <1>0, <2>1, <3>0 DEF IdsFit, IdFits, TextOf
    <3>2. CASE req'[i] = Idle
      <4>1. req'[i].route # "blob"
        BY ONLY <3>2 DEF Idle
      <4> QED
        BY ONLY <3>0, <4>1
    <3>3. CASE \E r \in {"matching", "allowed", "job"} : \E s : Send(i, [route |-> r, step |-> s])
      <4>1. req'[i].route # "blob"
        BY ONLY <1>0, <3>3, i \in Jobs, SendShape
      <4> QED
        BY ONLY <3>0, <4>1
    <3>4. CASE \E p : Send(i, [route |-> "blob", step |-> "stream", part |-> p])
      <4>1. req'[i].step = "stream"
        BY ONLY <1>0, <3>4, i \in Jobs, StreamShape
      <4> QED
        BY ONLY <3>0, <4>1
    <3> QED
      <4>1. \/ req' = req \/ Send(i, Idle)
            \/ \E r \in {"matching", "allowed", "job"} : \E s : Send(i, [route |-> r, step |-> s])
            \/ \E p : Send(i, [route |-> "blob", step |-> "stream", part |-> p])
        BY ONLY <1>4 DEF Client, Begin, Found, Download, Materialize, Run, Allowed, UploadBlob,
                         Uploaded, PostJob, Posted, Timeout
      <4> QED
        BY ONLY <1>0, <3>1, <3>2, <3>3, <3>4, <4>1, i \in Jobs DEF Send, Domains
  <2>2. ASSUME NEW p, NEW v, IdFits(v, p, i), req'[i] = Idle,
               ids' = [ids EXCEPT ![i] = [q \in DOMAIN @ \cup {p} |-> IF q = p THEN v ELSE @[q]]]
        PROVE  IdsFit(i)'
    <3>1. /\ DOMAIN ids'[i] = DOMAIN ids[i] \cup {p} /\ ids'[i][p] = v
          /\ \A q \in DOMAIN ids[i] \ {p} : ids'[i][q] = ids[i][q]
      <4>1. ids'[i] = [q \in DOMAIN ids[i] \cup {p} |-> IF q = p THEN v ELSE ids[i][q]]
        BY ONLY <1>0, <2>2, i \in Jobs DEF Domains
      <4> QED
        BY ONLY <4>1
    <3>2. ASSUME NEW q \in DOMAIN ids'[i] PROVE IdFits(ids'[i][q], q, i)
      BY ONLY <1>0, <2>2, <3>1, <3>2 DEF IdsFit
    <3>3. req'[i].route # "blob"
      BY ONLY <2>2 DEF Idle
    <3> QED
      BY ONLY <3>2, <3>3 DEF IdsFit, IdFits, TextOf
  <2>4. CASE Uploaded(i)
    <3>1. IdFits(req[i].answer.id, req[i].part, i)
      BY ONLY <1>0, <2>4 DEF Uploaded, Answered, IdsFit
    <3> QED
      BY ONLY <1>0, <2>2, <2>4, <3>1, i \in Jobs, ZenonT(30) DEF Uploaded, Send, Domains
  <2>5. CASE Timeout(i) /\ ids' # ids
    <3>1. IdFits(None, req[i].part, i)
      BY DEF IdFits
    <3> QED
      BY ONLY <1>0, <2>2, <2>5, <3>1, i \in Jobs DEF Timeout, GiveUp, Send, Domains
  <2>6. ASSUME NEW p \in Parts, UploadBlob(i, p), ids' # ids PROVE IdsFit(i)'
    <3>1. IdFits(None, p, i)
      BY DEF IdFits
    <3>2. req'[i] = Idle
      BY ONLY <2>6 DEF UploadBlob
    <3> QED
      BY ONLY <2>2, <2>6, <3>1, <3>2, ZenonT(30) DEF UploadBlob
  <2> QED
    BY ONLY <1>4, <2>1, <2>4, <2>5, <2>6
       DEF Client, Begin, Found, Download, Materialize, Run, Allowed, PostJob, Posted
<1>5. CASE Restart
  <2>1. ids' = ids
    BY ONLY <1>5 DEF Restart, client
  <2>2. CASE req'[i] = req[i]
    BY ONLY <1>1, <2>1, <2>2
  <2>3. CASE req'[i].answer = [status |-> "error", id |-> None]
    <3>1. IdFits(req'[i].answer.id, req'[i].part, i)
      BY ONLY <2>3 DEF IdFits
    <3> QED
      BY ONLY <1>0, <2>1, <3>1 DEF IdsFit, IdFits, TextOf
  <2> QED
    BY ONLY ProtocolInv, <1>5, <2>2, <2>3, i \in Jobs, RestartFields
<1>6. CASE Eviction \/ RemoveJobs \/ UNCHANGED vars
  BY ONLY <1>1, <1>6, ZenonT(30) DEF Eviction, BlobAges, JobAges, EvictJobs, EvictScan, EvictDelete,
                         RemoveFile, RemoveJobs, vars, client
<1> QED
  BY ONLY [Next]_vars, i \in Jobs, <1>2, <1>3, <1>4, <1>5, <1>6 DEF Next

\* A job whose file has not had a row so far had none before.
LEMMA FreshBefore ==
  ASSUME ProtocolInv, [Next]_vars, NEW i \in Jobs, Fresh(i)'
  PROVE  Fresh(i) /\ ~(UpsertBlob(i) /\ req[i].part = "file")
<1>0. Domains /\ ReqShape(i) /\ Protocol(i)
  BY DEF ProtocolInv
<1>1. CASE UNCHANGED <<ids, req>> /\ ~Server(i)
  BY ONLY <1>1, Fresh(i)' DEF Fresh, Server
<1>2. ASSUME NEW j \in Jobs \ {i}, Client(j) \/ Server(j), ~Server(i)
      PROVE  Fresh(i) /\ ~(UpsertBlob(i) /\ req[i].part = "file")
  <2>1. Others(j)
    BY ONLY <1>0, <1>2, JobStep
  <2> QED
    BY ONLY <1>2, <2>1, i \in Jobs, Fresh(i)' DEF Others, Fresh, Server
<1>3. CASE Server(i)
  <2>1. ids' = ids
    BY ONLY <1>3 DEF Server, ReadJob, ReadOutputs, ResolveBlobs, AllowJob, StreamBlob,
                     UpsertBlob, AddJob, HandlerFails, client
  <2>2. req[i].step # "answer"
    BY ONLY <1>3 DEF Server, ReadJob, ReadOutputs, ResolveBlobs, AllowJob, StreamBlob,
                     UpsertBlob, AddJob, HandlerFails, Handler
  <2>3. CASE UpsertBlob(i)
    <3>1. req[i].route = "blob" /\ \E a : Answer(i, a)
      BY ONLY <2>3 DEF UpsertBlob, Handler
    <3>2. req'[i].route = "blob" /\ req'[i].step = "answer" /\ req'[i].part = req[i].part
      BY ONLY <1>0, <3>1, i \in Jobs, AnswerShape
    <3> QED
      BY ONLY <2>1, <2>2, <3>2, Fresh(i)' DEF Fresh
  <2> QED
    BY ONLY <2>1, <2>2, <2>3, Fresh(i)' DEF Fresh
<1>4. CASE Client(i)
  <2>1. req'[i].route # "blob" => req[i].route # "blob" \/ req[i].part \in DOMAIN ids'[i]
    <3>1. CASE Uploaded(i)
      BY ONLY <1>0, <3>1, i \in Jobs DEF Uploaded, Domains
    <3>2. CASE Timeout(i)
      <4>1. CASE pc[i] = "upload"
        BY ONLY <1>0, <3>2, <4>1, i \in Jobs DEF Timeout, GiveUp, Domains
      <4>2. CASE pc[i] # "upload"
        BY ONLY <1>0, <4>2 DEF Protocol
      <4> QED
        BY ONLY <4>1, <4>2
    <3>3. CASE pc[i] # "upload"
      BY ONLY <1>0, <3>3 DEF Protocol
    <3>4. ASSUME NEW p \in Parts, UploadBlob(i, p) PROVE req[i].route # "blob"
      BY ONLY <3>4 DEF UploadBlob, Idle
    <3>5. CASE PostJob(i)
      <4>1. req[i] = Idle
        BY ONLY <3>5 DEF PostJob
      <4> QED
        BY ONLY <4>1 DEF Idle
    <3> QED
      BY ONLY <1>4, <3>1, <3>2, <3>3, <3>4, <3>5
         DEF Client, Begin, Found, Download, Materialize, Run, Allowed, Posted
  <2>2. DOMAIN ids[i] \subseteq DOMAIN ids'[i]
    <3>1. ASSUME NEW p, NEW v,
                 ids' = [ids EXCEPT ![i] = [q \in DOMAIN @ \cup {p} |-> IF q = p THEN v ELSE @[q]]]
          PROVE  DOMAIN ids[i] \subseteq DOMAIN ids'[i]
      <4>1. ids'[i] = [q \in DOMAIN ids[i] \cup {p} |-> IF q = p THEN v ELSE ids[i][q]]
        BY ONLY <1>0, <3>1, i \in Jobs DEF Domains
      <4> QED
        BY ONLY <4>1
    <3>2. CASE ids' = ids
      BY ONLY <3>2
    <3>3. CASE Uploaded(i)
      BY ONLY <3>1, <3>3, ZenonT(30) DEF Uploaded
    <3>4. CASE Timeout(i) /\ ids' # ids
      <4>1. ids' = [ids EXCEPT ![i] = [q \in DOMAIN @ \cup {req[i].part} |->
                                         IF q = req[i].part THEN None ELSE @[q]]]
        BY ONLY <3>4 DEF Timeout, GiveUp
      <4> QED
        BY ONLY <3>1, <4>1
    <3>5. ASSUME NEW p \in Parts, UploadBlob(i, p), ids' # ids
          PROVE  DOMAIN ids[i] \subseteq DOMAIN ids'[i]
      <4>1. ids' = [ids EXCEPT ![i] = [q \in DOMAIN @ \cup {p} |-> IF q = p THEN None ELSE @[q]]]
        BY ONLY <3>5 DEF UploadBlob
      <4> QED
        BY ONLY <3>1, <4>1
    <3>6. ids' = ids \/ Uploaded(i) \/ Timeout(i) \/ \E p \in Parts : UploadBlob(i, p)
      BY ONLY <1>4 DEF Client, Begin, Found, Download, Materialize, Run, Allowed, PostJob, Posted
    <3> QED
      BY ONLY <3>2, <3>3, <3>4, <3>5, <3>6
  <2>3. req'[i].route = "blob" => req' = req \/ req[i] = Idle
    <3>1. \/ req' = req \/ Send(i, Idle) \/ req[i] = Idle
          \/ \E r \in {"matching", "allowed", "job"} : \E s : Send(i, [route |-> r, step |-> s])
      BY ONLY <1>4 DEF Client, Begin, Found, Download, Materialize, Run, Allowed, UploadBlob,
                       Uploaded, PostJob, Posted, Timeout
    <3>2. ASSUME NEW r \in {"matching", "allowed", "job"}, NEW s,
                 Send(i, [route |-> r, step |-> s])
          PROVE  req'[i].route # "blob"
      BY ONLY <1>0, <3>2, i \in Jobs DEF Send, Domains
    <3>3. ASSUME Send(i, Idle) PROVE req'[i].route # "blob"
      BY ONLY <1>0, <3>3, i \in Jobs DEF Send, Idle, Domains
    <3> QED
      BY ONLY <3>1, <3>2, <3>3, ZenonT(30)
  <2>4. req[i] = Idle => req[i].route # "blob"
    BY DEF Idle
  <2>5. UpsertBlob(i) => req' # req
    <3>1. ASSUME UpsertBlob(i) PROVE req'[i].step = "answer" /\ req[i].step = "upsert"
      <4>1. req[i].route = "blob" /\ req[i].step = "upsert" /\ \E a : Answer(i, a)
        BY ONLY <3>1 DEF UpsertBlob, Handler
      <4> QED
        BY ONLY <1>0, <4>1, i \in Jobs, AnswerShape
    <3> QED
      BY ONLY <3>1
  <2>6. Fresh(i)
    BY ONLY <2>1, <2>2, <2>3, <2>4, Fresh(i)' DEF Fresh
  <2>7. CASE UpsertBlob(i)
    BY ONLY <1>3, <2>7 DEF Server
  <2> QED
    BY ONLY <2>6, <2>7
<1>5. CASE Restart /\ ~Server(i)
  <2>1. ids' = ids
    BY ONLY <1>5 DEF Restart, client
  <2>2. req'[i] = req[i] \/ req[i].step # "answer"
    BY ONLY ProtocolInv, <1>5, i \in Jobs, RestartFields
  <2> QED
    BY ONLY <1>5, <2>1, <2>2, Fresh(i)' DEF Fresh, Server
<1>6. ASSUME Eviction \/ RemoveJobs \/ UNCHANGED vars PROVE UNCHANGED <<ids, req>>
  BY ONLY <1>6, ZenonT(30) DEF Eviction, BlobAges, JobAges, EvictJobs, EvictScan, EvictDelete,
                   RemoveFile, RemoveJobs, vars, client
<1> QED
  BY ONLY [Next]_vars, i \in Jobs, <1>1, <1>2, <1>3, <1>4, <1>5, <1>6 DEF Next

\* Where rows and the tasks of eviction come from.
LEMMA RowSource ==
  ASSUME ProtocolInv, StoreInv, [Next]_vars, NEW i \in Jobs, <<"file", i>> \in DOMAIN blob'
  PROVE  <<"file", i>> \in DOMAIN blob \/ (UpsertBlob(i) /\ req[i].part = "file")
<1>0. BlobsFit
  BY DEF StoreInv
<1>1. CASE EvictDelete
  BY ONLY <1>1, <<"file", i>> \in DOMAIN blob' DEF EvictDelete, Restrict
<1>2. ASSUME NEW j \in Jobs, UpsertBlob(j)
      PROVE  <<"file", i>> \in DOMAIN blob \/ (UpsertBlob(i) /\ req[i].part = "file")
  <2>1. PICK id : /\ DOMAIN blob' = DOMAIN blob \cup {id}
                  /\ req[j].part \in {"file", "stdout"}
                  /\ req[j].part = "file" => id = <<"file", j>>
                  /\ req[j].part = "stdout" => TextOf(id, Key[j])
    BY ONLY ProtocolInv, <1>0, <1>2, Upserted, ZenonT(30)
  <2>2. CASE req[j].part = "file"
    <3>1. <<"file", i>> \in DOMAIN blob \/ <<"file", i>> = <<"file", j>>
      BY ONLY <2>1, <2>2, <<"file", i>> \in DOMAIN blob'
    <3>2. <<"file", i>> = <<"file", j>> => i = j
      OBVIOUS
    <3> QED
      BY ONLY <1>2, <2>2, <3>1, <3>2
  <2>3. CASE req[j].part = "stdout"
    <3>1. id # <<"file", i>>
      BY ONLY <2>1, <2>3 DEF TextOf
    <3> QED
      BY ONLY <2>1, <3>1, <<"file", i>> \in DOMAIN blob'
  <2> QED
    BY ONLY <2>1, <2>2, <2>3
<1>3. ASSUME NEW x \in Parts \X Jobs, BlobAges(x) PROVE DOMAIN blob' = DOMAIN blob
  BY ONLY <1>3 DEF BlobAges
<1> QED
  BY ONLY [Next]_vars, <<"file", i>> \in DOMAIN blob', <1>1, <1>2, <1>3, StoreFrame

\* A file is handed to the tasks of eviction together with its row.
LEMMA RemoveSource ==
  ASSUME StoreInv, [Next]_vars, NEW i \in Jobs, i \in remove'
  PROVE  \/ i \in remove
         \/ <<"file", i>> \in DOMAIN blob /\ <<"file", i>> \notin DOMAIN blob'
<1>1. CASE EvictDelete /\ i \notin remove
  <2>1. /\ blob' = Restrict(blob, DOMAIN blob \ evict)
        /\ i \in {blob[e].key : e \in {x \in evict : x[1] = "file"}}
    BY ONLY <1>1, i \in remove' DEF EvictDelete
  <2>2. PICK e \in evict : e[1] = "file" /\ blob[e].key = i
    BY ONLY <2>1
  <2>3. e = <<"file", i>> /\ e \in DOMAIN blob
    BY ONLY StoreInv, <2>2 DEF StoreInv, BlobsFit
  <2> QED
    BY ONLY <2>1, <2>2, <2>3 DEF Restrict
<1>2. CASE Restart
  BY ONLY <1>2, i \in remove' DEF Restart
<1>3. ASSUME NEW k \in Jobs, RemoveFile(k) PROVE i \in remove
  BY ONLY <1>3, i \in remove' DEF RemoveFile
<1> QED
  BY ONLY [Next]_vars, i \in remove', <1>1, <1>2, <1>3, StoreFrame

\* A file that has a row, or is to get one, is deleted by nobody.
LEMMA FilesStep ==
  ASSUME ProtocolInv, StoreInv, [Next]_vars, NEW i \in Jobs
  PROVE  FilesKept(i)'
<1>0. Domains /\ ReqShape(i) /\ Protocol(i) /\ FilesKept(i)
  BY DEF ProtocolInv, StoreInv
<1>1. Handler(i, "blob", "upsert") /\ req[i].part = "file" => Fresh(i)
  BY ONLY <1>0 DEF Handler, Protocol, Fresh
<1>2. i \in DOMAIN disk /\ i \notin remove => i \in DOMAIN disk'
  <2>1. ASSUME NEW j \in Jobs, StreamBlob(j) PROVE DOMAIN disk \subseteq DOMAIN disk'
    BY ONLY <2>1 DEF StreamBlob
  <2>2. ASSUME NEW k \in Jobs, RemoveFile(k), i \in DOMAIN disk, i \notin remove
        PROVE  i \in DOMAIN disk'
    BY ONLY <2>2 DEF RemoveFile, Restrict
  <2>3. CASE Restart
    BY ONLY <2>3 DEF Restart
  <2> QED
    BY ONLY [Next]_vars, <2>1, <2>2, <2>3, StoreFrame
<1>3. <<"file", i>> \in DOMAIN blob' => i \in DOMAIN disk /\ i \notin remove
  <2>1. UpsertBlob(i) => Handler(i, "blob", "upsert")
    BY ONLY TRUE DEF UpsertBlob
  <2> QED
    BY ONLY ProtocolInv, StoreInv, [Next]_vars, i \in Jobs, <1>0, <1>1, <2>1, RowSource
       DEF FilesKept, Handler
<1>4. <<"file", i>> \in DOMAIN blob' => i \in DOMAIN disk' /\ i \notin remove'
  BY ONLY StoreInv, [Next]_vars, i \in Jobs, <1>2, <1>3, RemoveSource
<1>5. Fresh(i)' => <<"file", i>> \notin DOMAIN blob' /\ i \notin remove'
  <2> SUFFICES ASSUME Fresh(i)' PROVE <<"file", i>> \notin DOMAIN blob' /\ i \notin remove'
    OBVIOUS
  <2>1. Fresh(i) /\ ~(UpsertBlob(i) /\ req[i].part = "file")
    BY FreshBefore
  <2>2. <<"file", i>> \notin DOMAIN blob /\ i \notin remove
    BY ONLY <1>0, <2>1 DEF FilesKept
  <2> QED
    BY ONLY ProtocolInv, StoreInv, [Next]_vars, i \in Jobs, <2>1, <2>2, RowSource, RemoveSource
<1>6. req'[i].route = "blob" /\ req'[i].part = "file" /\ req'[i].step = "upsert" => i \in DOMAIN disk'
  <2> SUFFICES ASSUME req'[i].route = "blob", req'[i].part = "file", req'[i].step = "upsert"
               PROVE  i \in DOMAIN disk'
    OBVIOUS
  <2>1. CASE req'[i] = req[i]
    BY ONLY <1>0, <1>1, <1>2, <2>1, req'[i].route = "blob", req'[i].part = "file",
            req'[i].step = "upsert"
       DEF FilesKept, Handler
  <2>2. CASE StreamBlob(i)
    <3>1. req'[i] = [req[i] EXCEPT !.step = "upsert"] /\ "part" \in DOMAIN req[i]
      BY ONLY <1>0, <2>2, i \in Jobs DEF StreamBlob, Handler, Domains, ReqShape
    <3>2. req'[i]["part"] = req[i]["part"]
      BY ONLY <3>1
    <3> QED
      BY ONLY <2>2, <3>2, req'[i].part = "file" DEF StreamBlob
  <2>3. ASSUME NEW j \in Jobs \ {i}, Client(j) \/ Server(j) PROVE req'[i] = req[i]
    BY ONLY <1>0, <2>3, i \in Jobs, JobStep DEF Others
  <2>4. CASE Server(i) /\ ~StreamBlob(i)
    <3>1. CASE \E a : Answer(i, a)
      <4>1. req[i].route # "idle"
        BY ONLY <1>0, <2>4 DEF Server, ReadJob, ReadOutputs, ResolveBlobs, AllowJob, UpsertBlob,
                               AddJob, HandlerFails, Handler, ReqShape
      <4>2. req'[i].step = "answer"
        BY ONLY <1>0, <3>1, <4>1, i \in Jobs, AnswerShape
      <4> QED
        BY ONLY <4>2, req'[i].step = "upsert"
    <3>2. CASE (ReadJob(i) \/ ReadOutputs(i)) /\ ~\E a : Answer(i, a)
      <4>1. req'[i].route = "matching"
        BY ONLY <1>0, <3>2, i \in Jobs, ReadRoute
      <4> QED
        BY ONLY <4>1, req'[i].route = "blob"
    <3> QED
      BY ONLY <2>4, <3>1, <3>2
         DEF Server, ResolveBlobs, AllowJob, UpsertBlob, AddJob, HandlerFails
  <2>5. CASE Client(i)
    <3>1. CASE req' = req
      BY ONLY <2>1, <3>1
    <3>2. CASE Send(i, Idle) \/ \E r \in {"matching", "allowed", "job"} : \E s :
                                  Send(i, [route |-> r, step |-> s])
      <4>1. req'[i].route # "blob"
        <5>1. CASE Send(i, Idle)
          <6>1. req'[i] = Idle
            BY ONLY <1>0, <5>1, i \in Jobs DEF Send, Domains
          <6> QED
            BY ONLY <6>1 DEF Idle
        <5>2. ASSUME NEW r \in {"matching", "allowed", "job"}, NEW s,
                     Send(i, [route |-> r, step |-> s])
              PROVE  req'[i].route # "blob"
          <6>1. req'[i] = [route |-> r, step |-> s]
            BY ONLY <1>0, <5>2, i \in Jobs DEF Send, Domains
          <6> QED
            BY ONLY <6>1, r \in {"matching", "allowed", "job"}
        <5> QED
          BY ONLY <3>2, <5>1, <5>2
      <4> QED
        BY ONLY <4>1, req'[i].route = "blob"
    <3>3. CASE \E p : Send(i, [route |-> "blob", step |-> "stream", part |-> p])
      <4>1. req'[i].step = "stream"
        BY ONLY <1>0, <3>3, i \in Jobs, StreamShape
      <4> QED
        BY ONLY <4>1, req'[i].step = "upsert"
    <3> QED
      BY ONLY <2>5, <3>1, <3>2, <3>3
         DEF Client, Begin, Found, Download, Materialize, Run, Allowed, UploadBlob,
             Uploaded, PostJob, Posted, Timeout
  <2>6. CASE Restart
    BY ONLY ProtocolInv, <2>1, <2>6, i \in Jobs, req'[i].step = "upsert", RestartFields
  <2>7. CASE Eviction \/ RemoveJobs \/ UNCHANGED vars
    BY ONLY <2>1, <2>7, ZenonT(30) DEF Eviction, BlobAges, JobAges, EvictJobs, EvictScan, EvictDelete,
                           RemoveFile, RemoveJobs, vars
  <2> QED
    BY ONLY [Next]_vars, i \in Jobs, <2>1, <2>2, <2>3, <2>4, <2>5, <2>6, <2>7 DEF Next
<1> QED
  BY ONLY <1>4, <1>5, <1>6 DEF FilesKept

\* A statement of eviction that would take the blob of a job fails as a whole.
LEMMA ReferencedStay ==
  ASSUME ProtocolInv, StoreInv, [Next]_vars, NEW k \in DOMAIN jobRow
  PROVE  jobRow[k].file \in DOMAIN blob' /\ jobRow[k].stdout \in DOMAIN blob'
<1>0. jobRow[k].file \in DOMAIN blob /\ jobRow[k].stdout \in DOMAIN blob /\ BlobsFit
  BY DEF StoreInv, RowFits
<1>1. CASE EvictDelete
  <2>1. CASE evict \cap Referenced(jobRow) = {}
    <3>1. jobRow[k].file \in Referenced(jobRow) /\ jobRow[k].stdout \in Referenced(jobRow)
      BY ONLY k \in DOMAIN jobRow DEF Referenced
    <3>2. DOMAIN blob' = DOMAIN blob \ evict
      BY ONLY <1>1, <2>1 DEF EvictDelete, Restrict
    <3> QED
      BY ONLY <1>0, <2>1, <3>1, <3>2
  <2>2. CASE evict \cap Referenced(jobRow) # {}
    BY ONLY <1>0, <1>1, <2>2 DEF EvictDelete
  <2> QED
    BY ONLY <2>1, <2>2
<1>2. ASSUME NEW j \in Jobs, UpsertBlob(j) PROVE DOMAIN blob \subseteq DOMAIN blob'
  BY ONLY ProtocolInv, <1>0, <1>2, Upserted, ZenonT(30)
<1>3. ASSUME NEW i \in Parts \X Jobs, BlobAges(i) PROVE DOMAIN blob \subseteq DOMAIN blob'
  BY ONLY <1>3 DEF BlobAges
<1> QED
  BY ONLY [Next]_vars, <1>0, <1>1, <1>2, <1>3, StoreFrame

\* The fields of a row never change, and only add_job makes one.
LEMMA RowOrigin ==
  ASSUME StoreInv, [Next]_vars, NEW k \in DOMAIN jobRow'
  PROVE  \/ /\ k \in DOMAIN jobRow /\ DOMAIN jobRow'[k] = DOMAIN jobRow[k]
            /\ jobRow'[k].by = jobRow[k].by /\ jobRow'[k].file = jobRow[k].file
            /\ jobRow'[k].stdout = jobRow[k].stdout
         \/ \E j \in Jobs :
              /\ AddJob(j) /\ k = Key[j] /\ k \notin DOMAIN jobRow /\ jobRow'[k].by = j
              /\ Range(ids[j]) \subseteq DOMAIN blob
              /\ jobRow'[k] = [by |-> j, file |-> ids[j].file, stdout |-> ids[j].stdout, old |-> FALSE]
<1> DEFINE Old == /\ k \in DOMAIN jobRow /\ DOMAIN jobRow'[k] = DOMAIN jobRow[k]
                  /\ jobRow'[k].by = jobRow[k].by /\ jobRow'[k].file = jobRow[k].file
                  /\ jobRow'[k].stdout = jobRow[k].stdout
<1>1. CASE jobRow' = jobRow
  BY ONLY <1>1, k \in DOMAIN jobRow'
<1>2. ASSUME NEW ks, jobRow' = Restrict(jobRow, ks), ks \subseteq DOMAIN jobRow PROVE Old
  BY ONLY <1>2, k \in DOMAIN jobRow' DEF Restrict
<1>3. CASE EvictJobs \/ RemoveJobs
  BY ONLY <1>2, <1>3, ZenonT(30) DEF EvictJobs, RemoveJobs
<1>4. ASSUME NEW h \in Range(Key), JobAges(h) PROVE Old
  <2>1. h \in DOMAIN jobRow /\ jobRow' = [jobRow EXCEPT ![h] = [jobRow[h] EXCEPT !.old = TRUE]]
    BY ONLY <1>4 DEF JobAges
  <2>2. DOMAIN jobRow' = DOMAIN jobRow /\ \A x \in DOMAIN jobRow \ {h} : jobRow'[x] = jobRow[x]
    BY ONLY <2>1
  <2>3. jobRow'[h] = [jobRow[h] EXCEPT !.old = TRUE] /\ DOMAIN jobRow[h] = {"by", "file", "stdout", "old"}
    BY ONLY StoreInv, <2>1 DEF StoreInv, RowFits
  <2>4. /\ DOMAIN jobRow'[h] = DOMAIN jobRow[h]
        /\ jobRow'[h]["by"] = jobRow[h]["by"] /\ jobRow'[h]["file"] = jobRow[h]["file"]
        /\ jobRow'[h]["stdout"] = jobRow[h]["stdout"]
    BY ONLY <2>3
  <2> QED
    BY ONLY <2>1, <2>2, <2>4, k \in DOMAIN jobRow'
<1>5. ASSUME NEW j \in Jobs, AddJob(j), jobRow' # jobRow, ~Old
      PROVE  /\ k = Key[j] /\ k \notin DOMAIN jobRow /\ jobRow'[k].by = j
             /\ Range(ids[j]) \subseteq DOMAIN blob
             /\ jobRow'[k] = [by |-> j, file |-> ids[j].file, stdout |-> ids[j].stdout, old |-> FALSE]
  <2> DEFINE row == [by |-> j, file |-> ids[j].file, stdout |-> ids[j].stdout, old |-> FALSE]
  <2>1. /\ Key[j] \notin DOMAIN jobRow /\ Range(ids[j]) \subseteq DOMAIN blob
        /\ jobRow' = [h \in DOMAIN jobRow \cup {Key[j]} |-> IF h # Key[j] THEN jobRow[h] ELSE row]
    BY ONLY <1>5 DEF AddJob
  <2> HIDE DEF row
  <2>2. k # Key[j] => k \in DOMAIN jobRow /\ jobRow'[k] = jobRow[k]
    BY ONLY <2>1, k \in DOMAIN jobRow'
  <2>3. k = Key[j] => jobRow'[k] = row
    BY ONLY <2>1, k \in DOMAIN jobRow'
  <2>4. row.by = j
    BY DEF row
  <2> QED
    BY ONLY <1>5, <2>1, <2>2, <2>3, <2>4 DEF row
<1> QED
  BY ONLY [Next]_vars, <1>1, <1>3, <1>4, <1>5, StoreFrame

\* A row that is new, or was there before, fits.
LEMMA RowsStep ==
  ASSUME ProtocolInv, StoreInv, [Next]_vars, NEW k \in DOMAIN jobRow'
  PROVE  RowFits(k)'
<1>1. CASE /\ k \in DOMAIN jobRow /\ DOMAIN jobRow'[k] = DOMAIN jobRow[k]
           /\ jobRow'[k].by = jobRow[k].by /\ jobRow'[k].file = jobRow[k].file
           /\ jobRow'[k].stdout = jobRow[k].stdout
  <2>1. RowFits(k)
    BY ONLY StoreInv, <1>1 DEF StoreInv
  <2>2. jobRow[k].by \in Jobs /\ ran[jobRow[k].by] = TRUE /\ Over(jobRow[k].by)
    BY ONLY <2>1 DEF RowFits
  <2>3. ran'[jobRow[k].by] = TRUE
    BY ONLY ProtocolInv, [Next]_vars, <2>2, RanStays, ZenonT(30)
  <2>4. Over(jobRow[k].by)'
    <3> DEFINE o == jobRow[k].by
    <3>1. ASSUME NEW x \in Jobs, x = o PROVE pc'[x] = "done" \/ (pc'[x] = "post" /\ req'[x].step = "answer")
      <4>1. Over(x)
        BY ONLY <2>2, <3>1
      <4>2. Over(x)'
        BY ONLY ProtocolInv, [Next]_vars, <3>1, <4>1, OverStays
      <4> QED
        BY ONLY <4>2 DEF Over
    <3>2. pc'[o] = "done" \/ (pc'[o] = "post" /\ req'[o].step = "answer")
      BY ONLY <2>2, <3>1
    <3> QED
      BY ONLY <1>1, <3>2 DEF Over
  <2>5. jobRow[k].file \in DOMAIN blob' /\ jobRow[k].stdout \in DOMAIN blob'
    BY ONLY ProtocolInv, StoreInv, [Next]_vars, <1>1, ReferencedStay
  <2> QED
    BY ONLY <1>1, <2>1, <2>3, <2>4, <2>5 DEF RowFits, Over, TextOf
<1>2. ASSUME NEW j \in Jobs, AddJob(j), k = Key[j], k \notin DOMAIN jobRow,
             Range(ids[j]) \subseteq DOMAIN blob,
             jobRow'[k] = [by |-> j, file |-> ids[j].file, stdout |-> ids[j].stdout, old |-> FALSE]
      PROVE  RowFits(k)'
  <2>0. Domains /\ ReqShape(j) /\ Protocol(j) /\ IdsFit(j)
    BY ONLY ProtocolInv, StoreInv, <1>2 DEF ProtocolInv, StoreInv
  <2>1. req[j].route = "job" /\ (\E a : Answer(j, a)) /\ blob' = blob /\ pc' = pc /\ ran' = ran
    BY ONLY <1>2 DEF AddJob, Handler, client
  <2>2. pc[j] = "post"
    BY ONLY <2>0, <2>1 DEF Protocol
  <2>3. ran[j] = TRUE /\ DOMAIN ids[j] = Parts /\ None \notin Range(ids[j])
    BY ONLY <2>0, <2>2 DEF Protocol
  <2>4. req'[j].step = "answer"
    BY ONLY <2>0, <2>1, <1>2, AnswerShape
  <2>5. ids[j]["file"] \in Range(ids[j]) /\ ids[j]["stdout"] \in Range(ids[j])
    BY ONLY <2>3 DEF Parts, Range
  <2>6. ids[j]["file"] = <<"file", j>> /\ TextOf(ids[j]["stdout"], Key[j])
    <3>1. IdFits(ids[j]["file"], "file", j) /\ IdFits(ids[j]["stdout"], "stdout", j)
      BY ONLY <2>0, <2>3 DEF IdsFit, Parts
    <3>2. ids[j]["file"] # None /\ ids[j]["stdout"] # None
      BY ONLY <2>3, <2>5
    <3> QED
      BY ONLY <3>1, <3>2 DEF IdFits
  <2>7. /\ DOMAIN jobRow'[k] = {"by", "file", "stdout", "old"} /\ jobRow'[k].by = j
        /\ jobRow'[k].file = ids[j]["file"] /\ jobRow'[k].stdout = ids[j]["stdout"]
    <3>1. jobRow'[k] = [by |-> j, file |-> ids[j]["file"], stdout |-> ids[j]["stdout"], old |-> FALSE]
      BY ONLY <1>2
    <3>2. DOMAIN jobRow'[k] = {"by", "file", "stdout", "old"}
      BY ONLY <3>1
    <3>3. jobRow'[k].by = j
      BY ONLY <3>1
    <3>4. jobRow'[k].file = ids[j]["file"]
      BY ONLY <3>1
    <3>5. jobRow'[k].stdout = ids[j]["stdout"]
      BY ONLY <3>1
    <3> QED
      BY ONLY <3>2, <3>3, <3>4, <3>5
  <2> QED
    BY ONLY <1>2, <2>1, <2>2, <2>3, <2>4, <2>5, <2>6, <2>7 DEF RowFits, Over, TextOf
<1> QED
  BY ONLY StoreInv, [Next]_vars, k \in DOMAIN jobRow', <1>1, <1>2, RowOrigin

\* Every step keeps the tables and the local store as StoreInv says.
LEMMA StoreNext ==
  ASSUME ProtocolInv, StoreInv, [Next]_vars
  PROVE  StoreInv'
<1>1. BlobsFit' /\ DiskFits' /\ evict' \subseteq DOMAIN blob'
  BY BlobsStep, DiskStep, EvictStep
<1>2. \A j \in Jobs : IdsFit(j)' /\ FilesKept(j)'
  BY IdsStep, FilesStep
<1>3. \A k \in DOMAIN jobRow' : RowFits(k)'
  BY RowsStep
<1> QED
  BY ONLY <1>1, <1>2, <1>3 DEF StoreInv

-----------------------------------------------------------------------------
(* Hits are kept *)

\* An execution that outputs were taken from stays one.
LEMMA SourceStays ==
  ASSUME ProtocolInv, [Next]_vars, NEW j \in Jobs, NEW o, Source(o, j)
  PROVE  Source(o, j)'
<1>1. o \in Jobs /\ Key[o] = Key[j] /\ ran[o] = TRUE /\ Over(o)
  BY DEF Source
<1>2. ran'[o] = TRUE
  BY <1>1, RanStays, ZenonT(30)
<1>3. Over(o)'
  BY <1>1, OverStays
<1> QED
  BY ONLY <1>1, <1>2, <1>3 DEF Source

\* A job past its post does not get a row any more.
LEMMA NoRowStays ==
  ASSUME ProtocolInv, StoreInv, [Next]_vars, NEW o \in Jobs, Over(o), NoRow(o)
  PROVE  NoRow(o)'
<1> SUFFICES ASSUME NEW k \in DOMAIN jobRow' PROVE jobRow'[k].by # o
  BY DEF NoRow
<1>1. CASE k \in DOMAIN jobRow /\ jobRow'[k].by = jobRow[k].by
  BY ONLY <1>1, NoRow(o) DEF NoRow
<1>2. ASSUME NEW j \in Jobs, AddJob(j), jobRow'[k].by = j PROVE jobRow'[k].by # o
  <2>1. req[j].route = "job" /\ req[j].step = "insert"
    BY ONLY <1>2 DEF AddJob, Handler
  <2>2. Protocol(j)
    BY ONLY ProtocolInv, <1>2 DEF ProtocolInv
  <2>3. ~Over(j)
    BY ONLY <2>1, <2>2 DEF Over, Protocol
  <2> QED
    BY ONLY <1>2, <2>3, Over(o)
<1>3. \/ k \in DOMAIN jobRow /\ jobRow'[k].by = jobRow[k].by
      \/ \E j \in Jobs : AddJob(j) /\ jobRow'[k].by = j
  BY ONLY StoreInv, [Next]_vars, k \in DOMAIN jobRow', RowOrigin
<1> QED
  BY ONLY <1>1, <1>2, <1>3

\* A match stays true of the execution it names.
LEMMA HitStays ==
  ASSUME ProtocolInv, StoreInv, [Next]_vars, NEW j \in Jobs, NEW a, Hit(a, j)
  PROVE  Hit(a, j)'
<1>1. Source(a.of, j) /\ a.of \in Jobs /\ Over(a.of)
  BY DEF Hit, Source
<1>2. PICK o : o = a.of
  OBVIOUS
<1>3. Source(o, j)'
  BY ONLY ProtocolInv, [Next]_vars, j \in Jobs, <1>1, <1>2, SourceStays
<1>4. NoRow(o) => NoRow(o)'
  BY ONLY ProtocolInv, StoreInv, [Next]_vars, <1>1, <1>2, NoRowStays
<1> QED
  BY ONLY Hit(a, j), <1>2, <1>3, <1>4 DEF Hit, Source, Over, NoRow

\* So does what was downloaded.
LEMMA TakenStays ==
  ASSUME ProtocolInv, StoreInv, [Next]_vars, NEW j \in Jobs, NEW g, Taken(g, j)
  PROVE  Taken(g, j)'
<1>1. Source(g.of, j) /\ g.of \in Jobs /\ Over(g.of)
  BY DEF Taken, Source
<1>2. PICK o : o = g.of
  OBVIOUS
<1>3. Source(o, j)'
  BY ONLY ProtocolInv, [Next]_vars, j \in Jobs, <1>1, <1>2, SourceStays
<1>4. NoRow(o) => NoRow(o)'
  BY ONLY ProtocolInv, StoreInv, [Next]_vars, <1>1, <1>2, NoRowStays
<1> QED
  BY ONLY Taken(g, j), <1>2, <1>3, <1>4 DEF Taken, Source, Over, NoRow

\* What a handler knows stays true while others move.
LEMMA MatchingStays ==
  ASSUME ProtocolInv, StoreInv, [Next]_vars, NEW j \in Jobs, Matching(j), req'[j] = req[j]
  PROVE  Matching(j)'
<1>1. CASE req[j].step = "outputs"
  <2>1. PICK o : o = req[j].of
    OBVIOUS
  <2>2. Source(o, j)'
    BY ONLY ProtocolInv, [Next]_vars, j \in Jobs, Matching(j), <1>1, <2>1, SourceStays DEF Matching
  <2> QED
    BY ONLY Matching(j), req'[j] = req[j], <1>1, <2>1, <2>2, ZenonT(30) DEF Matching, Source, Over, TextOf
<1>2. CASE req[j].step = "resolve"
  <2>1. PICK o : o = req[j].of
    OBVIOUS
  <2>2. Source(o, j)
    BY ONLY Matching(j), <1>2, <2>1 DEF Matching
  <2>3. Source(o, j)' /\ (NoRow(o) => NoRow(o)')
    BY ONLY ProtocolInv, StoreInv, [Next]_vars, j \in Jobs, <2>2, SourceStays, NoRowStays, ZenonT(30) DEF Source
  <2> QED
    BY ONLY Matching(j), req'[j] = req[j], <1>2, <2>1, <2>3 DEF Matching, Source, Over, TextOf, NoRow
<1>3. CASE req[j].step = "answer" /\ req[j].answer.status = "match"
  <2>1. PICK a : a = req[j].answer
    OBVIOUS
  <2>2. Hit(a, j)'
    BY ONLY ProtocolInv, StoreInv, [Next]_vars, j \in Jobs, Matching(j), <1>3, <2>1, HitStays
       DEF Matching
  <2> QED
    BY ONLY req'[j] = req[j], <1>3, <2>1, <2>2 DEF Matching, Hit, Source, Over, NoRow
<1>4. CASE /\ req[j].step \notin {"outputs", "resolve"}
           /\ ~(req[j].step = "answer" /\ req[j].answer.status = "match")
  BY ONLY req'[j] = req[j], <1>4 DEF Matching
<1> QED
  BY ONLY <1>1, <1>2, <1>3, <1>4

\* An answer that is no match promises nothing.
LEMMA NoMatchKeeps ==
  ASSUME NEW j \in Jobs, req'[j].step = "answer", NEW s, s # "match",
         \/ req'[j].answer = [status |-> s]
         \/ \E i : req'[j].answer = [status |-> s, id |-> i]
  PROVE  Matching(j)'
<1>1. ASSUME req'[j].answer = [status |-> s] PROVE req'[j].answer.status = s
  BY ONLY <1>1
<1>2. ASSUME NEW i, req'[j].answer = [status |-> s, id |-> i] PROVE req'[j].answer.status = s
  BY ONLY <1>2
<1>3. req'[j].answer.status = s
  BY <1>1, <1>2, ZenonT(30)
<1> QED
  BY ONLY req'[j].step = "answer", s # "match", <1>3 DEF Matching

\* The steps of read_job.
LEMMA ReadJobKeeps ==
  ASSUME ProtocolInv, StoreInv, [Next]_vars, NEW j \in Jobs, ReadJob(j)
  PROVE  Matching(j)'
<1>0. Domains /\ ReqShape(j) /\ req[j].route # "idle"
  BY DEF ProtocolInv, ReadJob, Handler
<1>1. CASE Key[j] \in DOMAIN jobRow
  <2>1. PICK o, s : o = jobRow[Key[j]].by /\ s = jobRow[Key[j]].stdout
    OBVIOUS
  <2>2. Source(o, j) /\ TextOf(s, Key[j])
    BY ONLY StoreInv, <1>1, <2>1 DEF StoreInv, RowFits, Source
  <2>3. Send(j, [route |-> "matching", step |-> "outputs", of |-> o, stdout |-> s])
    BY ONLY ReadJob(j), <1>1, <2>1 DEF ReadJob
  <2>4. req'[j].step = "outputs" /\ req'[j].of = o /\ req'[j].stdout = s
    BY ONLY <1>0, <2>3, j \in Jobs DEF Send, Domains
  <2>5. Source(o, j)'
    BY ONLY ProtocolInv, [Next]_vars, j \in Jobs, <2>2, SourceStays
  <2> QED
    BY ONLY <2>2, <2>4, <2>5 DEF Matching, Source, Over, TextOf
<1>2. CASE Key[j] \notin DOMAIN jobRow
  <2>1. Answer(j, [status |-> "nomatch"])
    BY ONLY ReadJob(j), <1>2 DEF ReadJob
  <2>2. req'[j].step = "answer" /\ req'[j].answer = [status |-> "nomatch"]
    BY ONLY <1>0, <2>1, j \in Jobs, AnswerShape
  <2> QED
    BY ONLY <2>2, j \in Jobs, NoMatchKeeps
<1> QED
  BY ONLY <1>1, <1>2

\* The outputs are of the row that was read, or that row is gone for good.
LEMMA ReadOutputsKeeps ==
  ASSUME ProtocolInv, StoreInv, HitInv, [Next]_vars, NEW j \in Jobs, ReadOutputs(j)
  PROVE  Matching(j)'
<1>0. Domains /\ req[j].route = "matching" /\ req[j].step = "outputs"
  BY DEF ProtocolInv, ReadOutputs, Handler
<1>1. PICK o, s, f : o = req[j].of /\ s = req[j].stdout
          /\ f = IF Key[j] \in DOMAIN jobRow /\ jobRow[Key[j]].by = req[j].of
                   THEN jobRow[Key[j]].file ELSE None
  OBVIOUS
<1>2. Source(o, j) /\ TextOf(s, Key[j])
  BY ONLY HitInv, j \in Jobs, <1>0, <1>1 DEF HitInv, HitsKept, Matching
<1>3. f = <<"file", o>> \/ (f = None /\ NoRow(o))
  <2>1. CASE Key[j] \in DOMAIN jobRow /\ jobRow[Key[j]].by = o
    BY ONLY StoreInv, <1>1, <2>1 DEF StoreInv, RowFits
  <2>2. CASE ~(Key[j] \in DOMAIN jobRow /\ jobRow[Key[j]].by = o)
    <3>1. NoRow(o)
      <4>1. ASSUME NEW h \in DOMAIN jobRow, jobRow[h].by = o PROVE FALSE
        <5>1. Key[jobRow[h].by] = h
          BY ONLY StoreInv, <4>1 DEF StoreInv, RowFits
        <5> QED
          BY ONLY <1>2, <2>2, <4>1, <5>1 DEF Source
      <4> QED
        BY ONLY <4>1 DEF NoRow
    <3> QED
      BY ONLY <1>1, <2>2, <3>1
  <2> QED
    BY ONLY <2>1, <2>2
<1>4. Send(j, [route |-> "matching", step |-> "resolve", of |-> o, stdout |-> s, file |-> f])
  BY ONLY ReadOutputs(j), <1>1 DEF ReadOutputs
<1>5. req'[j].step = "resolve" /\ req'[j].of = o /\ req'[j].stdout = s /\ req'[j].file = f
  BY ONLY <1>0, <1>4, j \in Jobs DEF Send, Domains
<1>6. Source(o, j)' /\ (NoRow(o) => NoRow(o)')
  BY ONLY ProtocolInv, StoreInv, [Next]_vars, j \in Jobs, <1>2, SourceStays, NoRowStays DEF Source
<1> QED
  BY ONLY <1>2, <1>3, <1>5, <1>6 DEF Matching, Source, Over, TextOf, NoRow

\* A blob is described by its row, with the hash of its content.
LEMMA ResolveBlobsKeeps ==
  ASSUME ProtocolInv, StoreInv, HitInv, [Next]_vars, NEW j \in Jobs, ResolveBlobs(j)
  PROVE  Matching(j)'
<1>0. /\ Domains /\ ReqShape(j) /\ req[j].route = "matching" /\ req[j].step = "resolve"
      /\ req[j].route # "idle"
  BY DEF ProtocolInv, ResolveBlobs, Handler
<1>1. PICK o, s, f : o = req[j].of /\ s = req[j].stdout /\ f = req[j].file
  OBVIOUS
<1>2. Source(o, j) /\ TextOf(s, Key[j]) /\ (f = <<"file", o>> \/ (f = None /\ NoRow(o)))
  BY ONLY HitInv, j \in Jobs, <1>0, <1>1 DEF HitInv, HitsKept, Matching
<1>3. CASE ({f, s} \ {None}) \subseteq DOMAIN blob
  <2>1. PICK a : a = [status |-> "match", of |-> o, stdout |-> Resolved(s),
                      file |-> IF f = None THEN None ELSE Resolved(f)]
    BY ZenonT(30)
  <2>2. Answer(j, a)
    BY ONLY ResolveBlobs(j), <1>1, <1>3, <2>1 DEF ResolveBlobs
  <2>3. a.of = o /\ a.stdout.hash = blob[s].hash
    BY ONLY <2>1 DEF Resolved
  <2>4. blob[s].hash = Key[j]
    <3>1. s # None
      BY ONLY <1>2 DEF TextOf, None
    <3>2. s \in DOMAIN blob
      BY ONLY <1>3, <3>1
    <3> QED
      BY ONLY StoreInv, <1>2, <3>2, ZenonT(30) DEF StoreInv, BlobsFit, TextOf
  <2>5. CASE f = None
    <3>1. a.file = None /\ f # <<"file", o>>
      BY ONLY <2>1, <2>5 DEF None
    <3>2. Hit(a, j)
      BY ONLY <1>2, <2>3, <2>4, <3>1 DEF Hit
    <3>3. Hit(a, j)'
      BY ONLY ProtocolInv, StoreInv, [Next]_vars, j \in Jobs, <3>2, HitStays
    <3>4. req'[j].step = "answer" /\ req'[j].answer = a
      BY ONLY <1>0, <2>2, j \in Jobs, AnswerShape
    <3> QED
      BY ONLY <3>3, <3>4 DEF Matching, Hit, Source, Over, NoRow
  <2>6. CASE f # None
    <3>1. f = <<"file", o>> /\ f \in DOMAIN blob
      BY ONLY <1>2, <1>3, <2>6
    <3>2. blob[f].hash = o
      BY ONLY StoreInv, <3>1 DEF StoreInv, BlobsFit
    <3>3. a.file = [url |-> blob[f].key, hash |-> blob[f].hash]
      BY ONLY <2>1, <2>6 DEF Resolved
    <3>4. a.file.hash = o /\ a.file # None
      BY ONLY <3>2, <3>3 DEF None
    <3>5. Hit(a, j)
      BY ONLY <1>2, <2>3, <2>4, <3>4 DEF Hit
    <3>6. Hit(a, j)'
      BY ONLY ProtocolInv, StoreInv, [Next]_vars, j \in Jobs, <3>5, HitStays
    <3>7. req'[j].step = "answer" /\ req'[j].answer = a
      BY ONLY <1>0, <2>2, j \in Jobs, AnswerShape
    <3> QED
      BY ONLY <3>6, <3>7 DEF Matching, Hit, Source, Over, NoRow
  <2> QED
    BY ONLY <2>5, <2>6
<1>4. CASE ~(({f, s} \ {None}) \subseteq DOMAIN blob)
  <2>1. Answer(j, [status |-> "nomatch"])
    BY ONLY ResolveBlobs(j), <1>1, <1>4 DEF ResolveBlobs
  <2>2. req'[j].step = "answer" /\ req'[j].answer = [status |-> "nomatch"]
    BY ONLY <1>0, <2>1, j \in Jobs, AnswerShape
  <2> QED
    BY ONLY <2>2, j \in Jobs, NoMatchKeeps
<1> QED
  BY ONLY <1>3, <1>4

\* What a job has taken stays as it is while it does not move.
LEMMA TakingStays ==
  ASSUME ProtocolInv, StoreInv, [Next]_vars, NEW j \in Jobs, HitsKept(j),
         pc'[j] = pc[j], got'[j] = got[j], result'[j] = result[j], virtual'[j] = virtual[j]
  PROVE  /\ pc'[j] = "download" => Hit(got[j], j)'
         /\ pc'[j] = "materialize" => Taken(got[j], j)'
         /\ virtual'[j] => Taken(result[j], j)'
<1>1. PICK g, r : g = got[j] /\ r = result[j]
  OBVIOUS
<1>2. Hit(g, j) => Hit(g, j)'
  BY ONLY ProtocolInv, StoreInv, [Next]_vars, j \in Jobs, HitStays
<1>3. Taken(g, j) => Taken(g, j)'
  BY ONLY ProtocolInv, StoreInv, [Next]_vars, j \in Jobs, TakenStays
<1>4. Taken(r, j) => Taken(r, j)'
  BY ONLY ProtocolInv, StoreInv, [Next]_vars, j \in Jobs, TakenStays
<1>5. /\ pc[j] = "download" => Hit(g, j)
      /\ pc[j] = "materialize" => Taken(g, j)
      /\ virtual[j] => Taken(r, j)
  BY ONLY HitsKept(j), <1>1 DEF HitsKept
<1>6. pc'[j] = "download" => Hit(got[j], j)'
  <2>1. Hit(g, j)' => Hit(got[j], j)'
    BY ONLY got'[j] = got[j], <1>1 DEF Hit, Source, Over, NoRow
  <2> QED
    BY ONLY pc'[j] = pc[j], <1>2, <1>5, <2>1
<1>7. pc'[j] = "materialize" => Taken(got[j], j)'
  <2>1. Taken(g, j)' => Taken(got[j], j)'
    BY ONLY got'[j] = got[j], <1>1 DEF Taken, Source, Over, NoRow
  <2> QED
    BY ONLY pc'[j] = pc[j], <1>3, <1>5, <2>1
<1>8. virtual'[j] => Taken(result[j], j)'
  <2>1. Taken(r, j)' => Taken(result[j], j)'
    BY ONLY result'[j] = result[j], <1>1 DEF Taken, Source, Over, NoRow
  <2> QED
    BY ONLY virtual'[j] = virtual[j], <1>4, <1>5, <2>1
<1> QED
  BY ONLY <1>6, <1>7, <1>8

\* A job that does not move keeps what it has.
LEMMA UnmovedHits ==
  ASSUME ProtocolInv, StoreInv, HitInv, [Next]_vars, NEW j \in Jobs, req'[j] = req[j],
         pc'[j] = pc[j], got'[j] = got[j], result'[j] = result[j], virtual'[j] = virtual[j]
  PROVE  HitsKept(j)'
<1>1. HitsKept(j)
  BY DEF HitInv
<1>2. req'[j].route = "matching" => Matching(j)'
  BY ONLY ProtocolInv, StoreInv, [Next]_vars, j \in Jobs, req'[j] = req[j], <1>1, MatchingStays
     DEF HitsKept
<1> QED
  BY <1>1, <1>2, TakingStays DEF HitsKept

\* A step of a handler of j.
LEMMA ServerHits ==
  ASSUME ProtocolInv, StoreInv, HitInv, [Next]_vars, NEW j \in Jobs, Server(j)
  PROVE  HitsKept(j)'
<1>0. /\ Domains /\ ReqShape(j) /\ HitsKept(j)
      /\ pc' = pc /\ got' = got /\ result' = result /\ virtual' = virtual
  BY DEF ProtocolInv, HitInv, Server, ReadJob, ReadOutputs, ResolveBlobs, AllowJob, StreamBlob,
         UpsertBlob, AddJob, HandlerFails, client
<1>1. req'[j].route = "matching" => Matching(j)'
  <2>1. CASE HandlerFails(j)
    <3>1. req[j].route # "idle"
      BY ONLY <1>0, <2>1 DEF HandlerFails, ReqShape
    <3>2. PICK a : Answer(j, a) /\ (req[j].route = "matching" => a = [status |-> "nomatch"])
      BY ONLY <2>1 DEF HandlerFails
    <3>3. req'[j].answer = a /\ req'[j].step = "answer" /\ req'[j].route = req[j].route
      BY ONLY <1>0, <3>1, <3>2, j \in Jobs, AnswerShape
    <3> QED
      BY ONLY <3>2, <3>3, j \in Jobs, NoMatchKeeps
  <2>2. CASE AllowJob(j) \/ UpsertBlob(j) \/ AddJob(j)
    <3>1. req[j].route \in {"allowed", "blob", "job"} /\ \E a : Answer(j, a)
      BY ONLY <2>2 DEF AllowJob, UpsertBlob, AddJob, Handler
    <3>2. req'[j].route = req[j].route
      BY ONLY <1>0, <3>1, j \in Jobs, AnswerShape
    <3> QED
      BY ONLY <3>1, <3>2
  <2>3. CASE StreamBlob(j)
    <3>1. req'[j] = [req[j] EXCEPT !.step = "upsert"] /\ "route" \in DOMAIN req[j]
      BY ONLY <1>0, <2>3, j \in Jobs DEF StreamBlob, Domains, ReqShape
    <3>2. req'[j]["route"] = req[j]["route"]
      BY ONLY <3>1
    <3> QED
      BY ONLY <2>3, <3>2 DEF StreamBlob, Handler
  <2> QED
    BY <2>1, <2>2, <2>3, ReadJobKeeps, ReadOutputsKeeps, ResolveBlobsKeeps DEF Server
<1> QED
  BY <1>0, <1>1, TakingStays DEF HitsKept

\* The steps of the runner that take something from a match.
LEMMA FoundHits ==
  ASSUME ProtocolInv, StoreInv, HitInv, [Next]_vars, NEW j \in Jobs, Found(j)
  PROVE  HitsKept(j)'
<1>0. Domains /\ Protocol(j) /\ HitsKept(j)
  BY DEF ProtocolInv, HitInv
<1>1. PICK a : a = req[j].answer
  OBVIOUS
<1>2. /\ pc'[j] = IF a.status = "match" THEN "download" ELSE "run"
      /\ got'[j] = IF a.status = "match" THEN a ELSE <<>>
      /\ req'[j] = Idle /\ virtual' = virtual
      /\ pc[j] = "find" /\ req[j].route = "matching" /\ req[j].step = "answer"
  BY ONLY <1>0, <1>1, Found(j), j \in Jobs DEF Found, Answered, Send, Domains
<1>3. ~virtual[j] /\ req'[j].route # "matching"
  <2>1. ~virtual[j]
    BY ONLY <1>0, <1>2 DEF Protocol
  <2>2. req'[j].route = "idle"
    BY ONLY <1>2, j \in Jobs, IdleShape
  <2> QED
    BY ONLY <2>1, <2>2
<1>4. a.status = "match" => Hit(a, j)
  BY ONLY <1>0, <1>1, <1>2 DEF HitsKept, Matching
<1>5. Hit(a, j) => Hit(a, j)'
  BY ONLY ProtocolInv, StoreInv, [Next]_vars, j \in Jobs, HitStays
<1>6. pc'[j] = "download" => Hit(got[j], j)'
  BY ONLY <1>2, <1>4, <1>5 DEF Hit, Source, Over, NoRow
<1>7. pc'[j] # "materialize" /\ ~virtual'[j]
  BY ONLY <1>2, <1>3
<1> QED
  BY ONLY <1>3, <1>6, <1>7 DEF HitsKept

\* rehydrateJob keeps only bytes with the hash of the match.
LEMMA DownloadHits ==
  ASSUME ProtocolInv, StoreInv, HitInv, [Next]_vars, NEW j \in Jobs, Download(j)
  PROVE  HitsKept(j)'
<1>0. Domains /\ Protocol(j) /\ HitsKept(j)
  BY DEF ProtocolInv, HitInv
<1>1. PICK a : a = got[j]
  OBVIOUS
<1>2. /\ Hit(a, j) /\ virtual' = virtual /\ ~virtual[j] /\ req' = req
      /\ req[j].route # "matching"
  BY ONLY <1>0, <1>1, Download(j) DEF Download, HitsKept, Protocol
<1>3. pc'[j] \in {"materialize", "run"} /\ (pc'[j] = "materialize" => Downloads(a))
  BY ONLY <1>0, <1>1, Download(j), j \in Jobs DEF Download, Domains
<1>4. PICK g : g = [file |-> IF a.file = None THEN None ELSE disk[a.file.url],
                    stdout |-> a.stdout.url, of |-> a.of]
  BY ZenonT(30)
<1>5. pc'[j] = "materialize" => got'[j] = g
  BY ONLY <1>0, <1>1, <1>4, Download(j), j \in Jobs DEF Download, Domains
<1>6. Downloads(a) => Taken(g, j)
  <2> SUFFICES ASSUME Downloads(a) PROVE Taken(g, j)
    OBVIOUS
  <2>1. /\ g.of = a.of /\ g.stdout = a.stdout.url
        /\ g.file = IF a.file = None THEN None ELSE disk[a.file.url]
    BY ONLY <1>4
  <2>2. a.stdout.url = a.stdout.hash /\ (a.file = None \/ disk[a.file.url] = a.file.hash)
    BY ONLY Downloads(a) DEF Downloads, verifyBlobHash
  <2> QED
    BY ONLY <1>2, <2>1, <2>2 DEF Hit, Taken
<1>7. Taken(g, j) => Taken(g, j)'
  BY ONLY ProtocolInv, StoreInv, [Next]_vars, j \in Jobs, TakenStays
<1>8. pc'[j] = "materialize" => Taken(got[j], j)'
  BY ONLY <1>3, <1>5, <1>6, <1>7 DEF Taken, Source, Over, NoRow
<1>9. pc'[j] # "download" /\ ~virtual'[j] /\ req'[j].route # "matching"
  BY ONLY <1>2, <1>3
<1> QED
  BY ONLY <1>8, <1>9 DEF HitsKept

\* The virtual job has what was downloaded.
LEMMA MaterializeHits ==
  ASSUME ProtocolInv, StoreInv, HitInv, [Next]_vars, NEW j \in Jobs, Materialize(j)
  PROVE  HitsKept(j)'
<1>0. Domains /\ Protocol(j) /\ HitsKept(j)
  BY DEF ProtocolInv, HitInv
<1>1. PICK g : g = got[j]
  OBVIOUS
<1>2. /\ Taken(g, j) /\ ~virtual[j] /\ req' = req /\ req[j].route # "matching"
      /\ pc'[j] \in {"done", "run"}
  BY ONLY <1>0, <1>1, Materialize(j), j \in Jobs DEF Materialize, HitsKept, Protocol, Domains
<1>3. virtual'[j] => result'[j] = g
  BY ONLY <1>0, <1>1, <1>2, Materialize(j), j \in Jobs DEF Materialize, Domains
<1>4. Taken(g, j)'
  BY ONLY ProtocolInv, StoreInv, [Next]_vars, j \in Jobs, <1>2, TakenStays
<1>5. virtual'[j] => Taken(result[j], j)'
  BY ONLY <1>3, <1>4 DEF Taken, Source, Over, NoRow
<1> QED
  BY ONLY <1>2, <1>5 DEF HitsKept

\* A step of the runner of j.
LEMMA ClientHits ==
  ASSUME ProtocolInv, StoreInv, HitInv, [Next]_vars, NEW j \in Jobs, Client(j)
  PROVE  HitsKept(j)'
<1>0. Domains /\ Protocol(j) /\ HitsKept(j)
  BY DEF ProtocolInv, HitInv
<1>1. CASE Begin(j) \/ Run(j)
  <2>1. virtual' = virtual /\ pc[j] \in {"start", "run"}
    BY ONLY <1>1 DEF Begin, Run
  <2>2. pc'[j] \in {"failed", "run", "find", "done", "allow"}
    BY ONLY <1>0, <1>1, j \in Jobs DEF Begin, Run, Domains
  <2>3. ~virtual[j] /\ req[j].route # "matching"
    BY ONLY <1>0, <2>1 DEF Protocol
  <2>4. CASE req' = req
    BY ONLY <2>1, <2>2, <2>3, <2>4 DEF HitsKept
  <2>5. CASE Send(j, [route |-> "matching", step |-> "job"])
    <3>1. req'[j].step = "job"
      BY ONLY <1>0, <2>5, j \in Jobs DEF Send, Domains
    <3> QED
      BY ONLY <2>1, <2>2, <2>3, <3>1 DEF HitsKept, Matching
  <2>6. CASE Send(j, [route |-> "allowed", step |-> "job"])
    <3>1. req'[j].route = "allowed"
      BY ONLY <1>0, <2>6, j \in Jobs DEF Send, Domains
    <3> QED
      BY ONLY <2>1, <2>2, <2>3, <3>1 DEF HitsKept
  <2> QED
    BY ONLY <1>1, <2>4, <2>5, <2>6 DEF Begin, Run
<1>2. CASE \/ Allowed(j) \/ Uploaded(j) \/ PostJob(j) \/ Posted(j) \/ Timeout(j)
           \/ \E p \in Parts : UploadBlob(j, p)
  <2>1. virtual' = virtual /\ pc[j] # "done"
    <3>1. CASE Timeout(j)
      <4>1. req[j].route # "idle"
        BY ONLY ProtocolInv, <3>1, j \in Jobs DEF Timeout, ProtocolInv, ReqShape
      <4> QED
        BY ONLY <1>0, <3>1, <4>1 DEF Timeout, Protocol
    <3> QED
      BY ONLY <1>2, <3>1, ZenonT(30) DEF Allowed, Uploaded, PostJob, Posted, UploadBlob
  <2>2. pc'[j] \in {"run", "upload", "post", "done"}
    BY ONLY <1>0, <1>2, j \in Jobs, ZenonT(30)
       DEF Allowed, Uploaded, PostJob, Posted, UploadBlob, Timeout, GiveUp, Domains
  <2>3. ~virtual'[j]
    BY ONLY <1>0, <2>1 DEF Protocol
  <2>4. req'[j].route # "matching"
    <3>1. CASE req' = req /\ pc[j] = "upload"
      BY ONLY <1>0, <3>1 DEF Protocol
    <3>2. CASE Send(j, Idle)
      BY ONLY <1>0, <3>2, j \in Jobs DEF Send, Idle, Domains
    <3>3. CASE Send(j, [route |-> "job", step |-> "insert"])
      BY ONLY <1>0, <3>3, j \in Jobs DEF Send, Domains
    <3>4. ASSUME NEW p, Send(j, [route |-> "blob", step |-> "stream", part |-> p])
          PROVE  req'[j].route # "matching"
      BY ONLY <1>0, <3>4, j \in Jobs DEF Send, Domains
    <3> QED
      BY ONLY <1>2, <3>1, <3>2, <3>3, <3>4, ZenonT(30)
         DEF Allowed, Uploaded, PostJob, Posted, UploadBlob, Timeout
  <2> QED
    BY ONLY <2>2, <2>3, <2>4 DEF HitsKept
<1> QED
  BY <1>1, <1>2, FoundHits, DownloadHits, MaterializeHits DEF Client

\* Every step keeps HitInv.
LEMMA HitNext ==
  ASSUME ProtocolInv, StoreInv, HitInv, [Next]_vars
  PROVE  HitInv'
<1> SUFFICES ASSUME NEW i \in Jobs PROVE HitsKept(i)'
  BY DEF HitInv
<1>0. Domains /\ HitsKept(i)
  BY DEF ProtocolInv, HitInv
<1>1. ASSUME NEW j \in Jobs \ {i}, Client(j) \/ Server(j) PROVE HitsKept(i)'
  <2>1. /\ pc'[i] = pc[i] /\ req'[i] = req[i] /\ got'[i] = got[i]
        /\ result'[i] = result[i] /\ virtual'[i] = virtual[i]
    BY ONLY <1>0, <1>1, i \in Jobs, JobStep DEF Others
  <2> QED
    BY ONLY ProtocolInv, StoreInv, HitInv, [Next]_vars, i \in Jobs, <2>1, UnmovedHits
<1>2. CASE Eviction \/ RemoveJobs \/ UNCHANGED vars
  <2>1. UNCHANGED <<client, req>>
    BY ONLY <1>2, ZenonT(30) DEF Eviction, BlobAges, JobAges, EvictJobs, EvictScan, EvictDelete, RemoveFile,
                     RemoveJobs, vars
  <2> QED
    BY ONLY ProtocolInv, StoreInv, HitInv, [Next]_vars, i \in Jobs, <2>1, UnmovedHits DEF client
<1>3. CASE Restart
  <2>1. pc' = pc /\ got' = got /\ result' = result /\ virtual' = virtual
    BY ONLY <1>3 DEF Restart, client
  <2>2. CASE req'[i] = req[i]
    BY ONLY ProtocolInv, StoreInv, HitInv, [Next]_vars, i \in Jobs, <2>1, <2>2, UnmovedHits
  <2>3. CASE req'[i].answer = [status |-> "error", id |-> None] /\ req'[i].step = "answer"
    <3>1. Matching(i)'
      BY ONLY <2>3, i \in Jobs, NoMatchKeeps, ZenonT(30)
    <3> QED
      BY ONLY ProtocolInv, StoreInv, [Next]_vars, i \in Jobs, <1>0, <2>1, <3>1, TakingStays
         DEF HitsKept
  <2> QED
    BY ONLY ProtocolInv, <1>3, <2>2, <2>3, i \in Jobs, RestartFields
<1> QED
  BY <1>1, <1>2, <1>3, ClientHits, ServerHits DEF Next

-----------------------------------------------------------------------------
(* The theorems *)

\* The invariant holds at first.
LEMMA CacheInit ==
  ASSUME Init
  PROVE  CacheInv
<1>1. /\ \A j \in Jobs : req[j] = Idle /\ pc[j] = "start" /\ ids[j] = <<>> /\ virtual[j] = FALSE
      /\ Domains
  BY DEF Init, Domains
<1>2. DOMAIN blob = {} /\ DOMAIN jobRow = {} /\ DOMAIN disk = {} /\ evict = {} /\ remove = {}
  BY DEF Init
<1>3. ASSUME NEW j \in Jobs
      PROVE  req[j].route = "idle" /\ DOMAIN ids[j] = {} /\ "route" \in DOMAIN req[j]
  BY ONLY <1>1, <1>3 DEF Idle
<1>4. ProtocolInv
  BY ONLY <1>1, <1>3 DEF ProtocolInv, ReqShape, Protocol
<1>5. StoreInv
  BY ONLY <1>1, <1>2, <1>3 DEF StoreInv, BlobsFit, DiskFits, IdsFit, FilesKept
<1>6. HitInv
  BY ONLY <1>1, <1>3 DEF HitInv, HitsKept
<1> QED
  BY <1>4, <1>5, <1>6 DEF CacheInv

\* Every step keeps it.
LEMMA CacheNext ==
  ASSUME CacheInv, [Next]_vars
  PROVE  CacheInv'
  BY ProtocolNext, StoreNext, HitNext DEF CacheInv

\* It holds at all times.
LEMMA CacheAlways == Spec => []CacheInv
<1>1. Init => CacheInv
  BY CacheInit
<1>2. CacheInv /\ [Next]_vars => CacheInv'
  BY CacheNext
<1> QED
  BY <1>1, <1>2, PTL DEF Spec

\* At all times a job in the table can be served: uploads write the file before
\* its row, the foreign keys make delete_unreferenced_blobs fail rather than take
\* a referenced row, and delete_key follows the row.
THEOREM StoredIsAlwaysReadable == Spec => []StoredIsReadable
<1>1. CacheInv => StoredIsReadable
  <2> SUFFICES ASSUME CacheInv PROVE StoredIsReadable
    OBVIOUS
  <2>1. Referenced(jobRow) \subseteq DOMAIN blob
    <3>1. ASSUME NEW k \in DOMAIN jobRow
          PROVE  jobRow[k].file \in DOMAIN blob /\ jobRow[k].stdout \in DOMAIN blob
      BY ONLY CacheInv, <3>1 DEF CacheInv, StoreInv, RowFits
    <3>2. ASSUME NEW b \in Referenced(jobRow)
          PROVE  \E k \in DOMAIN jobRow : b = jobRow[k].file \/ b = jobRow[k].stdout
      BY ONLY <3>2 DEF Referenced
    <3> QED
      BY ONLY <3>1, <3>2
  <2>2. ASSUME NEW i \in DOMAIN blob, i[1] = "file" PROVE blob[i].key \in DOMAIN disk
    <3>0. BlobsFit
      BY DEF CacheInv, StoreInv
    <3>1. PICK x \in Jobs : i = <<"file", x>> /\ blob[i].key = x
      BY ONLY <2>2, <3>0 DEF BlobsFit
    <3> QED
      BY <2>2, <3>1 DEF CacheInv, StoreInv, FilesKept
  <2> QED
    BY <2>1, <2>2 DEF StoredIsReadable
<1> QED
  BY <1>1, CacheAlways, PTL

\* Whatever was evicted, cut short or posted twice, what rehydrateJob gives a job
\* was produced by one execution of a command with its key; only the file may be
\* missing, and then the row of that execution is gone for good.
THEOREM HitsAreAlwaysGenuine == Spec => []HitsAreGenuine
<1>1. CacheInv => HitsAreGenuine
  <2> SUFFICES ASSUME CacheInv, NEW j \in Jobs, virtual[j]
               PROVE  LET by == result[j].of IN
                        /\ Key[by] = Key[j] /\ ran[by]
                        /\ result[j].stdout = Output(by).stdout
                        /\ \/ result[j].file = Output(by).file
                           \/ /\ result[j].file = None
                              /\ \A k \in DOMAIN jobRow : jobRow[k].by # by
    BY DEF HitsAreGenuine
  <2>1. Taken(result[j], j)
    BY DEF CacheInv, HitInv, HitsKept
  <2> QED
    BY ONLY <2>1 DEF Taken, Source, NoRow, Output
<1> QED
  BY <1>1, CacheAlways, PTL
=============================================================================
