--------------------------- MODULE UploadSession ---------------------------
(***************************************************************************)
(* A video that is uploaded, from create() to its removal and purge: upload*)
(* sessions, completion and removal (videos.service.ts), the object store  *)
(* (storage.service.ts), the purge and the janitor (cleanup.py), one       *)
(* statement or storage call per step.  The browser puts bytes where the   *)
(* sessions' URLs point, whenever it likes.  Processing is one execution   *)
(* that reads the video and stores something; VideoPipeline has the rest.  *)
(***************************************************************************)
EXTENDS JobQueue, UploadPlan, FiniteSets

CONSTANTS Requests,     \* concurrent API requests
          Sizes,        \* the sizes of files that create() accepts
          MaxUploads,   \* bound: multipart uploads
          MaxAttempts,  \* JOB_DEFAULTS attempts of the cleanup queue (5)
          Bound         \* bound: Bound[x] for the fields of used

ASSUME SessionAssumption == /\ MaxUploads \in Nat /\ Sizes \subseteq Nat
                            /\ {"requests", "puts", "expiries", "faults", "deaths", "errors",
                                 "abortErrors", "refusals", "keyErrors", "crashes"} \subseteq DOMAIN Bound

VARIABLES video,        \* the videos row
          uploads,      \* uploads[u]: a multipart upload of the store
          source,       \* the source object, or Nothing
          derived,      \* the proxy, audio and poster objects, or Nothing
          task,         \* task[slot]: the execution of a job in a slot
          request,      \* request[q]: the API request in progress in q
          used          \* how much of Bound has been used

store == <<uploads, source, derived>>
vars == <<video, store, jobs, task, request, used>>

Uploads == 1 .. MaxUploads

(* A video, a multipart upload of its source, and what lies in the store:
   late says that it was put there when the video had been removed.  An
   object that fits is within the largest size allowed; nobody compares it
   with the size that was declared.  The retention leaves an expired one.  *)
Video == [status : {"CREATED", "UPLOADING", "QUEUED", "PROCESSING", "FAILED"},
          upload : Uploads \cup {0}, run : Nat, size : Nat, url : BOOLEAN,
          expired : BOOLEAN, deleted : BOOLEAN, purged : BOOLEAN, gone : BOOLEAN]
Upload == [state : {"none", "open", "gone"}, filled : BOOLEAN, signed : SUBSET Nat, late : BOOLEAN]
Stored == [size : {"none", "expired", "fits", "large"}, late : BOOLEAN]

Open == {u \in Uploads : uploads[u].state = "open"}

Nothing == [size |-> "none", late |-> FALSE]
Expired == [size |-> "expired", late |-> FALSE]
Present(object) == object.size \in {"fits", "large"}
Object(size) == [size |-> size, late |-> video.deleted]

IngestJob == [kind |-> "ingest"]
PurgeJob == [kind |-> "purge"]
JanitorJob == [kind |-> "janitor"]

Use(x) == used[x] < Bound[x] /\ used' = [used EXCEPT ![x] = @ + 1]

(* Faults of all kinds are bounded together, too.                          *)
Suffer(x) == /\ used[x] < Bound[x] /\ used.faults < Bound.faults
             /\ used' = [used EXCEPT ![x] = @ + 1, !.faults = @ + 1]

Owned == ~ video.deleted
Uploading == video.status \in {"CREATED", "UPLOADING"}
CanMove(from) == Owned /\ video.status \in from

NoRequest == [pc |-> "idle", upload |-> 0]
Goto(q, pc) == request' = [request EXCEPT ![q].pc = pc]
Answer(q) == request' = [request EXCEPT ![q] = NoRequest]

(* A request reads the row first, and goes on with the upload id it saw.   *)
Begin(q, pc) ==
    /\ request[q].pc = "idle"
    /\ Owned
    /\ Use("requests")
    /\ request' = [request EXCEPT ![q] = [pc |-> pc, upload |-> video.upload]]
    /\ UNCHANGED <<video, store, jobs, task>>

-----------------------------------------------------------------------------
(* createUploadSession.  Below the threshold, one PUT.                     *)

CreateUploadSession(q) ==
    /\ Uploading
    /\ Begin(q, IF UsesMultipart(video.size) THEN (IF video.upload = 0 THEN "create" ELSE "abort") ELSE "start")

Closed(u) == [uploads EXCEPT ![u].state = IF @ = "open" THEN "gone" ELSE @]

(* abortMultipart passes over the store's errors: the upload stays open.   *)
Abort(u) == \/ uploads' = Closed(u) /\ UNCHANGED used
            \/ UNCHANGED uploads /\ Suffer("refusals")

AbortStale(q) ==
    /\ request[q].pc = "abort"
    /\ Abort(request[q].upload)
    /\ Goto(q, "create")
    /\ UNCHANGED <<video, source, derived, jobs, task>>

CreateMultipart(q) ==
    /\ request[q].pc = "create"
    /\ \E u \in Uploads :
          /\ uploads[u].state = "none" /\ \A v \in 1 .. u - 1 : uploads[v].state # "none"
          /\ uploads' = [uploads EXCEPT ![u] = [state |-> "open", filled |-> FALSE,
                                                signed |-> {}, late |-> video.deleted]]
          /\ request' = [request EXCEPT ![q] = [pc |-> "start", upload |-> u]]
    /\ UNCHANGED <<video, source, derived, jobs, task, used>>

(* Mutant of StartUpload: the row is updated whatever its status is now.   *)
StartUploadAnyway(q) ==
    /\ request[q].pc = "start"
    /\ video' = [video EXCEPT !.status = "UPLOADING", !.url = TRUE, !.upload = request[q].upload]
    /\ Answer(q)
    /\ UNCHANGED <<store, jobs, task, used>>

(* The conditional update, whose answer is not looked at: the URLs are given
   out either way.                                                         *)
StartUpload(q) ==
    LET u == IF UsesMultipart(video.size) THEN request[q].upload ELSE 0 IN
    /\ request[q].pc = "start"
    /\ video' = IF CanMove({"CREATED", "UPLOADING"})
                THEN [video EXCEPT !.status = "UPLOADING", !.url = TRUE, !.upload = u]
                ELSE [video EXCEPT !.url = TRUE]
    /\ uploads' = IF u = 0 THEN uploads
                  ELSE [uploads EXCEPT ![u].signed = FirstParts(video.size)]
    /\ Answer(q)
    /\ UNCHANGED <<source, derived, jobs, task, used>>

(* signParts, for a further part of the plan.                              *)
SignPart ==
    /\ Owned /\ video.status = "UPLOADING" /\ video.upload # 0
    /\ \E n \in Signable(video.size) \ uploads[video.upload].signed :
          uploads' = [uploads EXCEPT ![video.upload].signed = @ \cup {n}]
    /\ UNCHANGED <<video, source, derived, jobs, task, request, used>>

(* The browser.                                                            *)
PutSource ==
    /\ video.url /\ ~ UsesMultipart(video.size)
    /\ Use("puts")
    /\ \E size \in {"fits", "large"} : source' = Object(size)
    /\ UNCHANGED <<video, uploads, derived, jobs, task, request>>

PutParts ==
    /\ \E u \in Open : /\ ~ uploads[u].filled
                       /\ uploads[u].signed = 1 .. PartCount(video.size, PreferredPart)
                       /\ uploads' = [uploads EXCEPT ![u].filled = TRUE]
    /\ UNCHANGED <<video, source, derived, jobs, task, request, used>>

-----------------------------------------------------------------------------
(* completeUpload.                                                         *)

CompleteUpload(q) ==
    /\ Uploading
    /\ Begin(q, IF video.upload # 0 THEN "assemble" ELSE "head")

(* completeMultipart: an upload that is gone is none of its business; a
   request that names no part, or one that is not there, is an error.  Else
   the store puts the parts together that the client names, all or not.    *)
Assemble(q) ==
    LET u == request[q].upload IN
    /\ request[q].pc = "assemble"
    /\ \/ u \notin Open /\ Goto(q, "head") /\ UNCHANGED <<uploads, source>>
       \/ Answer(q) /\ UNCHANGED <<uploads, source>>
       \/ /\ u \in Open /\ uploads[u].signed # {}
          /\ uploads' = [uploads EXCEPT ![u].state = "gone"]
          /\ \E size \in {"fits", "large"} : source' = Object(size)
          /\ Goto(q, "head")
    /\ UNCHANGED <<video, derived, jobs, task, used>>

(* Mutant of Head: only the size of what is there is looked at.            *)
HeadOfNothing(q) ==
    /\ request[q].pc = "head"
    /\ Goto(q, IF source.size = "large" THEN "refuse" ELSE "queue")
    /\ UNCHANGED <<video, store, jobs, task, used>>

Head(q) ==
    /\ request[q].pc = "head"
    /\ CASE ~ Present(source) -> Answer(q)
         [] source.size = "large" -> Goto(q, "refuse")
         [] source.size = "fits" -> Goto(q, "queue")
    /\ UNCHANGED <<video, store, jobs, task, used>>

(* The sources of FAILED, processing included.                             *)
Refuse(q) ==
    /\ request[q].pc = "refuse"
    /\ video' = IF CanMove({"CREATED", "UPLOADING", "QUEUED", "PROCESSING"})
                THEN [video EXCEPT !.status = "FAILED"] ELSE video
    /\ Answer(q)
    /\ UNCHANGED <<store, jobs, task, used>>

(* The conditional update, and the read of the row that follows it.        *)
QueueUpload(q) ==
    /\ request[q].pc = "queue"
    /\ IF CanMove({"CREATED", "UPLOADING"})
       THEN /\ video' = [video EXCEPT !.status = "QUEUED", !.upload = 0, !.run = @ + 1]
            /\ Goto(q, "enqueue-ingest")
       ELSE Answer(q) /\ UNCHANGED video
    /\ UNCHANGED <<store, jobs, task, used>>

EnqueueIngest(q) ==
    /\ request[q].pc = "enqueue-ingest"
    /\ IF Owned THEN Add(IngestJob, None) ELSE UNCHANGED jobs
    /\ Answer(q)
    /\ UNCHANGED <<video, store, task, used>>

-----------------------------------------------------------------------------
(* remove(): one transaction, the abort of the upload that was read, and the
   purge's job, whose loss is not an error.                                *)

Remove(q) == Begin(q, "remove")

SoftDelete(q) ==
    /\ request[q].pc = "remove"
    /\ video' = [video EXCEPT !.deleted = TRUE]
    /\ Goto(q, IF request[q].upload # 0 THEN "abort-removed" ELSE "enqueue-purge")
    /\ UNCHANGED <<store, jobs, task, used>>

AbortRemoved(q) ==
    /\ request[q].pc = "abort-removed"
    /\ Abort(request[q].upload)
    /\ Goto(q, "enqueue-purge")
    /\ UNCHANGED <<video, source, derived, jobs, task>>

EnqueuePurge(q) ==
    /\ request[q].pc = "enqueue-purge"
    /\ Add(PurgeJob, None)
    /\ Answer(q)
    /\ UNCHANGED <<video, store, task, used>>

(* Redis refuses a job, or the API process dies, at any step.              *)
RequestDies(q) ==
    /\ request[q].pc # "idle"
    /\ Suffer("deaths")
    /\ Answer(q)
    /\ UNCHANGED <<video, store, jobs, task>>

-----------------------------------------------------------------------------
(* The worker's slots.                                                     *)

NoTask == [pc |-> "idle", job |-> None, keys |-> {}]
GotoTask(w, pc) == task' = [task EXCEPT ![w].pc = pc]

Ends(w, state) == Settle(w, task[w].job, state) /\ task' = [task EXCEPT ![w] = NoTask]

Start(w) ==
    /\ task[w].pc = "idle"
    /\ \E id \in DOMAIN jobs :
          Take(w, id) /\ task' = [task EXCEPT ![w] = [pc |-> id.kind, job |-> id, keys |-> {}]]
    /\ UNCHANGED <<video, store, request, used>>

IngestStarts(w) ==
    /\ task[w].pc = "ingest"
    /\ IF CanMove({"QUEUED", "PROCESSING"})
       THEN /\ video' = [video EXCEPT !.status = "PROCESSING"]
            /\ GotoTask(w, "store") /\ UNCHANGED jobs
       ELSE Ends(w, "completed") /\ UNCHANGED video
    /\ UNCHANGED <<store, request, used>>

IngestStores(w) ==
    /\ task[w].pc = "store"
    /\ derived' = Object("fits")
    /\ Ends(w, "completed")
    /\ UNCHANGED <<video, uploads, source, request, used>>

(* purge_video.                                                            *)
PurgeReads(w) ==
    /\ task[w].pc = "purge"
    /\ IF video.deleted /\ ~ video.gone
       THEN GotoTask(w, "abort-all") /\ UNCHANGED jobs
       ELSE Ends(w, "completed")
    /\ UNCHANGED <<video, store, request, used>>

(* Mutant of AbortAll: the upload that the row names is the only one.      *)
AbortNamed(w) ==
    /\ task[w].pc = "abort-all"
    /\ uploads' = IF video.upload = 0 THEN uploads ELSE Closed(video.upload)
    /\ GotoTask(w, "delete-prefix")
    /\ UNCHANGED <<video, source, derived, jobs, request, used>>

AbortAll(w) ==
    /\ task[w].pc = "abort-all"
    /\ uploads' = [u \in Uploads |-> IF u \in Open THEN [uploads[u] EXCEPT !.state = "gone"]
                                     ELSE uploads[u]]
    /\ GotoTask(w, "delete-prefix")
    /\ UNCHANGED <<video, source, derived, jobs, request, used>>

(* abort_multipart_uploads passes over the store's errors.                 *)
AbortFails(w) ==
    /\ task[w].pc = "abort-all"
    /\ Suffer("abortErrors")
    /\ GotoTask(w, "delete-prefix")
    /\ UNCHANGED <<video, store, jobs, request>>

(* delete_prefix: the listing, then the deletion of what was listed, whose
   errors for single keys are not looked at.                               *)
ListPrefix(w) ==
    /\ task[w].pc = "delete-prefix"
    /\ task' = [task EXCEPT ![w].pc = "delete-keys",
                            ![w].keys = {k \in {"source", "derived"} :
                                           Present(IF k = "source" THEN source ELSE derived)}]
    /\ UNCHANGED <<video, store, jobs, request, used>>

DeleteKeys(w) ==
    /\ task[w].pc = "delete-keys"
    /\ \E keys \in SUBSET task[w].keys :
          /\ IF keys = task[w].keys THEN UNCHANGED used ELSE Suffer("keyErrors")
          /\ source' = IF "source" \in keys THEN Nothing ELSE source
          /\ derived' = IF "derived" \in keys THEN Nothing ELSE derived
    /\ GotoTask(w, "mark")
    /\ UNCHANGED <<video, uploads, jobs, request>>

MarkPurged(w) ==
    /\ task[w].pc = "mark"
    /\ video' = [video EXCEPT !.purged = TRUE]
    /\ GotoTask(w, "delete-row")
    /\ UNCHANGED <<store, jobs, request, used>>

DeleteRow(w) ==
    /\ task[w].pc = "delete-row"
    /\ video' = [video EXCEPT !.gone = TRUE]
    /\ Ends(w, "completed")
    /\ UNCHANGED <<store, request, used>>

TaskFails(w) ==
    /\ task[w].pc \in {"purge", "delete-prefix", "delete-keys", "mark", "delete-row"}
    /\ Suffer("errors")
    /\ Ends(w, IF jobs[task[w].job].attempts + 1 < MaxAttempts THEN "waiting" ELSE "failed")
    /\ UNCHANGED <<video, store, request>>

Crash(w) ==
    /\ task[w].pc # "idle"
    /\ Suffer("crashes")
    /\ task' = [task EXCEPT ![w] = NoTask]
    /\ UNCHANGED <<video, store, jobs, request>>

(* The lock of a slot that died expires.                                   *)
Stall ==
    /\ \E id \in DOMAIN jobs : Reclaim(id) /\ task[jobs[id].slot].job # id
    /\ UNCHANGED <<video, store, task, request, used>>

(* Mutant of ReschedulePurge: with the filter of the other queries.        *)
ReschedulePurgeOfLive ==
    /\ ~ video.deleted /\ ~ video.purged /\ ~ video.gone
    /\ Add(PurgeJob, None)
    /\ UNCHANGED <<video, store, task, request, used>>

(* The janitor.                                                            *)
ReschedulePurge ==
    /\ video.deleted /\ ~ video.purged /\ ~ video.gone
    /\ Add(PurgeJob, None)
    /\ UNCHANGED <<video, store, task, request, used>>

Requeue ==
    /\ CanMove({"QUEUED"})
    /\ Add(IngestJob, None)
    /\ UNCHANGED <<video, store, task, request, used>>

(* The retention, in a slot: the sources of videos that were created long
   ago, whatever their status; their proxies go too, the other derived
   objects stay.  The row is marked in a statement of its own, also when the
   store has kept the key.                                                 *)
RetentionReads(w) ==
    /\ task[w].pc = "idle"
    /\ Owned /\ ~ video.expired
    /\ Use("expiries")
    /\ task' = [task EXCEPT ![w] = [pc |-> "expire", job |-> JanitorJob, keys |-> {}]]
    /\ UNCHANGED <<video, store, jobs, request>>

RetentionDeletes(w) ==
    /\ task[w].pc = "expire"
    /\ \/ source' = (IF Present(source) THEN Expired ELSE source) /\ UNCHANGED used
       \/ UNCHANGED source /\ Suffer("keyErrors")
    /\ GotoTask(w, "mark-expired")
    /\ UNCHANGED <<video, uploads, derived, jobs, request>>

RetentionMarks(w) ==
    /\ task[w].pc = "mark-expired"
    /\ video' = [video EXCEPT !.expired = TRUE]
    /\ task' = [task EXCEPT ![w] = NoTask]
    /\ UNCHANGED <<store, jobs, request, used>>

-----------------------------------------------------------------------------
(* create() has inserted the row; its size decides on the mode.            *)
Init == /\ \E size \in Sizes :
              video = [status |-> "CREATED", upload |-> 0, run |-> 0, size |-> size,
                       url |-> FALSE, expired |-> FALSE, deleted |-> FALSE, purged |-> FALSE, gone |-> FALSE]
        /\ uploads = [u \in Uploads |-> [state |-> "none", filled |-> FALSE,
                                      signed |-> {}, late |-> FALSE]]
        /\ source = Nothing /\ derived = Nothing
        /\ jobs = [id \in {} |-> None]
        /\ task = [w \in Slots |-> NoTask]
        /\ request = [q \in Requests |-> NoRequest]
        /\ used = [x \in DOMAIN Bound |-> 0]

Proceed(q) == \/ AbortStale(q) \/ CreateMultipart(q) \/ StartUpload(q)
              \/ Assemble(q) \/ Head(q) \/ Refuse(q) \/ QueueUpload(q) \/ EnqueueIngest(q)
              \/ SoftDelete(q) \/ AbortRemoved(q) \/ EnqueuePurge(q)

Execute(w) == \/ IngestStarts(w) \/ IngestStores(w)
              \/ PurgeReads(w) \/ AbortAll(w) \/ ListPrefix(w) \/ DeleteKeys(w) \/ MarkPurged(w)
              \/ DeleteRow(w) \/ RetentionDeletes(w) \/ RetentionMarks(w)

Next == \/ \E q \in Requests : \/ CreateUploadSession(q) \/ CompleteUpload(q) \/ Remove(q)
                               \/ Proceed(q) \/ RequestDies(q)
        \/ SignPart \/ PutSource \/ PutParts
        \/ \E w \in Slots : \/ Start(w) \/ Execute(w) \/ AbortFails(w) \/ TaskFails(w)
                             \/ Crash(w) \/ RetentionReads(w)
        \/ Stall \/ ReschedulePurge \/ Requeue

Spec == Init /\ [][Next]_vars

(* Workers run, take jobs and check for stalled ones, and the janitor runs. *)
FairSpec == /\ Spec
            /\ \A w \in Slots : WF_vars(Start(w)) /\ WF_vars(Execute(w))
            /\ WF_vars(Stall) /\ WF_vars(ReschedulePurge)

-----------------------------------------------------------------------------
(* Properties.                                                             *)

Request == [pc : {"idle", "abort", "create", "start", "assemble", "head", "refuse", "queue",
                  "enqueue-ingest", "remove", "abort-removed", "enqueue-purge"},
            upload : Uploads \cup {0}]
Task == [pc : {"idle", "ingest", "store", "purge", "abort-all", "delete-prefix", "delete-keys", "mark",
               "delete-row", "expire", "mark-expired"},
         job : {IngestJob, PurgeJob, JanitorJob} \cup {None}, keys : SUBSET {"source", "derived"}]

TypeOK == /\ video \in Video /\ uploads \in [Uploads -> Upload]
          /\ source \in Stored /\ derived \in Stored
          /\ request \in [Requests -> Request] /\ task \in [Slots -> Task]
          /\ DOMAIN jobs \subseteq {IngestJob, PurgeJob}
          /\ used \in [DOMAIN Bound -> Nat]

(* completeUpload queues an upload only after it saw an object in the store,
   and until the video is removed nothing but the retention takes that
   object away: no other session or completion, no abort, no purge.  (It may
   be overwritten meanwhile, and it may lack parts: only the worker's probe
   looks at what it is.)                                                   *)
QueuedHasSource ==
    video.status \in {"QUEUED", "PROCESSING"} /\ Owned => Present(source) \/ source = Expired

(* videos.service.ts:22-26: the plan keeps within the store's limits for
   every size of file and every configured part size, and a browser that
   was given URLs batch by batch has put every byte when all are used.     *)
PlanFits ==
    /\ EveryPlanFits
    /\ \A u \in Open : uploads[u].filled =>
          video.size <= Cardinality(uploads[u].signed) * PartSize(video.size, PreferredPart)

(* videos.service.ts:279: "only the first caller enqueues ingestion; retried
   callbacks and refreshes return the current state": an upload that ended
   is neither opened again nor counted again.                              *)
UploadEndsOnce == [][~ Uploading => ~ Uploading' /\ video'.run = video.run]_vars

(* The purge leaves nothing in the store that was there when the video was
   removed, whatever died on the way; uploads are excepted when the store
   refused to list or abort them, objects when it kept a key.              *)
PurgeIsComplete ==
    video.gone => /\ used.keyErrors = 0 =>
                        \A object \in {source, derived} : Present(object) => object.late
                  /\ used.abortErrors = 0 => \A u \in Open : uploads[u].late

(* videos.service.ts:512: "The worker janitor re-schedules purges for
   soft-deleted videos": a removed video is purged in the end.             *)
RemovedIsPurged == video.deleted ~> video.gone

-----------------------------------------------------------------------------
(* The inductive invariant behind QueuedHasSource and PurgeIsComplete.     *)

OnlyLate(object) == Present(object) => object.late

(* The steps of a purge after the aborts.                                  *)
Aborted == {"delete-prefix", "delete-keys", "mark", "delete-row"}

(* A completion that saw the object, and each step of a purge.             *)
WaysAreSound ==
    /\ \A q \in Requests : request[q].pc = "queue" /\ Owned => Present(source) \/ source = Expired
    /\ \A w \in Slots :
          LET pc == task[w].pc IN
          /\ pc \in Aborted \cup {"abort-all"} => video.deleted
          /\ used.keyErrors = 0 /\ pc \in {"delete-keys", "mark", "delete-row"} =>
                /\ pc # "delete-keys" \/ "source" \notin task[w].keys => OnlyLate(source)
                /\ pc # "delete-keys" \/ "derived" \notin task[w].keys => OnlyLate(derived)
          /\ pc \in Aborted /\ used.abortErrors = 0 =>
                \A u \in Open : uploads[u].late

UploadInv == /\ TypeOK /\ WaysAreSound /\ QueuedHasSource /\ PurgeIsComplete
             /\ (video.gone => video.deleted)

(* The one behind PlanFits: a filled upload has every part of the plan
   signed, and the upload that a request is about to start is its own, with
   no part signed yet, so that starting it takes no signed part back.       *)
FreshStart(q) ==
    LET u == request[q].upload IN
    request[q].pc = "start" /\ UsesMultipart(video.size) =>
       /\ u \in Uploads \ {video.upload} /\ uploads[u].state # "none"
       /\ uploads[u].signed = {} /\ ~ uploads[u].filled
       /\ \A p \in Requests \ {q} : request[p].pc = "start" => request[p].upload # u

PlanInv == /\ \A u \in Uploads : uploads[u].filled => uploads[u].signed = Signable(video.size)
           /\ video.upload # 0 => uploads[video.upload].state # "none"
           /\ \A q \in Requests : FreshStart(q)
=============================================================================
