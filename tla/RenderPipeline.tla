--------------------------- MODULE RenderPipeline ---------------------------
(***************************************************************************)
(* One render (a clip's version) on its way through the render queue: the  *)
(* worker's handler (render.py) inside make_processor, the API's retry and *)
(* remove requests, the removal of its video and the janitor, one database *)
(* statement, queue call or piece of media work per step.  How renders are *)
(* created, and what makes one the latest of its lineage, is RenderLineage.*)
(*                                                                         *)
(* held says whether subject "render:<id>" has an open charge (see         *)
(* CreditAccount).  Charging is enforced.                                  *)
(***************************************************************************)
EXTENDS JobQueue

CONSTANTS Requests,     \* concurrent API requests about the render
          MaxAttempts,  \* JOB_DEFAULTS attempts of the render queue (2)
          Downloads,    \* the slots of workers that copy the source (SOURCE_READ_MODE)
          FaultyCalls,  \* the worker's calls that may fail: a set of pcs, and "record"
          Bound         \* bound: Bound[x] for the fields of used, steps for all of them

(* The calls of the handler, named by the pc they are made at.             *)
HandlerCalls == {"read", "video", "charge", "prepare", "source", "analyze", "encode", "ffmpeg",
                 "upload", "store", "complete", "done"}

ASSUME RenderAssumption ==
    /\ FaultyCalls \subseteq HandlerCalls \cup {"fail", "refund", "record"}
    /\ Bound \in [steps : Nat, errors : Nat, bookkeeping : Nat, crashes : Nat, lostLocks : Nat,
                   retries : Nat, lostEnqueues : Nat, removals : Nat, expiries : Nat]

VARIABLES render,       \* the renders row
          source,       \* the video: "there", "expired" (its source object) or "deleted"
          stored,       \* the output objects exist under the render's keys
          held,         \* the render's credits are taken
          task,         \* task[slot]: the execution of a job in a slot
          request,      \* request[q]: an API request in progress
          used          \* how much of Bound has been used

rows == <<render, source, stored, held>>
vars == <<rows, jobs, task, request, used>>

Active == {"QUEUED", "PREPARING", "ANALYZING_VISUALS", "RENDERING", "UPLOADING"}

RenderJob(attempt) == [queue |-> "render", attempt |-> attempt]

Use(x) == /\ used[x] < Bound[x]
          /\ used.steps < Bound.steps
          /\ used' = [used EXCEPT ![x] = @ + 1, !.steps = @ + 1]

(* transition_render: a conditional update; false when the row moved on.   *)
CanMove(from) == ~ render.deleted /\ render.status \in from

-----------------------------------------------------------------------------
(* A slot's execution of a job.                                            *)

Idle == [pc |-> "idle", job |-> None, attempt |-> 0, err |-> None]

Goto(w, pc) == task' = [task EXCEPT ![w].pc = pc]

Fails(w, err) == task' = [task EXCEPT ![w].pc = "failing", ![w].err = err]

Start(w) ==
    \E id \in DOMAIN jobs :
       /\ task[w].pc = "idle"
       /\ Take(w, id)
       /\ task' = [task EXCEPT ![w] = [pc |-> "read", job |-> id, err |-> None,
                                       attempt |-> jobs[id].attempts + 1]]
       /\ UNCHANGED <<rows, request, used>>

(* Mutant of ReadRender: a redelivered job leaves the work to the first.   *)
ReadQueuedRender(w) ==
    /\ task[w].pc = "read"
    /\ Goto(w, IF CanMove({"QUEUED"}) /\ task[w].job.attempt >= render.attempt THEN "video" ELSE "done")
    /\ UNCHANGED <<rows, jobs, request, used>>

(* Skips what is removed, done, failed, or taken over by a later attempt.  *)
ReadRender(w) ==
    /\ task[w].pc = "read"
    /\ Goto(w, IF CanMove(Active) /\ task[w].job.attempt >= render.attempt THEN "video" ELSE "done")
    /\ UNCHANGED <<rows, jobs, request, used>>

ReadVideo(w) ==
    /\ task[w].pc = "video"
    /\ Goto(w, IF source = "deleted" THEN "done" ELSE "charge")
    /\ UNCHANGED <<rows, jobs, request, used>>

(* charge: finds the open charge or opens one, unless the credits do not
   reach.                                                                  *)
Charge(w) ==
    /\ task[w].pc = "charge"
    /\ \/ held' = TRUE /\ Goto(w, "prepare") /\ UNCHANGED used
       \/ ~ held /\ Use("errors") /\ Fails(w, "credits") /\ UNCHANGED held
    /\ UNCHANGED <<render, source, stored, jobs, request>>

(* update_render, not a transition: whatever the row has become.           *)
Prepare(w) ==
    /\ task[w].pc = "prepare"
    /\ render' = [render EXCEPT !.status = "PREPARING"]
    /\ Goto(w, "source")
    /\ UNCHANGED <<source, stored, held, jobs, request, used>>

(* The range against the duration, the disk, the framing mode; then a copy
   of the source, or a URL that nobody tries yet.  (The object of a deleted
   video may still be there.)                                              *)
OpenSource(w) ==
    /\ task[w].pc = "source"
    /\ \/ /\ w \in Downloads => source # "expired"
          /\ \E pc \in {"analyze", "encode"} : Goto(w, pc)
       \/ w \in Downloads /\ source # "there" /\ Fails(w, "fatal")
    /\ UNCHANGED <<rows, jobs, request, used>>

StatusAt == [analyze |-> "ANALYZING_VISUALS", encode |-> "RENDERING", upload |-> "UPLOADING"]

(* Mutant of AfterStatus: the row is completed before the upload.          *)
AfterStatusUnstored == [analyze |-> "encode", encode |-> "ffmpeg", upload |-> "complete"]

AfterStatus == [analyze |-> "encode", encode |-> "ffmpeg", upload |-> "store"]

(* progress() with a status: RENDER_CANCELLED when the render left Active. *)
Advance(w) ==
    /\ task[w].pc \in DOMAIN StatusAt
    /\ IF CanMove(Active)
       THEN render' = [render EXCEPT !.status = StatusAt[task[w].pc]] /\ Goto(w, AfterStatus[task[w].pc])
       ELSE Fails(w, "cancelled") /\ UNCHANGED render
    /\ UNCHANGED <<source, stored, held, jobs, request, used>>

(* The encode, which finds out that the URL leads nowhere (the frames read
   before it would just have been none), and the check of its output.      *)
RunFfmpeg(w) ==
    /\ task[w].pc = "ffmpeg"
    /\ \/ (w \in Downloads \/ source # "expired") /\ Goto(w, "upload")
       \/ w \notin Downloads /\ source # "there" /\ Fails(w, "transient")
    /\ UNCHANGED <<rows, jobs, request, used>>

(* Clip and thumbnail, under keys that the render determines.              *)
StoreOutput(w) ==
    /\ task[w].pc = "store"
    /\ stored' = TRUE
    /\ Goto(w, "complete")
    /\ UNCHANGED <<render, source, held, jobs, request, used>>

FinishRender(w) ==
    /\ task[w].pc = "complete"
    /\ render' = IF CanMove({"UPLOADING"}) THEN [render EXCEPT !.status = "COMPLETED"] ELSE render
    /\ Goto(w, "done")
    /\ UNCHANGED <<source, stored, held, jobs, request, used>>

Complete(w) ==
    /\ task[w].pc = "done"
    /\ Settle(w, task[w].job, "completed")
    /\ task' = [task EXCEPT ![w] = Idle]
    /\ UNCHANGED <<rows, request, used>>

-----------------------------------------------------------------------------
(* Failures.  An error is "transient" (the queue tries again), "credits"
   (only the user may), "fatal" (nobody may) or "cancelled".               *)

CallFails(w) ==
    /\ task[w].pc \in HandlerCalls \cap FaultyCalls
    /\ Use("errors")
    /\ \/ Fails(w, "transient")
       \/ task[w].pc = "source" /\ Fails(w, "fatal")
    /\ UNCHANGED <<rows, jobs, request>>

(* job_started and job_finished write the job_runs row outside the handler's
   error handling: when they fail, nothing else is done about the job.     *)
RecordFails(w) ==
    /\ "record" \in FaultyCalls
    /\ task[w].pc \in {"read", "failing"}
    /\ Use("bookkeeping")
    /\ Settle(w, task[w].job, IF task[w].attempt < MaxAttempts THEN "waiting" ELSE "failed")
    /\ task' = [task EXCEPT ![w] = Idle]
    /\ UNCHANGED <<rows, request>>

(* "Failure bookkeeping failed": logged, and the job fails all the same.   *)
BookkeepingFails(w) ==
    /\ task[w].pc \in {"fail", "refund"} \cap FaultyCalls
    /\ Use("bookkeeping")
    /\ Goto(w, "give-up")
    /\ UNCHANGED <<rows, jobs, request>>

Final(w) == task[w].err # "transient" \/ task[w].attempt >= MaxAttempts

RetryLater(w) ==
    /\ task[w].pc = "failing"
    /\ ~ Final(w)
    /\ Settle(w, task[w].job, "waiting")
    /\ task' = [task EXCEPT ![w] = Idle]
    /\ UNCHANGED <<rows, request, used>>

FailRead(w) ==
    /\ task[w].pc = "failing"
    /\ Final(w)
    /\ Goto(w, IF task[w].err # "cancelled" /\ CanMove(Active) THEN "fail" ELSE "give-up")
    /\ UNCHANGED <<rows, jobs, request, used>>

(* Mutant of FailRender: only the errors that nobody retried are refunded.  *)
FailRenderWithoutRefund(w) ==
    /\ task[w].pc = "fail"
    /\ IF CanMove(Active)
       THEN /\ render' = [render EXCEPT !.status = "FAILED", !.retryable = task[w].err # "fatal"]
            /\ Goto(w, IF task[w].err = "transient" THEN "give-up" ELSE "refund")
       ELSE Goto(w, "give-up") /\ UNCHANGED render
    /\ UNCHANGED <<source, stored, held, jobs, request, used>>

FailRender(w) ==
    /\ task[w].pc = "fail"
    /\ IF CanMove(Active)
       THEN /\ render' = [render EXCEPT !.status = "FAILED", !.retryable = task[w].err # "fatal"]
            /\ Goto(w, "refund")
       ELSE Goto(w, "give-up") /\ UNCHANGED render
    /\ UNCHANGED <<source, stored, held, jobs, request, used>>

Refund(w) ==
    /\ task[w].pc = "refund"
    /\ held' = FALSE
    /\ Goto(w, "give-up")
    /\ UNCHANGED <<render, source, stored, jobs, request, used>>

GiveUp(w) ==
    /\ task[w].pc = "give-up"
    /\ Settle(w, task[w].job, "failed")
    /\ task' = [task EXCEPT ![w] = Idle]
    /\ UNCHANGED <<rows, request, used>>

(* The worker process dies.                                                *)
Crash(w) ==
    /\ task[w].pc # "idle"
    /\ Use("crashes")
    /\ task' = [task EXCEPT ![w] = Idle]
    /\ UNCHANGED <<rows, jobs, request>>

(* A lock expires because its slot died, or because the slot was too slow to
   renew it: then the job may run twice at once.                           *)
Stall(id) ==
    /\ Reclaim(id)
    /\ LET w == jobs[id].slot IN
       \/ task[w].job # id /\ UNCHANGED used
       \/ task[w].job = id /\ Use("lostLocks")
    /\ UNCHANGED <<rows, task, request>>

-----------------------------------------------------------------------------
(* API requests (renders.service.ts, videos.service.ts) and the janitor.   *)

NoRequest == [pc |-> "idle", attempt |-> 0]

(* retry(): the reads and checks, the conditional update, which does not
   look at deleted_at, then the read that fails on a removed render.       *)
AskRetry(q) ==
    /\ request[q].pc = "idle"
    /\ CanMove({"FAILED"})
    /\ render.retryable
    /\ source = "there"
    /\ Use("retries")
    /\ request' = [request EXCEPT ![q].pc = "transition"]
    /\ UNCHANGED <<rows, jobs, task>>

Requeued == [render EXCEPT !.status = "QUEUED", !.retryable = TRUE, !.attempt = @ + 1]

(* Mutant of Retry: the status is not part of the update's condition.      *)
RetryAnyStatus(q) ==
    /\ request[q].pc = "transition"
    /\ render' = Requeued /\ request' = [request EXCEPT ![q].pc = "reread"]
    /\ UNCHANGED <<source, stored, held, jobs, task, used>>

Retry(q) ==
    /\ request[q].pc = "transition"
    /\ IF render.status = "FAILED"
       THEN render' = Requeued /\ request' = [request EXCEPT ![q].pc = "reread"]
       ELSE UNCHANGED render /\ request' = [request EXCEPT ![q] = NoRequest]
    /\ UNCHANGED <<source, stored, held, jobs, task, used>>

Reread(q) ==
    /\ request[q].pc = "reread"
    /\ request' = [request EXCEPT ![q] = IF render.deleted THEN NoRequest
                                         ELSE [pc |-> "enqueue", attempt |-> render.attempt]]
    /\ UNCHANGED <<rows, jobs, task, used>>

RequestEnqueues(q) ==
    /\ request[q].pc = "enqueue"
    /\ Add(RenderJob(request[q].attempt), None)
    /\ request' = [request EXCEPT ![q] = NoRequest]
    /\ UNCHANGED <<rows, task, used>>

(* The API process dies, or Redis refuses the job and the caller sees 5xx. *)
EnqueueLost(q) ==
    /\ request[q].pc \in {"reread", "enqueue"}
    /\ Use("lostEnqueues")
    /\ request' = [request EXCEPT ![q] = NoRequest]
    /\ UNCHANGED <<rows, jobs, task>>

Remove ==
    /\ ~ render.deleted
    /\ Use("removals")
    /\ render' = [render EXCEPT !.deleted = TRUE]
    /\ UNCHANGED <<source, stored, held, jobs, task, request>>

(* VideosService.remove soft-deletes the video and its renders at once.    *)
RemoveVideo ==
    /\ source # "deleted"
    /\ Use("removals")
    /\ render' = [render EXCEPT !.deleted = TRUE]
    /\ source' = "deleted"
    /\ UNCHANGED <<stored, held, jobs, task, request>>

(* The janitor: source retention.                                          *)
ExpireSource ==
    /\ source = "there"
    /\ Use("expiries")
    /\ source' = "expired"
    /\ UNCHANGED <<render, stored, held, jobs, task, request>>

(* The janitor re-adds the job of a render that stays QUEUED.              *)
Requeue ==
    /\ CanMove({"QUEUED"})
    /\ Add(RenderJob(render.attempt), None)
    /\ UNCHANGED <<rows, task, request, used>>

-----------------------------------------------------------------------------
(* create() has just inserted the row; its enqueue is the first request.   *)
Init == /\ render = [status |-> "QUEUED", attempt |-> 1, deleted |-> FALSE, retryable |-> TRUE]
        /\ source = "there"
        /\ stored = FALSE
        /\ held = FALSE
        /\ jobs = [id \in {} |-> None]
        /\ task = [w \in Slots |-> Idle]
        /\ \E q \in Requests :
              request = [r \in Requests |->
                            IF r = q THEN [pc |-> "enqueue", attempt |-> 1] ELSE NoRequest]
        /\ used = [x \in DOMAIN Bound |-> 0]

Run(w) == \/ ReadRender(w) \/ ReadVideo(w) \/ Charge(w) \/ Prepare(w) \/ OpenSource(w)
          \/ Advance(w) \/ RunFfmpeg(w) \/ StoreOutput(w) \/ FinishRender(w)

Failure(w) == RetryLater(w) \/ FailRead(w) \/ FailRender(w) \/ Refund(w) \/ GiveUp(w)

Execute(w) == Run(w) \/ Complete(w) \/ Failure(w)

Request(q) == Retry(q) \/ Reread(q) \/ RequestEnqueues(q)

Faults(w) == CallFails(w) \/ RecordFails(w) \/ BookkeepingFails(w) \/ Crash(w)

Next == \/ \E w \in Slots : Start(w) \/ Execute(w) \/ Faults(w)
        \/ \E id \in DOMAIN jobs : Stall(id)
        \/ \E q \in Requests : AskRetry(q) \/ Request(q) \/ EnqueueLost(q)
        \/ Remove \/ RemoveVideo \/ ExpireSource \/ Requeue

Spec == Init /\ [][Next]_vars

(* Workers run, take jobs and check for stalled ones; the janitor and the
   requests in progress go on.  The user owes nothing.                     *)
FairSpec == /\ Spec
            /\ \A w \in Slots : WF_vars(Start(w)) /\ WF_vars(Execute(w))
            /\ WF_vars(\E id \in DOMAIN jobs : Stall(id) /\ UNCHANGED used)
            /\ \A q \in Requests : WF_vars(Request(q))
            /\ WF_vars(Requeue)

-----------------------------------------------------------------------------
(* Properties.                                                             *)

Render == [status : Active \cup {"COMPLETED", "FAILED"}, attempt : Nat,
           deleted : BOOLEAN, retryable : BOOLEAN]

JobId == [queue : {"render"}, attempt : Nat]

Job == [state : {"waiting", "active", "completed", "failed"}, attempts : Nat, stalls : Nat,
        slot : Slots \cup {None}, data : {None}]

Task == [pc : HandlerCalls \cup {"idle", "failing", "fail", "refund", "give-up"},
         job : JobId \cup {None}, attempt : Nat,
         err : {"transient", "credits", "fatal", "cancelled", None}]

Asked == [pc : {"idle", "transition", "reread", "enqueue"}, attempt : Nat]

TypeOK ==
    /\ render \in Render
    /\ source \in {"there", "expired", "deleted"}
    /\ {stored, held} \subseteq BOOLEAN
    /\ DOMAIN jobs \subseteq JobId
    /\ jobs \in [DOMAIN jobs -> Job]
    /\ task \in [Slots -> Task]
    /\ request \in [Requests -> Asked]
    /\ used \in [DOMAIN Bound -> Nat]

(* The statuses an execution can find when it alone works on the render.   *)
StatusIn == [video |-> Active, charge |-> Active, prepare |-> Active,
             source |-> {"PREPARING"}, analyze |-> {"PREPARING"},
             encode |-> {"PREPARING", "ANALYZING_VISUALS"}, ffmpeg |-> {"RENDERING"},
             upload |-> {"RENDERING"}, store |-> {"UPLOADING"}, complete |-> {"UPLOADING"},
             failing |-> Active, fail |-> Active]

Works(w) == task[w].pc \in DOMAIN StatusIn

(* Who works has the job of the render's current attempt, and nobody else
   has it.  So it stays unless a slot that lost its lock goes on, or an
   earlier attempt's job comes back and fails before it read the render.   *)
WorkersInv ==
    /\ \A w \in Slots : task[w].pc # "idle" =>
          task[w].job \in DOMAIN jobs /\ Holds(w, task[w].job)
    /\ \A id \in DOMAIN jobs : id.attempt <= render.attempt
    /\ \A q \in Requests : request[q].attempt <= render.attempt
    /\ \A w \in Slots : Works(w) =>
          task[w].job.attempt = render.attempt /\ render.status \in StatusIn[task[w].pc]

(* The owner sees RenderLifecycle: no execution, redelivery or request, in
   whatever order they run, moves a clip in any other way.                 *)
Lifecycle == INSTANCE RenderLifecycle WITH
    status <- IF render.deleted THEN "removed" ELSE render.status,
    attempt <- IF render.deleted THEN 0 ELSE render.attempt

ImplementsLifecycle == Lifecycle!Spec

(* docs/billing.md:51: "A render that fails is refunded": nothing stays
   taken for a failed render once the refund that follows is done.  A worker
   that dies in between, or a refund that fails, is excepted: nobody makes
   up for it before the next failure.                                      *)
FailedIsRefunded ==
    render.status = "FAILED" /\ held =>
       used.crashes > 0 \/ used.bookkeeping > 0 \/ \E w \in Slots : task[w].pc = "refund"

(* A COMPLETED clip can be played: its objects were stored before.         *)
CompletedIsStored == render.status = "COMPLETED" => stored

(* Rendering comes to an end, whatever fails and whichever slot dies: the
   render is COMPLETED, FAILED or removed.  A job whose failure could not be
   written down is excepted: the queue has given it up, and the janitor adds
   no job under an id that is taken.                                       *)
RenderingEnds ==
    (render.status \in Active) ~>
       (render.status \notin Active \/ render.deleted \/ used.bookkeeping > 0)
=============================================================================
