--------------------------- MODULE VideoPipeline ---------------------------
(***************************************************************************)
(* One video on its way through the queues: the worker's ingest,           *)
(* transcription and analysis handlers inside make_processor, the API's    *)
(* process, analyze and remove requests, and the janitor, one database     *)
(* statement, queue call or piece of media work per step.                  *)
(*                                                                         *)
(* The video's credits are seen through CreditAccount: held says whether   *)
(* subject "video:<id>" has an open charge.  Charging is enforced.         *)
(***************************************************************************)
EXTENDS JobQueue, Moments, FiniteSets

CONSTANTS Requests,     \* concurrent API requests about the video
          MaxAttempts,  \* MaxAttempts[queue]: JOB_DEFAULTS attempts (3, 5, 3)
          FaultyCalls,  \* the calls that may fail: a set of pcs, and "record" for job_runs
          LostEnqueues, \* the requests that may die before they enqueue: a set of plans
          MaxRuns,      \* bound: processing runs, analysis runs and transcript versions
          Bound         \* bound: Bound[x] for the fields of used

(* The calls of the handlers and of the processor's success path, named by
   the pc they are made at.                                                *)
HandlerCalls == {"read", "claim", "probe", "charge", "prepare", "version", "advance", "ensure-next",
                 "enqueue", "ensure", "mark", "provider", "save", "activate", "discard-audio",
                 "load", "llm", "publish", "done"}

ASSUME VideoAssumption ==
    /\ IsFiniteSet(Requests)
    /\ MaxRuns \in Nat
    /\ FaultyCalls \subseteq HandlerCalls \cup {"fail", "refund", "record"}
    /\ Bound \in [faults : Nat, errors : Nat, crashes : Nat, lostLocks : Nat, requests : Nat,
                   removals : Nat]

VARIABLES video,        \* the videos row
          transcripts,  \* transcripts[version]: its row's status, or "none"
          candidates,   \* candidates[run]: "none", "live" or "superseded"
          held,         \* the video's credits are taken
          task,         \* task[slot]: the execution of a job in a slot
          request,      \* request[q]: an API request in progress
          used          \* how much of Bound has been used; and the late refunds

rows == <<video, transcripts, candidates, held>>
vars == <<rows, jobs, task, request, used>>

Processing == {"QUEUED", "INGESTING", "TRANSCRIBING", "ANALYZING"}
Versions == 1 .. MaxRuns

IngestJob(run) == [queue |-> "ingest", n |-> 0, run |-> run]
TranscriptionJob(version, run) == [queue |-> "transcription", n |-> version, run |-> run]
AnalysisJob(run) == [queue |-> "analysis", n |-> run, run |-> 0]

(* An enqueue: a job id and the payload that the id does not determine, the
   transcript an analysis job is for.                                      *)
Enqueuing(id, data) == [id |-> id, data |-> data]

(* What is counted: the uses of Bound and, for ReadyIsPaid alone, the refunds
   that came when a retry had begun.                                       *)
Counted == DOMAIN Bound \cup {"lateRefunds"}

Use(x) == used[x] < Bound[x] /\ used' = [used EXCEPT ![x] = @ + 1]

(* Errors, crashes and lost locks together are bounded too.                *)
Suffer(x) == /\ used[x] < Bound[x]
             /\ used.faults < Bound.faults
             /\ used' = [used EXCEPT ![x] = @ + 1, !.faults = @ + 1]

-----------------------------------------------------------------------------
(* The row.                                                                *)

(* transition_video: a conditional update; false when the row has moved on. *)
CanMove(from) == ~ video.deleted /\ video.status \in from

(* next_transcript_version.                                                *)
NextVersion ==
    LET existing == {n \in Versions : transcripts[n] # "none"}
        latest == CHOOSE n \in existing : \A m \in existing : m <= n
    IN  IF existing = {} THEN 1
        ELSE IF transcripts[latest] = "COMPLETED" THEN latest + 1 ELSE latest

-----------------------------------------------------------------------------
(* A slot's execution of a job.                                            *)

Idle == [pc |-> "idle", job |-> None, attempt |-> 0, seen |-> None, version |-> 0, next |-> None,
         err |-> None]

At(w, queue, pc) == task[w].pc = pc /\ task[w].job.queue = queue

Goto(w, pc) == task' = [task EXCEPT ![w].pc = pc]

(* Goes on with the row as read now.                                       *)
Read(w, pc) == task' = [task EXCEPT ![w].pc = pc, ![w].seen = video]

GoEnqueue(w, next) == task' = [task EXCEPT ![w].pc = "enqueue", ![w].next = next, ![w].version = 0]

Fails(w, err) == task' = [task EXCEPT ![w].pc = "failing", ![w].err = err, ![w].seen = None,
                                      ![w].version = 0, ![w].next = None]

Start(w) ==
    \E id \in DOMAIN jobs :
       /\ task[w].pc = "idle"
       /\ Take(w, id)
       /\ task' = [task EXCEPT ![w] = [Idle EXCEPT !.pc = "read", !.job = id,
                                                   !.attempt = jobs[id].attempts + 1]]
       /\ UNCHANGED <<rows, request, used>>

(* charge_video: finds the open charge or opens one, unless the credits do
   not reach.                                                              *)
AfterCharge == [ingest |-> "prepare", transcription |-> "ensure", analysis |-> "load"]

Charge(w) ==
    /\ task[w].pc = "charge"
    /\ \/ held' = TRUE /\ Goto(w, AfterCharge[task[w].job.queue]) /\ UNCHANGED used
       \/ ~ held /\ Suffer("errors") /\ Fails(w, "credits") /\ UNCHANGED held
    /\ UNCHANGED <<video, transcripts, candidates, jobs, request>>

(* The next stage's job; its id makes a second add a no-op.                *)
Enqueue(w) ==
    /\ task[w].pc = "enqueue"
    /\ Add(task[w].next.id, task[w].next.data)
    /\ task' = [task EXCEPT ![w].pc = "done", ![w].next = None, ![w].seen = None]
    /\ UNCHANGED <<rows, request, used>>

Complete(w) ==
    /\ task[w].pc = "done"
    /\ Settle(w, task[w].job, "completed")
    /\ task' = [task EXCEPT ![w] = Idle]
    /\ UNCHANGED <<rows, request, used>>

(* Mutant of IngestRead: a redelivered job trusts that the next one exists. *)
IngestReadTrusting(w) ==
    /\ At(w, "ingest", "read")
    /\ Read(w, IF video.deleted \/ task[w].job.run < video.run THEN "done"
               ELSE CASE video.status = "QUEUED" -> "claim"
                      [] video.status = "INGESTING" -> "probe"
                      [] OTHER -> "done")
    /\ UNCHANGED <<rows, jobs, request, used>>

-----------------------------------------------------------------------------
(* ingest.py.                                                              *)

IngestRead(w) ==
    /\ At(w, "ingest", "read")
    /\ Read(w, IF video.deleted \/ task[w].job.run < video.run THEN "done"
               ELSE CASE video.status = "TRANSCRIBING" -> "ensure-next"
                      [] video.status = "QUEUED" -> "claim"
                      [] video.status = "INGESTING" -> "probe"
                      [] OTHER -> "done")
    /\ UNCHANGED <<rows, jobs, request, used>>

(* The transition was made but the enqueue may be missing.                 *)
EnsureTranscriptionJob(w) ==
    /\ At(w, "ingest", "ensure-next")
    /\ GoEnqueue(w, Enqueuing(TranscriptionJob(NextVersion, task[w].seen.run), None))
    /\ UNCHANGED <<rows, jobs, request, used>>

ClaimIngest(w) ==
    /\ At(w, "ingest", "claim")
    /\ IF CanMove({"QUEUED"})
       THEN video' = [video EXCEPT !.status = "INGESTING"] /\ Goto(w, "probe")
       ELSE Goto(w, "done") /\ UNCHANGED video
    /\ UNCHANGED <<transcripts, candidates, held, jobs, request, used>>

(* Download or head, probe, poster.                                        *)
Probe(w) ==
    /\ At(w, "ingest", "probe")
    /\ Goto(w, "charge")
    /\ UNCHANGED <<rows, jobs, request, used>>

(* Proxy and speech audio, stored under deterministic keys.                *)
Prepare(w) ==
    /\ At(w, "ingest", "prepare")
    /\ Goto(w, "version")
    /\ UNCHANGED <<rows, jobs, request, used>>

ChooseVersion(w) ==
    /\ At(w, "ingest", "version")
    /\ task' = [task EXCEPT ![w].pc = "advance", ![w].version = NextVersion]
    /\ UNCHANGED <<rows, jobs, request, used>>

(* The conditional update, with the read of the row that follows it.       *)
FinishIngest(w) ==
    /\ At(w, "ingest", "advance")
    /\ IF CanMove({"INGESTING"})
       THEN /\ video' = [video EXCEPT !.status = "TRANSCRIBING", !.audio = TRUE]
            /\ GoEnqueue(w, Enqueuing(TranscriptionJob(task[w].version, video.run), None))
       ELSE Goto(w, "done") /\ UNCHANGED video
    /\ UNCHANGED <<transcripts, candidates, held, jobs, request, used>>

-----------------------------------------------------------------------------
(* transcription.py.                                                       *)

TranscriptionRead(w) ==
    /\ At(w, "transcription", "read")
    /\ IF ~ video.deleted /\ video.status = "ANALYZING" /\ video.transcript # 0
       THEN GoEnqueue(w, Enqueuing(AnalysisJob(video.analysisRun), video.transcript))
       ELSE Read(w, IF video.deleted \/ video.status # "TRANSCRIBING" THEN "done" ELSE "charge")
    /\ UNCHANGED <<rows, jobs, request, used>>

WriteTranscript(w, status) ==
    transcripts' = [transcripts EXCEPT ![task[w].job.n] = status]

(* Mutant of EnsureTranscript: a completed row is transcribed again.       *)
EnsureTranscriptAgain(w) ==
    /\ At(w, "transcription", "ensure")
    /\ IF transcripts[task[w].job.n] = "none" THEN WriteTranscript(w, "PENDING")
       ELSE UNCHANGED transcripts
    /\ Goto(w, "mark")
    /\ UNCHANGED <<video, candidates, held, jobs, request, used>>

(* ensure_transcript: one row per version; a completed one is reused.      *)
EnsureTranscript(w) ==
    /\ At(w, "transcription", "ensure")
    /\ IF transcripts[task[w].job.n] = "none" THEN WriteTranscript(w, "PENDING")
       ELSE UNCHANGED transcripts
    /\ Goto(w, IF transcripts[task[w].job.n] = "COMPLETED" THEN "activate" ELSE "mark")
    /\ UNCHANGED <<video, candidates, held, jobs, request, used>>

MarkProcessing(w) ==
    /\ At(w, "transcription", "mark")
    /\ WriteTranscript(w, "PROCESSING")
    /\ Goto(w, "provider")
    /\ UNCHANGED <<video, candidates, held, jobs, request, used>>

Transcribe(w) ==
    /\ At(w, "transcription", "provider")
    /\ \/ Goto(w, "save") /\ UNCHANGED <<transcripts, used>>
       \/ WriteTranscript(w, "FAILED") /\ Suffer("errors") /\ Fails(w, "fatal")  \* no speech
    /\ UNCHANGED <<video, candidates, held, jobs, request>>

SaveTranscript(w) ==
    /\ At(w, "transcription", "save")
    /\ WriteTranscript(w, "COMPLETED")
    /\ Goto(w, "activate")
    /\ UNCHANGED <<video, candidates, held, jobs, request, used>>

(* Mutant of ActivateTranscript: an active transcript is never replaced.   *)
ActivateFirstTranscript(w) ==
    /\ At(w, "transcription", "activate")
    /\ video' = IF video.transcript = 0 THEN [video EXCEPT !.transcript = task[w].job.n] ELSE video
    /\ Goto(w, IF task[w].seen.audio THEN "discard-audio" ELSE "advance")
    /\ UNCHANGED <<transcripts, candidates, held, jobs, request, used>>

(* update_video is unconditional.                                          *)
ActivateTranscript(w) ==
    /\ At(w, "transcription", "activate")
    /\ video' = [video EXCEPT !.transcript = task[w].job.n]
    /\ Goto(w, IF task[w].seen.audio THEN "discard-audio" ELSE "advance")
    /\ UNCHANGED <<transcripts, candidates, held, jobs, request, used>>

DiscardAudio(w) ==
    /\ At(w, "transcription", "discard-audio")
    /\ video' = [video EXCEPT !.audio = FALSE]
    /\ Goto(w, "advance")
    /\ UNCHANGED <<transcripts, candidates, held, jobs, request, used>>

(* The next analysis run is counted from the row read at the start.        *)
FinishTranscription(w) ==
    LET run == task[w].seen.analysisRun + 1 IN
    /\ At(w, "transcription", "advance")
    /\ IF CanMove({"TRANSCRIBING"})
       THEN /\ video' = [video EXCEPT !.status = "ANALYZING", !.analysisRun = run]
            /\ GoEnqueue(w, Enqueuing(AnalysisJob(run), task[w].job.n))
       ELSE Goto(w, "done") /\ UNCHANGED video
    /\ UNCHANGED <<transcripts, candidates, held, jobs, request, used>>

-----------------------------------------------------------------------------
(* analysis.py.                                                            *)

(* Mutant of AnalysisRead: any analysis but a video's first is free.        *)
AnalysisReadFreely(w) ==
    /\ At(w, "analysis", "read")
    /\ Goto(w, IF \/ video.deleted \/ video.status # "ANALYZING"
                  \/ task[w].job.n # video.analysisRun THEN "done"
               ELSE IF video.analysisRun > 1 THEN "load" ELSE "charge")
    /\ UNCHANGED <<rows, jobs, request, used>>

(* Re-analysing a video that was READY before is free.                     *)
AnalysisRead(w) ==
    /\ At(w, "analysis", "read")
    /\ Goto(w, IF \/ video.deleted \/ video.status # "ANALYZING"
                  \/ task[w].job.n # video.analysisRun THEN "done"
               ELSE IF video.ready THEN "load" ELSE "charge")
    /\ UNCHANGED <<rows, jobs, request, used>>

LoadTranscript(w) ==
    /\ At(w, "analysis", "load")
    /\ IF transcripts[jobs[task[w].job].data] = "COMPLETED" THEN Goto(w, "llm") ELSE Fails(w, "fatal")
    /\ UNCHANGED <<rows, jobs, request, used>>

FindMoments(w) ==
    /\ At(w, "analysis", "llm")
    /\ Goto(w, "publish")
    /\ UNCHANGED <<rows, jobs, request, used>>

(* Mutant of PublishCandidates: older runs are not superseded.             *)
PublishBesideOlder(w) ==
    /\ At(w, "analysis", "publish")
    /\ candidates' = [candidates EXCEPT ![task[w].job.n] = "live"]
    /\ Goto(w, "advance")
    /\ UNCHANGED <<video, transcripts, held, jobs, request, used>>

(* replace_candidates, one transaction.                                    *)
PublishCandidates(w) ==
    LET run == task[w].job.n IN
    /\ At(w, "analysis", "publish")
    /\ candidates' = [r \in Versions |-> IF r = run THEN "live"
                                         ELSE IF candidates[r] = "live" THEN "superseded"
                                         ELSE candidates[r]]
    /\ Goto(w, "advance")
    /\ UNCHANGED <<video, transcripts, held, jobs, request, used>>

FinishAnalysis(w) ==
    /\ At(w, "analysis", "advance")
    /\ video' = IF CanMove({"ANALYZING"})
                THEN [video EXCEPT !.status = "READY", !.ready = TRUE, !.failedStage = None,
                                   !.retryable = TRUE]
                ELSE video
    /\ Goto(w, "done")
    /\ UNCHANGED <<transcripts, candidates, held, jobs, request, used>>

-----------------------------------------------------------------------------
(* Failures (make_processor, fail_video).  An error is "transient" (retried
   by the queue and by the user), "credits" (retried by the user only) or
   "fatal" (not retried).                                                  *)

FatalSteps == {"probe", "prepare", "ensure", "provider", "llm"}

CallFails(w) ==
    /\ task[w].pc \in HandlerCalls \cap FaultyCalls
    /\ Suffer("errors")
    /\ \/ Fails(w, "transient")
       \/ task[w].pc \in FatalSteps /\ Fails(w, "fatal")
    /\ UNCHANGED <<rows, jobs, request>>

Final(w) == \/ task[w].err # "transient"
            \/ task[w].attempt >= MaxAttempts[task[w].job.queue]

(* on_retry only touches the substage.                                     *)
RetryLater(w) ==
    /\ task[w].pc = "failing"
    /\ ~ Final(w)
    /\ Settle(w, task[w].job, "waiting")
    /\ task' = [task EXCEPT ![w] = Idle]
    /\ UNCHANGED <<rows, request, used>>

FailRead(w) ==
    /\ task[w].pc = "failing"
    /\ Final(w)
    /\ Read(w, IF CanMove(Processing) THEN "fail" ELSE "give-up")
    /\ UNCHANGED <<rows, jobs, request, used>>

(* Mutant of FailVideo: a saved transcript counts as delivered.            *)
FailVideoKeepingCharge(w) ==
    /\ task[w].pc = "fail"
    /\ IF CanMove(Processing)
       THEN /\ video' = [video EXCEPT !.status = "FAILED", !.failedStage = task[w].seen.status,
                                      !.retryable = task[w].err # "fatal"]
            /\ Goto(w, IF task[w].seen.transcript # 0 THEN "give-up" ELSE "refund")
       ELSE Goto(w, "give-up") /\ UNCHANGED video
    /\ UNCHANGED <<transcripts, candidates, held, jobs, request, used>>

(* Mutant of FailVideo: the failed stage is read after the transition.     *)
FailVideoAfterwards(w) ==
    /\ task[w].pc = "fail"
    /\ IF CanMove(Processing)
       THEN /\ video' = [video EXCEPT !.status = "FAILED", !.failedStage = "FAILED",
                                      !.retryable = task[w].err # "fatal"]
            /\ Goto(w, IF task[w].seen.ready THEN "give-up" ELSE "refund")
       ELSE Goto(w, "give-up") /\ UNCHANGED video
    /\ UNCHANGED <<transcripts, candidates, held, jobs, request, used>>

(* A video that was READY before keeps its charge.                         *)
FailVideo(w) ==
    /\ task[w].pc = "fail"
    /\ IF CanMove(Processing)
       THEN /\ video' = [video EXCEPT !.status = "FAILED", !.failedStage = task[w].seen.status,
                                      !.retryable = task[w].err # "fatal"]
            /\ Goto(w, IF task[w].seen.ready THEN "give-up" ELSE "refund")
       ELSE Goto(w, "give-up") /\ UNCHANGED video
    /\ UNCHANGED <<transcripts, candidates, held, jobs, request, used>>

(* A transaction of its own, which does not look at the video again: a retry
   may have begun, or have delivered, on the charge that it gives back.     *)
Overtaken == video.status # "FAILED" \/ video.ready

Refund(w) ==
    /\ task[w].pc = "refund"
    /\ held' = FALSE
    /\ used' = IF held /\ Overtaken THEN [used EXCEPT !.lateRefunds = @ + 1] ELSE used
    /\ Goto(w, "give-up")
    /\ UNCHANGED <<video, transcripts, candidates, jobs, request>>

(* "Failure bookkeeping failed": logged, and the job fails all the same.   *)
BookkeepingFails(w) ==
    /\ task[w].pc \in {"fail", "refund"} \cap FaultyCalls
    /\ Suffer("errors")
    /\ Goto(w, "give-up")
    /\ UNCHANGED <<rows, jobs, request>>

(* job_started and job_finished write the job_runs row outside the handler's
   error handling: when they fail, nothing else is done about the job.     *)
RecordFails(w) ==
    /\ "record" \in FaultyCalls
    /\ task[w].pc \in {"read", "failing"}
    /\ Suffer("errors")
    /\ Settle(w, task[w].job,
              IF task[w].attempt < MaxAttempts[task[w].job.queue] THEN "waiting" ELSE "failed")
    /\ task' = [task EXCEPT ![w] = Idle]
    /\ UNCHANGED <<rows, request>>

GiveUp(w) ==
    /\ task[w].pc = "give-up"
    /\ Settle(w, task[w].job, "failed")
    /\ task' = [task EXCEPT ![w] = Idle]
    /\ UNCHANGED <<rows, request, used>>

(* The worker process dies.                                                *)
Crash(w) ==
    /\ task[w].pc # "idle"
    /\ Suffer("crashes")
    /\ task' = [task EXCEPT ![w] = Idle]
    /\ UNCHANGED <<rows, jobs, request>>

(* A lock expires because its slot died, or because the slot was too slow to
   renew it: then the job may run twice at once.                           *)
Stall(id) ==
    /\ Reclaim(id)
    /\ LET w == jobs[id].slot IN
       \/ task[w].job # id /\ UNCHANGED used
       \/ task[w].job = id /\ Suffer("lostLocks")
    /\ UNCHANGED <<rows, task, request>>

-----------------------------------------------------------------------------
(* API requests (videos.service.ts).                                       *)

NoRequest == [pc |-> "idle", plan |-> None, run |-> 0, next |-> None]

(* process() resumes from the furthest durable stage; analyze() finds new
   moments.                                                                *)
ProcessPlan == IF video.transcript # 0 THEN "analysis"
               ELSE IF video.failedStage = "TRANSCRIBING" /\ video.audio THEN "transcription"
               ELSE "ingest"

Ask(q, plan) ==
    /\ request[q].pc = "idle"
    /\ ~ video.deleted
    /\ Use("requests")
    /\ request' = [request EXCEPT ![q] = [NoRequest EXCEPT !.pc = "transition", !.plan = plan]]
    /\ UNCHANGED <<rows, jobs, task>>

Process(q) ==
    /\ video.status = "FAILED"
    /\ video.retryable
    /\ Ask(q, ProcessPlan)

Analyze(q) ==
    /\ video.status \in {"READY", "FAILED"}
    /\ video.transcript # 0
    /\ Ask(q, "reanalysis")

PlanFrom == [ingest |-> {"FAILED"}, transcription |-> {"FAILED"}, analysis |-> {"FAILED"},
             reanalysis |-> {"READY", "FAILED"}]
PlanTo == [ingest |-> "QUEUED", transcription |-> "TRANSCRIBING", analysis |-> "ANALYZING",
           reanalysis |-> "ANALYZING"]

(* The conditional update, counting a new run, with the read of the row that
   follows it; a request that lost answers with the row as it is.          *)
Restart(q) ==
    LET plan == request[q].plan
        run == video.run + 1
        analysisRun == video.analysisRun + 1
        moved == [video EXCEPT !.status = PlanTo[plan], !.retryable = TRUE]
        Proceed(next) == request' = [request EXCEPT ![q].pc = "enqueue", ![q].next = next]
    IN
    /\ request[q].pc = "transition"
    /\ CASE ~ CanMove(PlanFrom[plan]) ->
               request' = [request EXCEPT ![q] = NoRequest] /\ UNCHANGED video
         [] CanMove(PlanFrom[plan]) /\ plan = "ingest" ->
               /\ video' = [moved EXCEPT !.run = run]
               /\ Proceed(Enqueuing(IngestJob(run), None))
         [] CanMove(PlanFrom[plan]) /\ plan = "transcription" ->
               /\ video' = [moved EXCEPT !.run = run]
               /\ request' = [request EXCEPT ![q].pc = "version", ![q].run = run]
         [] OTHER ->
               /\ video' = [moved EXCEPT !.analysisRun = analysisRun]
               /\ Proceed(Enqueuing(AnalysisJob(analysisRun), video.transcript))
    /\ UNCHANGED <<transcripts, candidates, held, jobs, task, used>>

RequestVersion(q) ==
    /\ request[q].pc = "version"
    /\ request' = [request EXCEPT ![q].pc = "enqueue", ![q].run = 0,
          ![q].next = Enqueuing(TranscriptionJob(NextVersion, request[q].run), None)]
    /\ UNCHANGED <<rows, jobs, task, used>>

RequestEnqueues(q) ==
    /\ request[q].pc = "enqueue"
    /\ Add(request[q].next.id, request[q].next.data)
    /\ request' = [request EXCEPT ![q] = NoRequest]
    /\ UNCHANGED <<rows, task, used>>

(* The API process dies, or Redis refuses the job and the caller sees 5xx. *)
EnqueueLost(q) ==
    /\ request[q].pc \in {"version", "enqueue"}
    /\ request[q].plan \in LostEnqueues
    /\ request' = [request EXCEPT ![q] = NoRequest]
    /\ UNCHANGED <<rows, jobs, task, used>>

(* remove(): the soft delete, one transaction.                             *)
RemoveVideo ==
    /\ ~ video.deleted
    /\ Use("removals")
    /\ video' = [video EXCEPT !.deleted = TRUE]
    /\ candidates' = [r \in Versions |-> IF candidates[r] = "live" THEN "superseded" ELSE candidates[r]]
    /\ UNCHANGED <<transcripts, held, jobs, task, request>>

(* The janitor re-adds the ingest job of a video that stays QUEUED.        *)
Requeue ==
    /\ CanMove({"QUEUED"})
    /\ Add(IngestJob(video.run), None)
    /\ UNCHANGED <<rows, task, request, used>>

-----------------------------------------------------------------------------
(* The video has just become QUEUED by create() or completeUpload(), whose
   enqueue is the first request.                                           *)
Init == /\ video = [status |-> "QUEUED", deleted |-> FALSE, run |-> 1, analysisRun |-> 0,
                    transcript |-> 0, audio |-> FALSE, ready |-> FALSE,
                    failedStage |-> None, retryable |-> TRUE]
        /\ transcripts = [n \in Versions |-> "none"]
        /\ candidates = [r \in Versions |-> "none"]
        /\ held = FALSE
        /\ jobs = [id \in {} |-> None]
        /\ task = [w \in Slots |-> Idle]
        /\ \E q \in Requests :
              request = [r \in Requests |-> IF r # q THEN NoRequest
                  ELSE [pc |-> "enqueue", plan |-> "ingest", run |-> 0,
                        next |-> Enqueuing(IngestJob(1), None)]]
        /\ used = [x \in Counted |-> 0]

Ingest(w) == \/ IngestRead(w) \/ EnsureTranscriptionJob(w) \/ ClaimIngest(w) \/ Probe(w)
             \/ Prepare(w) \/ ChooseVersion(w) \/ FinishIngest(w)

Transcription(w) == \/ TranscriptionRead(w) \/ EnsureTranscript(w) \/ MarkProcessing(w)
                    \/ Transcribe(w) \/ SaveTranscript(w) \/ ActivateTranscript(w)
                    \/ DiscardAudio(w) \/ FinishTranscription(w)

Analysis(w) == \/ AnalysisRead(w) \/ LoadTranscript(w) \/ FindMoments(w)
               \/ PublishCandidates(w) \/ FinishAnalysis(w)

Failure(w) == RetryLater(w) \/ FailRead(w) \/ FailVideo(w) \/ Refund(w) \/ GiveUp(w)

Execute(w) == \/ Ingest(w) \/ Transcription(w) \/ Analysis(w)
              \/ Charge(w) \/ Enqueue(w) \/ Complete(w) \/ Failure(w)

Next == \/ \E w \in Slots : \/ Start(w) \/ Execute(w)
                            \/ CallFails(w) \/ BookkeepingFails(w) \/ RecordFails(w)
                            \/ Crash(w)
        \/ \E id \in DOMAIN jobs : Stall(id)
        \/ \E q \in Requests : \/ Process(q) \/ Analyze(q) \/ Restart(q)
                               \/ RequestVersion(q) \/ RequestEnqueues(q) \/ EnqueueLost(q)
        \/ RemoveVideo
        \/ Requeue

Spec == Init /\ [][Next]_vars

(* Workers run, take jobs and check for stalled ones; the janitor and the
   requests in progress go on.  The user owes nothing.                     *)
FairSpec == /\ Spec
            /\ \A w \in Slots : WF_vars(Start(w)) /\ WF_vars(Execute(w))
            /\ WF_vars(\E id \in DOMAIN jobs : Stall(id) /\ UNCHANGED used)
            /\ \A q \in Requests : WF_vars(Restart(q) \/ RequestVersion(q) \/ RequestEnqueues(q))
            /\ WF_vars(Requeue)

-----------------------------------------------------------------------------
(* Properties.                                                             *)

TypeOK ==
    /\ video.status \in Processing \cup {"READY", "FAILED"}
    /\ {video.run, video.analysisRun, video.transcript} \subseteq 0 .. MaxRuns
    /\ video.failedStage \in Processing \cup {None}
    /\ \A n \in Versions :
          /\ transcripts[n] \in {"none", "PENDING", "PROCESSING", "COMPLETED", "FAILED"}
          /\ candidates[n] \in {"none", "live", "superseded"}
    /\ {video.deleted, video.audio, video.ready, video.retryable, held} \subseteq BOOLEAN
    /\ \A w \in Slots : task[w].pc # "idle" => task[w].job \in DOMAIN jobs
    /\ \A id \in DOMAIN jobs : jobs[id].state = "active" => jobs[id].slot \in Slots

(* The owner sees VideoLifecycle: no handler, retry or request, in whatever
   order they run, moves the status, the run counters or the published
   moments in any other way.                                               *)
Lifecycle == INSTANCE VideoLifecycle WITH
    status <- video.status, run <- video.run, analysisRun <- video.analysisRun,
    deleted <- video.deleted,
    shown <- {r \in Versions : candidates[r] = "live" /\ ~ video.deleted}

ImplementsLifecycle == Lifecycle!Spec

(* docs/billing.md:51: "A video that fails before ever reaching READY is
   refunded": nothing stays taken for a failed video once the refund that
   follows its failure is done.                                            *)
FailedIsRefunded ==
    video.status = "FAILED" /\ ~ video.ready /\ held => \E w \in Slots : task[w].pc = "refund"

(* docs/billing.md:51: "Retrying refunded work charges it again": a video
   that was delivered was paid for, through any failures, refunds and
   retries, but for the one way that the code leaves open: a refund that
   runs only after a retry began gives back the charge the retry found.    *)
ReadyIsPaid == video.status = "READY" => held \/ used.lateRefunds > 0

(* docs/pipeline.md:32: "a COMPLETED transcript row is never re-transcribed". *)
CompletedStays ==
    [][\A n \in Versions : transcripts[n] = "COMPLETED" => transcripts'[n] = "COMPLETED"]_vars

(* The moments of a READY video were found in its active transcript.       *)
MomentsMatchTranscript ==
    video.status = "READY" => jobs[AnalysisJob(video.analysisRun)].data = video.transcript

(* What an analysis publishes, from whatever words the provider returned and
   ranges the model proposed, is cut between words and worth showing beside
   the others (refine.py:1, "start and end on natural speech boundaries";
   scoring.py:34, "keeps the stronger of any pair").                       *)
MomentsAreSound ==
    (\E run \in Versions : candidates[run] = "live") => AnalysesAreSound /\ KeptAreDistinct

(* Processing comes to an end, whatever fails once and whichever slot dies:
   the video is READY, FAILED or deleted.  A job that ran twice at once is
   excepted: the second execution may complete the job in the first one's
   stead, whose later failure is then nobody's.                            *)
ProcessingEnds ==
    (video.status \in Processing)
       ~> (video.status \notin Processing \/ video.deleted \/ used.lostLocks > 0)
-----------------------------------------------------------------------------
(* Why the properties hold.                                                *)

Statuses == Processing \cup {"READY", "FAILED"}

Video == [status : Statuses, deleted : BOOLEAN, run : Nat, analysisRun : Nat, transcript : Nat,
          audio : BOOLEAN, ready : BOOLEAN, failedStage : Processing \cup {None},
          retryable : BOOLEAN]

JobId == [queue : {"ingest", "transcription", "analysis"}, n : Nat, run : Nat]

Job == [state : {"waiting", "active", "completed", "failed"}, attempts : Nat, stalls : Nat,
        slot : Slots \cup {None}, data : Nat \cup {None}]

Enqueued == [id : JobId, data : Nat \cup {None}]

Task == [pc : HandlerCalls \cup {"idle", "failing", "fail", "refund", "give-up"},
         job : JobId \cup {None}, attempt : Nat, seen : Video \cup {None}, version : Nat,
         next : Enqueued \cup {None}, err : {"transient", "credits", "fatal", None}]

Asked == [pc : {"idle", "transition", "version", "enqueue"}, plan : DOMAIN PlanTo \cup {None},
          run : Nat, next : Enqueued \cup {None}]

(* The steps of a transcription between its first read and its transition. *)
TranscribingSteps == {"charge", "ensure", "mark", "provider", "save", "activate", "discard-audio",
                      "advance"}

Transcribing(w) == task[w].pc \in TranscribingSteps /\ task[w].job.queue = "transcription"

(* An execution has its job, and what an earlier step of it has read.      *)
Remembers(w) ==
    /\ task[w].pc # "idle" => task[w].job \in DOMAIN jobs
    /\ task[w].pc = "enqueue" => task[w].next \in Enqueued
    /\ At(w, "ingest", "ensure-next") => task[w].seen \in Video
    /\ Transcribing(w) => task[w].seen \in Video
    /\ task[w].pc = "fail" => task[w].seen \in Video /\ task[w].seen.status \in Processing

Intends(q) ==
    /\ request[q].pc # "idle" => request[q].plan \in DOMAIN PlanTo
    /\ request[q].pc = "enqueue" => request[q].next \in Enqueued

Shaped ==
    /\ video \in Video
    /\ transcripts \in [Versions -> {"none", "PENDING", "PROCESSING", "COMPLETED", "FAILED"}]
    /\ candidates \in [Versions -> {"none", "live", "superseded"}]
    /\ held \in BOOLEAN
    /\ DOMAIN jobs \subseteq JobId
    /\ jobs \in [DOMAIN jobs -> Job]
    /\ task \in [Slots -> Task]
    /\ request \in [Requests -> Asked]
    /\ used \in [Counted -> Nat]
    /\ \A w \in Slots : Remembers(w)
    /\ \A q \in Requests : Intends(q)

PaidWork(w) ==
    /\ task[w].pc = "refund" => video.status = "FAILED"
    /\ task[w].pc \in {"prepare", "version", "advance"} /\ task[w].job.queue = "ingest" =>
          held \/ video.status = "FAILED"

(* Without requests, a video that fails stays failed, and only then are its
   credits returned.                                                       *)
PaidInv ==
    /\ Shaped
    /\ used.requests = 0
    /\ \A q \in Requests : request[q].pc \in {"idle", "enqueue"}
    /\ \A w \in Slots : PaidWork(w)
    /\ video.status \in {"TRANSCRIBING", "ANALYZING", "READY"} => held

(* The jobs that are queued or about to be.                                *)
Known == DOMAIN jobs \cup {request[q].next.id : q \in {r \in Requests : request[r].pc = "enqueue"}}

NoTranscriptionOf(run) == \A id \in Known : ~ (id.queue = "transcription" /\ id.run = run)

(* The job whose turn it is: the previous stage's until the next is queued. *)
Current(id) ==
    \/ /\ id = IngestJob(video.run)
       /\ \/ video.status \in {"QUEUED", "INGESTING"}
          \/ video.status = "TRANSCRIBING" /\ NoTranscriptionOf(video.run)
    \/ /\ id.queue = "transcription" /\ id.run = video.run
       /\ \/ video.status = "TRANSCRIBING"
          \/ video.status = "ANALYZING" /\ AnalysisJob(video.analysisRun) \notin Known
    \/ id = AnalysisJob(video.analysisRun) /\ video.status = "ANALYZING"

InCharge(w) == task[w].pc \notin {"idle", "done", "refund", "give-up"}

(* What is running holds its lock, and is, as what waits, the current job.  *)
OwnerInv ==
    /\ \A w \in Slots : task[w].pc # "idle" => Holds(w, task[w].job)
    /\ \A id \in DOMAIN jobs : jobs[id].state = "active" =>
          \E w \in Slots : jobs[id].slot = w /\ task[w].pc # "idle" /\ task[w].job = id
    /\ \A id \in DOMAIN jobs : jobs[id].state = "waiting" => Current(id)
    /\ \A w \in Slots : InCharge(w) => Current(task[w].job)
    /\ \A q \in Requests : request[q].pc = "enqueue" =>
          request[q].next.id \in DOMAIN jobs \/ Current(request[q].next.id)

(* A run has at most one transcription job, none before it is transcribed,
   and none until a request that starts there has chosen its version.      *)
KnownInv ==
    /\ \A i, j \in Known :
          i.queue = "transcription" /\ j.queue = "transcription" /\ i.run = j.run => i = j
    /\ \A id \in Known : /\ id.run <= video.run
                         /\ id.queue = "analysis" => id.n <= video.analysisRun
    /\ video.status \in {"QUEUED", "INGESTING"} => NoTranscriptionOf(video.run)
    /\ \A q \in Requests : request[q].pc = "version" =>
          /\ video.status = "TRANSCRIBING" /\ request[q].run = video.run
          /\ \A id \in Known : id.run # video.run
          /\ \A p \in Requests : request[p].pc = "version" => p = q

(* What an execution in charge has read or done still stands.               *)
StillStands(w) ==
    LET pc == task[w].pc
        job == task[w].job
    IN
    /\ At(w, "ingest", "ensure-next") => video.status = "TRANSCRIBING" /\ task[w].seen.run = video.run
    /\ pc = "enqueue" =>
          \/ /\ job.queue = "ingest" /\ video.status = "TRANSCRIBING"
             /\ task[w].next.id.queue = "transcription" /\ task[w].next.id.run = video.run
          \/ /\ job.queue = "transcription" /\ video.status = "ANALYZING"
             /\ task[w].next = Enqueuing(AnalysisJob(video.analysisRun), video.transcript)
    /\ Transcribing(w) =>
          /\ video.status = "TRANSCRIBING" /\ task[w].seen.analysisRun = video.analysisRun
          /\ pc \in {"mark", "provider", "save"} /\ job.n \in Versions =>
                transcripts[job.n] # "COMPLETED"
          /\ pc \in {"discard-audio", "advance"} => video.transcript = job.n
    /\ pc = "fail" => task[w].seen.ready = video.ready

WorkInv == \A w \in Slots : StillStands(w)

(* An analysis is of the active transcript.                                *)
MomentsInv ==
    /\ video.status = "READY" => AnalysisJob(video.analysisRun) \in DOMAIN jobs
    /\ video.status \in {"ANALYZING", "READY"} =>
          /\ \A id \in DOMAIN jobs :
                id = AnalysisJob(video.analysisRun) => jobs[id].data = video.transcript
          /\ \A q \in Requests :
                request[q].pc = "enqueue" /\ request[q].next.id = AnalysisJob(video.analysisRun) =>
                   request[q].next.data = video.transcript

CalmInv == Shaped /\ OwnerInv /\ KnownInv /\ WorkInv /\ MomentsInv

(* No slot dies or loses its lock, and a job that did its work is not
   failed for its record.                                                  *)
Calm == Bound.crashes = 0 /\ Bound.lostLocks = 0 /\ "done" \notin FaultyCalls

(* An analysis that has passed its charge.                                 *)
MidAnalysis(w) ==
    task[w].pc \in {"load", "llm", "publish", "advance"} /\ task[w].job.queue = "analysis"

(* Until a refund comes late, what is analysed or was delivered is paid for. *)
CreditsInv ==
    used.lateRefunds = 0 =>
       /\ video.ready \/ video.status = "READY" => held
       /\ \A w \in Slots : MidAnalysis(w) => held

(* Every run was asked for: by the upload, or by a request that is decided. *)
Undecided == {q \in Requests : request[q].pc = "transition"}

CountsInv ==
    /\ used.requests <= Bound.requests
    /\ 1 <= video.run
    /\ video.run + Cardinality(Undecided) <= 1 + used.requests
    /\ video.analysisRun + Cardinality(Undecided)
           + (IF video.status \in {"QUEUED", "INGESTING", "TRANSCRIBING"} THEN 1 ELSE 0)
           <= 1 + used.requests
    /\ video.status \in {"ANALYZING", "READY"} => 1 <= video.analysisRun

(* The bound on the numbers, which the code does not have, is out of reach. *)
RoomForRuns == 1 + Bound.requests <= MaxRuns

(* A run takes at most one version more than the runs before it.           *)
Numbered(w) ==
    /\ At(w, "ingest", "advance") => task[w].version \in 1 .. video.run
    /\ task[w].pc = "enqueue" /\ task[w].job.queue = "ingest" =>
          task[w].next.id.n \in 1 .. video.run

VersionsInv ==
    /\ video.transcript <= video.run
    /\ \A id \in Known : id.queue = "transcription" => id.n \in 1 .. id.run
    /\ \A n \in Versions : transcripts[n] # "none" =>
          \E id \in DOMAIN jobs : id.queue = "transcription" /\ id.n = n
    /\ \A w \in Slots : Numbered(w)

Published(w) ==
    At(w, "analysis", "advance") /\ ~ video.deleted =>
       {r \in Versions : candidates[r] = "live"} = {video.analysisRun}

PublishedInv == \A w \in Slots : Published(w)
=============================================================================
